--------------------------- MODULE MediaStoreProofs ---------------------------
(***************************************************************************)
(* Proofs about MediaStore, for any number of attachments, uploads and     *)
(* readers and any limits: what a caller was told stays in the index and on*)
(* disk until it expires, a file stays whole while it is read, what is on  *)
(* disk stays within the budget, and a cleanup comes for every file.       *)
(***************************************************************************)
EXTENDS MediaStore, Sums, FiniteSetTheorems, TLAPS

\* The values of the variables.
Record == [exp : Nat, size : Nat]
Promise == [exp : Nat, file : BOOLEAN]
Job == [at : Stages, exp : Nat, size : Nat]
Reading == [id : Ids, at : ReaderStages]
Loop == [kind : Kinds, todo : SUBSET Ids, file : Ids \cup {None}, writing : BOOLEAN,
         since : Nat]

\* The stages of an observation; of a transfer; of one that has a lease if it is a
\* download; before its record has its file; once it has written the file; of one
\* that has the lock.
Observing == {"observe", "observing"}
Leasing == {"reserve", "create", "stream", "check", "commit", "saving", "discard"}
Moving == {"slot", "undo", "undone"} \cup Leasing
Early == {"slot", "reserve", "create", "stream", "check", "commit"}
Filled == {"stream", "check", "commit", "saving"}
Locking == {"observing", "saving", "undo", "undone"}

Typed ==
  /\ files \in [Ids -> Nat]
  /\ index \in [Ids -> Record \cup {None}]
  /\ recs \in [Ids -> Record \cup {None}]
  /\ leases \in [Ids -> Nat]
  /\ op \in [Ids -> Job \cup {None}]
  /\ reader \in [Readers -> Reading \cup {None}]
  /\ sweep \in Loop \cup {None}
  /\ told \in [Ids -> Promise \cup {None}]
  /\ phase \in {"down", "loading", "up"}
  /\ now \in Nat
  /\ enabled \in BOOLEAN

\* Nothing runs before the store is up.
StartInv ==
  phase # "up" =>
    /\ ~enabled /\ ~due /\ timer = None /\ sweep = None
    /\ \A id \in Ids : op[id] = None
    /\ \A r \in Readers : reader[r] = None

\* A start and a cleanup have the lock.
LockInv ==
  /\ phase = "loading" => lock = "load"
  /\ sweep # None => lock = "sweep"

\* A removal has the entry to itself, and nothing of it is promised.
Removing == sweep # None /\ sweep.kind # "clean"
RemoveInv ==
  Removing => ~enabled /\ Drained /\ \A id \in Ids : told[id] = None

\* The leases are those of the readers and of the download.
Leased(id) == id \in Attachments /\ op[id] # None /\ op[id].at \in Leasing
LeaseOK(id) == leases[id] = Cardinality(Using(id)) + (IF Leased(id) THEN 1 ELSE 0)

\* The file that a cleanup unlinks has expired, and is nobody's.
Unlinks(id) == sweep # None /\ sweep.kind = "clean" /\ sweep.file = id
SweepInv ==
  \A id \in Ids : Unlinks(id) =>
    /\ recs[id] # None /\ recs[id].size = 0 /\ Expired(recs[id])
    /\ ~Leased(id)

\* The job j of id.  A download has the record it was asked for, as long as it has a
\* lease or its deadline is to come; an upload has none before it is committed, and
\* is promised at its end.  What was written is on disk, and in the record that is
\* saved.  A file that is transferred was not promised.
JobOK(id, j) ==
  /\ j.at \in Observing \cup Moving \cup {"expired"}
  /\ id \in Attachments => j.at \notin {"undo", "undone"}
  /\ id \in Uploads =>
       /\ j.at \in Moving /\ told[id] = None
       /\ j.at \in Early => recs[id] = None
  /\ id \in Attachments /\ (j.at \in Leasing \/ (j.at = "slot" /\ ~Expired(j))) =>
       recs[id] # None /\ recs[id].exp = j.exp
  /\ j.at \in Locking => lock = id
  /\ j.at = "observing" => recs[id] # None /\ told[id] = None
  /\ j.at \in Filled => j.size > 0 /\ files[id] = j.size
  /\ j.at = "saving" => recs[id] = [exp |-> j.exp, size |-> j.size]
  /\ j.at \in Moving /\ told[id] # None => ~told[id].file

\* A promise is about the record that is there, in memory and in the index.
SameOK(id) ==
  told[id] # None =>
    /\ recs[id] # None => recs[id].exp = told[id].exp
    /\ index[id] # None => index[id].exp = told[id].exp

\* The reference of an attachment was saved, unless it is being saved.
SavedOK(id) ==
  id \in Attachments /\ phase # "down" /\ recs[id] # None /\ ~At(id, "observing") =>
    index[id] # None /\ index[id].exp = recs[id].exp

\* Records and index keep what is promised.
PromiseOK(id) ==
  told[id] # None /\ ~Expired(told[id]) =>
    /\ phase # "down" =>
         /\ recs[id] # None
         /\ told[id].file => recs[id].size > 0 /\ files[id] = recs[id].size
    /\ index[id] # None
    /\ told[id].file => index[id].size > 0 /\ files[id] = index[id].size

RecordOK(id) == SameOK(id) /\ SavedOK(id) /\ PromiseOK(id)

\* A file that was called ready is whole when it is read.
Whole(id) ==
  told[id] # None /\ told[id].file =>
    recs[id] # None /\ files[id] > 0 /\ recs[id].size = files[id]
ReadInv == \A r \in Readers, id \in Ids : Reads(r, id) => Whole(id)

IdInv ==
  \A id \in Ids :
    /\ op[id] # None => JobOK(id, op[id])
    /\ LeaseOK(id)
    /\ RecordOK(id)

IInv ==
  /\ Typed /\ StartInv /\ LockInv /\ RemoveInv /\ SweepInv /\ ReadInv
  /\ IdInv
-----------------------------------------------------------------------------
(***************************************************************************)
(* Values                                                                  *)
(***************************************************************************)

\* The numbers are numbers, and None is nothing else.
LEMMA Values ==
  /\ Lifetime \in Nat /\ Lifetime # 0 /\ MaxBytes \in Nat
  /\ None \notin Nat /\ None \notin Record /\ None \notin Promise /\ None \notin Job
  /\ None \notin Reading /\ None \notin Loop /\ None \notin Ids
  /\ None # "sweep" /\ None # "load"
  /\ "sweep" \notin Ids /\ "load" \notin Ids
  /\ Attachments \cap Uploads = {} /\ Ids = Attachments \cup Uploads
  BY MediaBoundsAssumption, MediaIdsAssumption, MediaNoneAssumption
     DEF Record, Promise, Job, Reading, Loop, Ids

\* The job of an id.
LEMMA JobFields ==
  ASSUME Typed, NEW id \in Ids, op[id] # None
  PROVE  /\ op[id] \in Job
         /\ op[id].at \in Stages /\ op[id].exp \in Nat /\ op[id].size \in Nat
         /\ op[id] = [at |-> op[id].at, exp |-> op[id].exp, size |-> op[id].size]
  <1>1. op[id] \in Job
    BY DEF Typed
  <1>. QED
    BY <1>1 DEF Job

\* A job goes on.
LEMMA Goes ==
  ASSUME Typed, NEW id \in Ids, op[id] # None, NEW s \in Stages, Goto(id, s)
  PROVE  /\ op' \in [Ids -> Job \cup {None}]
         /\ op'[id] = [at |-> s, exp |-> op[id].exp, size |-> op[id].size]
         /\ op'[id] # None
         /\ \A i \in Ids : i # id => op'[i] = op[i]
  <1>1. op[id] \in Job
    BY DEF Typed
  <1>2. PICK a \in Stages, e \in Nat, z \in Nat : op[id] = [at |-> a, exp |-> e, size |-> z]
    BY <1>1 DEF Job
  <1>3. [op[id] EXCEPT !.at = s] = [at |-> s, exp |-> e, size |-> z]
    BY <1>2
  <1>4. [at |-> s, exp |-> e, size |-> z] \in Job
    BY DEF Job
  <1>5. op \in [Ids -> Job \cup {None}]
    BY DEF Typed
  <1>6. op' = [op EXCEPT ![id] = [op[id] EXCEPT !.at = s]]
    BY DEF Goto
  <1>7. op[id].exp = e /\ op[id].size = z
    BY <1>2
  <1>. QED
    BY <1>3, <1>4, <1>5, <1>6, <1>7, Values

\* A job ends.
LEMMA Ends ==
  ASSUME Typed, NEW id \in Ids, End(id)
  PROVE  /\ op' \in [Ids -> Job \cup {None}]
         /\ op'[id] = None
         /\ \A i \in Ids : i # id => op'[i] = op[i]
  BY DEF Typed, End

-----------------------------------------------------------------------------
(***************************************************************************)
(* Steps of one id                                                         *)
(***************************************************************************)

\* A step of an id leaves the others, and the records while somebody has the lock.
Local(id) ==
  /\ UNCHANGED <<reader, sweep, phase, enabled, now, due>>
  /\ \A i \in Ids : i # id =>
       /\ op'[i] = op[i] /\ recs'[i] = recs[i] /\ told'[i] = told[i]
       /\ files'[i] = files[i] /\ leases'[i] = leases[i]
  /\ index' \in {index, recs}
  /\ lock \in {id, None} \/ UNCHANGED <<lock, recs, index, told>>
  /\ lock' \in {lock, id, None}

\* What a step of id has to keep of it.
Kept1(id) ==
  /\ op'[id] # None => JobOK(id, op[id])'
  /\ LeaseOK(id)'
  /\ RecordOK(id)'
  /\ Whole(id) => Whole(id)'
  /\ Leased(id)' => Leased(id) \/ ~Unlinks(id)

\* An id has a job, or may get one, only while the store is up and nobody removes it.
LEMMA Up ==
  ASSUME IInv, NEW id \in Ids, op[id] # None \/ enabled
  PROVE  phase = "up"
  BY DEF IInv, StartInv

LEMMA Job1 ==
  ASSUME IInv, NEW id \in Ids, op[id] # None
  PROVE  JobOK(id, op[id])
  BY DEF IInv, IdInv

LEMMA Alone ==
  ASSUME IInv, NEW id \in Ids,
         Observe(id) \/ Get(id) \/ Stage(id) \/ JobStep(id)
  PROVE  phase = "up" /\ ~Removing
  <1>1. op[id] # None \/ enabled
    BY DEF Observe, Get, Stage, JobStep, Remember, Recognize, Remembered, FetchBegins,
           StageBegins, Refused, Reserve, GiveUp, Create, Streamed, Broken, Checked,
           Rejected, Commit, Saved, NotSaved, Discard, Undo, Unlinked, Undone, At
  <1>2. ASSUME Removing
        PROVE  FALSE
    <2>1. ~enabled /\ lock = "sweep"
      BY <1>2 DEF IInv, RemoveInv, LockInv, Removing
    <2>2. op[id] # None /\ op[id].at \in Observing
      BY <1>1, <1>2, <2>1 DEF IInv, RemoveInv, Drained, Observing
    <2>3. ~Free /\ op[id].at # "observing"
      BY <2>1, <2>2, Job1, Values DEF Free, JobOK, Locking
    <2>. QED
      BY <2>1, <2>2, <2>3
         DEF Observe, Get, Stage, JobStep, Remember, Recognize, Remembered, FetchBegins,
             StageBegins, Refused, Reserve, GiveUp, Create, Streamed, Broken, Checked,
             Rejected, Commit, Saved, NotSaved, Discard, Undo, Unlinked, Undone, At,
             Observing
  <1>. QED
    BY <1>1, <1>2, Up

\* The invariant of the others.
LEMMA OthersKept ==
  ASSUME IInv, NEW id \in Ids, Typed', Local(id), phase = "up", NEW i \in Ids, i # id
  PROVE  /\ op'[i] # None => JobOK(i, op[i])'
         /\ LeaseOK(i)'
         /\ RecordOK(i)'
         /\ Whole(i)' <=> Whole(i)
  <1>1. /\ op'[i] = op[i] /\ recs'[i] = recs[i] /\ told'[i] = told[i]
        /\ files'[i] = files[i] /\ leases'[i] = leases[i]
        /\ index'[i] \in {index[i], recs[i]}
        /\ reader' = reader /\ phase' = phase /\ now' = now
    BY DEF Local
  <1>2. lock = i => lock' = i
    BY Values DEF Local
  <1>3. op[i] # None => JobOK(i, op[i])
    BY Job1
  <1>4. op'[i] # None => JobOK(i, op[i])'
    BY <1>1, <1>2, <1>3 DEF JobOK, Expired
  <1>5. LeaseOK(i) /\ RecordOK(i)
    BY DEF IInv, IdInv
  <1>6. Using(i)' = Using(i) /\ (Leased(i)' <=> Leased(i))
    BY <1>1 DEF Using, Reads, Leased
  <1>7. LeaseOK(i)'
    BY <1>1, <1>5, <1>6 DEF LeaseOK
  <1>8. SameOK(i)'
    BY <1>1, <1>5 DEF RecordOK, SameOK
  <1>9. SavedOK(i)'
    BY <1>1, <1>5 DEF RecordOK, SavedOK, At
  <1>10. PromiseOK(i)'
    <2>1. CASE index'[i] = index[i]
      BY <1>1, <1>5, <2>1 DEF RecordOK, PromiseOK, Expired
    <2>2. CASE index'[i] = recs[i]
      BY <1>1, <1>5, <2>2 DEF RecordOK, PromiseOK, Expired
    <2>. QED
      BY <1>1, <2>1, <2>2
  <1>. QED
    BY <1>1, <1>4, <1>7, <1>8, <1>9, <1>10 DEF RecordOK, Whole

\* A step of one id keeps the invariant if it keeps what is said of that id.
LEMMA LocalKeeps ==
  ASSUME IInv, NEW id \in Ids, Typed', Local(id), phase = "up", ~Removing, Kept1(id)
  PROVE  IInv'
  <1>1. StartInv'
    BY DEF StartInv, Local
  <1>2. sweep # None => lock = "sweep" /\ lock' = "sweep" /\ recs' = recs
    BY Values DEF IInv, LockInv, Local
  <1>3. LockInv'
    BY <1>2 DEF LockInv, Local
  <1>4. RemoveInv'
    BY DEF RemoveInv, Removing, Local
  <1>5. SweepInv'
    <2>. SUFFICES ASSUME NEW i \in Ids, Unlinks(i)'
                  PROVE  /\ recs'[i] # None /\ recs'[i].size = 0 /\ Expired(recs[i])'
                         /\ ~Leased(i)'
      BY DEF SweepInv
    <2>1. Unlinks(i) /\ recs' = recs /\ now' = now
      BY <1>2 DEF Unlinks, Local
    <2>2. recs[i] # None /\ recs[i].size = 0 /\ Expired(recs[i]) /\ ~Leased(i)
      BY <2>1 DEF IInv, SweepInv
    <2>3. ~Leased(i)'
      <3>1. CASE i = id
        BY <2>1, <2>2, <3>1 DEF Kept1
      <3>2. CASE i # id
        BY <2>2, <3>2 DEF Local, Leased
      <3>. QED
        BY <3>1, <3>2
    <2>. QED
      BY <2>1, <2>2, <2>3 DEF Expired
  <1>6. ReadInv'
    <2>. SUFFICES ASSUME NEW r \in Readers, NEW i \in Ids, Reads(r, i)'
                  PROVE  Whole(i)'
      BY DEF ReadInv
    <2>1. Reads(r, i)
      BY DEF Reads, Local
    <2>2. Whole(i)
      BY <2>1 DEF IInv, ReadInv
    <2>. QED
      BY <2>2, OthersKept DEF Kept1
  <1>7. IdInv'
    <2>. SUFFICES ASSUME NEW i \in Ids
                  PROVE  (op[i] # None => JobOK(i, op[i]))' /\ LeaseOK(i)' /\ RecordOK(i)'
      BY DEF IdInv
    <2>1. CASE i = id
      BY <2>1 DEF Kept1
    <2>2. CASE i # id
      BY <2>2, OthersKept
    <2>. QED
      BY <2>1, <2>2
  <1>. QED
    BY <1>1, <1>3, <1>4, <1>5, <1>6, <1>7 DEF IInv

-----------------------------------------------------------------------------
(***************************************************************************)
(* Observations and transfers, action by action                            *)
(***************************************************************************)
Keeps(id) == Typed' /\ Local(id) /\ Kept1(id)

\* A step that only moves the job.
LEMMA OnlyOp ==
  ASSUME IInv, NEW id \in Ids, phase = "up",
         UNCHANGED <<files, index, recs, leases, lock, reader, sweep, due, phase, enabled,
                     told, now>>,
         op' \in [Ids -> Job \cup {None}],
         \A i \in Ids : i # id => op'[i] = op[i],
         ~At(id, "observing"),
         Leased(id)' <=> Leased(id),
         op'[id] # None => JobOK(id, op'[id])
  PROVE  Keeps(id)
  <1>1. Typed'
    BY DEF IInv, Typed
  <1>2. Local(id)
    BY DEF Local
  <1>3. op'[id] # None => JobOK(id, op[id])'
    BY DEF JobOK, Expired
  <1>4. LeaseOK(id)'
    <2>1. LeaseOK(id)
      BY DEF IInv, IdInv
    <2>2. Using(id)' = Using(id)
      BY DEF Using, Reads
    <2>. QED
      BY <2>1, <2>2 DEF LeaseOK
  <1>5. RecordOK(id)'
    <2>1. RecordOK(id)
      BY DEF IInv, IdInv
    <2>2. SameOK(id)'
      BY <2>1 DEF RecordOK, SameOK
    <2>3. SavedOK(id)'
      BY <2>1 DEF RecordOK, SavedOK
    <2>4. PromiseOK(id)'
      BY <2>1 DEF RecordOK, PromiseOK, Expired
    <2>. QED
      BY <2>2, <2>3, <2>4 DEF RecordOK
  <1>6. Whole(id) => Whole(id)'
    BY DEF Whole
  <1>. QED
    BY <1>1, <1>2, <1>3, <1>4, <1>5, <1>6 DEF Keeps, Kept1

\* A job begins.
LEMMA Begins ==
  ASSUME Typed, NEW id \in Ids, op[id] = None, NEW s \in Stages, NEW e \in Nat,
         op' = [op EXCEPT ![id] = [at |-> s, exp |-> e, size |-> 0]]
  PROVE  /\ op' \in [Ids -> Job \cup {None}]
         /\ op'[id] = [at |-> s, exp |-> e, size |-> 0]
         /\ \A i \in Ids : i # id => op'[i] = op[i]
  <1>1. [at |-> s, exp |-> e, size |-> 0] \in Job
    BY DEF Job
  <1>. QED
    BY <1>1 DEF Typed

LEMMA ObserveStep ==
  ASSUME IInv, NEW id \in Attachments, phase = "up", Observe(id)
  PROVE  Keeps(id)
  <1>1. Typed /\ id \in Ids /\ id \notin Uploads
    BY Values DEF IInv
  <1>2. /\ op' \in [Ids -> Job \cup {None}]
        /\ op'[id] = [at |-> "observe", exp |-> 0, size |-> 0]
        /\ \A i \in Ids : i # id => op'[i] = op[i]
    <2>1. op[id] = None /\ op' = [op EXCEPT ![id] = [at |-> "observe", exp |-> 0, size |-> 0]]
      BY DEF Observe
    <2>2. 0 \in Nat /\ "observe" \in Stages
      BY DEF Stages
    <2>. QED
      BY <1>1, <2>1, <2>2, Begins
  <1>3. JobOK(id, op'[id])
    BY <1>1, <1>2 DEF JobOK, Observing, Moving, Leasing, Locking, Filled
  <1>4. ~Leased(id)' /\ ~Leased(id) /\ ~At(id, "observing")
    BY <1>2 DEF Observe, Leased, Leasing, At
  <1>. QED
    BY <1>1, <1>2, <1>3, <1>4, OnlyOp DEF Observe, diskVars, storeVars, sweepVars, envVars

LEMMA GetStep ==
  ASSUME IInv, NEW id \in Ids, phase = "up", Get(id)
  PROVE  Keeps(id)
  <1>1. Typed /\ id \notin Uploads /\ recs[id] \in Record /\ recs[id].exp \in Nat
    BY Values DEF IInv, Typed, Get, Record
  <1>2. /\ op' \in [Ids -> Job \cup {None}]
        /\ op'[id] = [at |-> "slot", exp |-> recs[id].exp, size |-> 0]
        /\ \A i \in Ids : i # id => op'[i] = op[i]
    <2>1. op[id] = None /\ op' = [op EXCEPT ![id] = [at |-> "slot", exp |-> recs[id].exp, size |-> 0]]
      BY DEF Get
    <2>2. 0 \in Nat /\ "slot" \in Stages
      BY DEF Stages
    <2>. QED
      BY <1>1, <2>1, <2>2, Begins
  <1>3. told[id] # None => ~told[id].file
    <2>. SUFFICES ASSUME told[id] # None, told[id].file
                  PROVE  FALSE
      OBVIOUS
    <2>1. told[id].exp = recs[id].exp
      BY DEF IInv, IdInv, RecordOK, SameOK, Get
    <2>2. recs[id].size > 0
      BY <2>1 DEF IInv, IdInv, RecordOK, PromiseOK, Get, Expired
    <2>. QED
      BY <2>2 DEF Get
  <1>4. JobOK(id, op'[id])
    BY <1>1, <1>2, <1>3 DEF JobOK, Observing, Moving, Leasing, Locking, Filled, Get
  <1>5. ~Leased(id)' /\ ~Leased(id) /\ ~At(id, "observing")
    BY <1>2 DEF Get, Leased, Leasing, At
  <1>. QED
    BY <1>1, <1>2, <1>4, <1>5, OnlyOp DEF Get, diskVars, storeVars, sweepVars, envVars

LEMMA StageStep ==
  ASSUME IInv, NEW id \in Ids, phase = "up", Stage(id)
  PROVE  Keeps(id)
  <1>1. Typed /\ id \notin Attachments
    BY Values DEF IInv, Stage
  <1>2. /\ op' \in [Ids -> Job \cup {None}]
        /\ op'[id] = [at |-> "slot", exp |-> 0, size |-> 0]
        /\ \A i \in Ids : i # id => op'[i] = op[i]
    <2>1. op[id] = None /\ op' = [op EXCEPT ![id] = [at |-> "slot", exp |-> 0, size |-> 0]]
      BY DEF Stage
    <2>2. 0 \in Nat /\ "slot" \in Stages
      BY DEF Stages
    <2>. QED
      BY <1>1, <2>1, <2>2, Begins
  <1>3. JobOK(id, op'[id])
    BY <1>1, <1>2 DEF JobOK, Observing, Moving, Leasing, Early, Locking, Filled, Stage
  <1>4. ~Leased(id)' /\ ~Leased(id) /\ ~At(id, "observing")
    BY <1>1, <1>2 DEF Stage, Leased, At
  <1>. QED
    BY <1>1, <1>2, <1>3, <1>4, OnlyOp DEF Stage, diskVars, storeVars, sweepVars, envVars

LEMMA StageBeginsStep ==
  ASSUME IInv, NEW id \in Ids, phase = "up", StageBegins(id)
  PROVE  Keeps(id)
  <1>1. Typed /\ id \notin Attachments /\ now + Lifetime \in Nat
    BY Values DEF IInv, StageBegins, Typed
  <1>2. op[id] # None /\ op[id].at = "slot" /\ JobOK(id, op[id])
    BY Job1 DEF StageBegins, At
  <1>3. [at |-> "reserve", exp |-> now + Lifetime, size |-> 0] \in Job
    <2>1. PICK e \in Nat : e = now + Lifetime
      BY <1>1
    <2>2. [at |-> "reserve", exp |-> e, size |-> 0] \in Job
      BY DEF Job, Stages
    <2>. QED
      BY <2>1, <2>2
  <1>4. /\ op' \in [Ids -> Job \cup {None}]
        /\ op'[id] = [at |-> "reserve", exp |-> now + Lifetime, size |-> 0]
        /\ \A i \in Ids : i # id => op'[i] = op[i]
    BY <1>1, <1>3 DEF StageBegins, Typed
  <1>5. JobOK(id, op'[id])
    BY <1>1, <1>2, <1>4
       DEF JobOK, Observing, Moving, Leasing, Early, Locking, Filled, StageBegins
  <1>6. ~Leased(id)' /\ ~Leased(id) /\ ~At(id, "observing")
    BY <1>1, <1>2 DEF Leased, At
  <1>. QED
    BY <1>1, <1>4, <1>5, <1>6, OnlyOp
       DEF StageBegins, diskVars, storeVars, sweepVars, envVars

LEMMA RefusedStep ==
  ASSUME IInv, NEW id \in Ids, phase = "up", Refused(id)
  PROVE  Keeps(id)
  <1>1. Typed /\ op[id] # None /\ op[id].at = "slot"
    BY DEF IInv, Refused, At
  <1>2. /\ op' \in [Ids -> Job \cup {None}]
        /\ op'[id] = None
        /\ \A i \in Ids : i # id => op'[i] = op[i]
    BY <1>1, Ends DEF Refused
  <1>3. ~Leased(id)' /\ ~Leased(id) /\ ~At(id, "observing")
    BY <1>1, <1>2 DEF Leased, Leasing, At
  <1>. QED
    BY <1>1, <1>2, <1>3, OnlyOp DEF Refused, diskVars, storeVars, sweepVars, envVars

LEMMA MovedStep ==
  ASSUME IInv, NEW id \in Ids, phase = "up",
         Reserve(id) \/ Streamed(id) \/ Checked(id) \/ Rejected(id)
  PROVE  Keeps(id)
  <1>1. Typed /\ op[id] # None /\ JobOK(id, op[id])
    BY Job1 DEF IInv, Reserve, Streamed, Checked, Rejected, At
  <1>2. PICK s \in {"create", "check", "commit", "discard"} :
          /\ Goto(id, s)
          /\ s = "create" => op[id].at = "reserve"
          /\ s = "check" => op[id].at = "stream"
          /\ s = "commit" => op[id].at = "check"
          /\ s = "discard" => op[id].at \in {"check", "commit"}
    BY DEF Reserve, Streamed, Checked, Rejected, At
  <1>3. /\ op' \in [Ids -> Job \cup {None}]
        /\ op'[id] = [at |-> s, exp |-> op[id].exp, size |-> op[id].size]
        /\ op'[id] # None
        /\ \A i \in Ids : i # id => op'[i] = op[i]
    <2>1. s \in Stages
      BY <1>2 DEF Stages
    <2>. QED
      BY <1>1, <1>2, <2>1, Goes
  <1>4. JobOK(id, op'[id])
    BY <1>1, <1>2, <1>3 DEF JobOK, Observing, Moving, Leasing, Early, Locking, Filled
  <1>5. (Leased(id)' <=> Leased(id)) /\ ~At(id, "observing")
    BY <1>1, <1>2, <1>3 DEF Leased, Leasing, At
  <1>. QED
    BY <1>1, <1>3, <1>4, <1>5, OnlyOp
       DEF Reserve, Streamed, Checked, Rejected, diskVars, storeVars, sweepVars, envVars

\* The readers of a file can be counted.
LEMMA Readings ==
  ASSUME NEW id
  PROVE  IsFiniteSet(Using(id)) /\ Cardinality(Using(id)) \in Nat
  <1>1. Using(id) \subseteq Readers
    BY DEF Using
  <1>. QED
    BY <1>1, FS_Subset, FS_CardinalityType, MediaIdsAssumption

\* A step that leaves the leases of id.
LEMMA SameLease ==
  ASSUME IInv, NEW id \in Ids, reader' = reader, leases'[id] = leases[id],
         Leased(id)' <=> Leased(id)
  PROVE  LeaseOK(id)'
  <1>1. LeaseOK(id)
    BY DEF IInv, IdInv
  <1>2. Using(id)' = Using(id)
    BY DEF Using, Reads
  <1>. QED
    BY <1>1, <1>2 DEF LeaseOK

\* A step that leaves the record of id, and its file if that was promised.
LEMMA SameRecord ==
  ASSUME IInv, NEW id \in Ids, UNCHANGED <<index, recs, told, phase, now>>,
         ~At(id, "observing"),
         UNCHANGED files \/ (told[id] # None => ~told[id].file)
  PROVE  RecordOK(id)' /\ (Whole(id) => Whole(id)')
  <1>1. RecordOK(id)
    BY DEF IInv, IdInv
  <1>2. SameOK(id)'
    BY <1>1 DEF RecordOK, SameOK
  <1>3. SavedOK(id)'
    BY <1>1 DEF RecordOK, SavedOK
  <1>4. PromiseOK(id)'
    BY <1>1 DEF RecordOK, PromiseOK, Expired
  <1>. QED
    BY <1>2, <1>3, <1>4 DEF RecordOK, Whole

\* The lease of a download ends.
LEMMA LeaveStep ==
  ASSUME IInv, NEW id \in Ids, op[id] # None, Leave(id), reader' = reader,
         id \in Attachments => op[id].at \in Leasing
  PROVE  /\ op' \in [Ids -> Job \cup {None}]
         /\ leases' \in [Ids -> Nat]
         /\ \A i \in Ids : i # id => op'[i] = op[i] /\ leases'[i] = leases[i]
         /\ ~Leased(id)' /\ ~At(id, "observing")'
         /\ LeaseOK(id)'
         /\ op'[id] # None => JobOK(id, op[id])'
  <1>1. Typed
    BY DEF IInv
  <1>2. CASE id \in Uploads
    <2>1. End(id) /\ leases' = leases
      BY <1>2 DEF Leave
    <2>2. op' \in [Ids -> Job \cup {None}] /\ op'[id] = None
            /\ \A i \in Ids : i # id => op'[i] = op[i]
      BY <1>1, <2>1, Ends
    <2>3. ~Leased(id)' /\ ~Leased(id)
      BY <1>2, Values DEF Leased
    <2>4. LeaseOK(id)'
      BY <2>1, <2>3, SameLease
    <2>. QED
      BY <1>1, <2>1, <2>2, <2>3, <2>4 DEF At, Typed
  <1>3. CASE id \in Attachments
    <2>1. /\ leases' = [leases EXCEPT ![id] = @ - 1]
          /\ Goto(id, "expired") \/ End(id)
      BY <1>3, Values DEF Leave
    <2>2. /\ op' \in [Ids -> Job \cup {None}]
          /\ op'[id] # None => op'[id].at = "expired"
          /\ \A i \in Ids : i # id => op'[i] = op[i]
      <3>1. CASE Goto(id, "expired")
        <4>1. "expired" \in Stages
          BY DEF Stages
        <4>2. /\ op' \in [Ids -> Job \cup {None}]
              /\ op'[id] = [at |-> "expired", exp |-> op[id].exp, size |-> op[id].size]
              /\ \A i \in Ids : i # id => op'[i] = op[i]
          BY <1>1, <3>1, <4>1, Goes
        <4>. QED
          BY <4>2
      <3>2. CASE End(id)
        BY <1>1, <3>2, Ends
      <3>. QED
        BY <2>1, <3>1, <3>2
    <2>3. Leased(id) /\ ~Leased(id)'
      BY <1>3, <2>2 DEF Leased, Leasing
    <2>4. leases[id] = Cardinality(Using(id)) + 1 /\ Cardinality(Using(id)) \in Nat
      BY <2>3, Readings DEF IInv, IdInv, LeaseOK
    <2>5. leases \in [Ids -> Nat]
      BY <1>1 DEF Typed
    <2>6. leases'[id] = Cardinality(Using(id)) /\ leases' \in [Ids -> Nat]
            /\ \A i \in Ids : i # id => leases'[i] = leases[i]
      BY <2>1, <2>4, <2>5
    <2>7. LeaseOK(id)'
      BY <2>3, <2>4, <2>6 DEF LeaseOK, Using, Reads
    <2>8. op'[id] # None => JobOK(id, op[id])'
      BY <1>3, <2>2, Values DEF JobOK, Observing, Moving, Leasing, Locking, Filled
    <2>. QED
      BY <2>2, <2>3, <2>6, <2>7, <2>8 DEF At
  <1>. QED
    BY <1>2, <1>3, Values

LEMMA FetchBeginsStep ==
  ASSUME IInv, NEW id \in Ids, phase = "up", FetchBegins(id)
  PROVE  Keeps(id)
  <1>1. /\ Typed /\ id \in Attachments /\ id \notin Uploads
        /\ op[id] # None /\ op[id].at = "slot" /\ JobOK(id, op[id])
    BY Job1, Values DEF IInv, FetchBegins, At
  <1>2. /\ op' \in [Ids -> Job \cup {None}]
        /\ op'[id] = [at |-> "reserve", exp |-> op[id].exp, size |-> op[id].size]
        /\ op'[id] # None
        /\ \A i \in Ids : i # id => op'[i] = op[i]
    <2>1. "reserve" \in Stages /\ Goto(id, "reserve")
      BY DEF Stages, FetchBegins
    <2>. QED
      BY <1>1, <2>1, Goes
  <1>3. recs[id] # None /\ recs[id].exp = op[id].exp /\ ~Expired(recs[id])
    BY <1>1 DEF JobOK, FetchBegins, Expired
  <1>4. /\ leases[id] = Cardinality(Using(id)) /\ Cardinality(Using(id)) \in Nat
        /\ leases' = [leases EXCEPT ![id] = leases[id] + 1]
        /\ leases \in [Ids -> Nat]
    BY <1>1, Readings DEF IInv, IdInv, LeaseOK, Leased, Leasing, FetchBegins, Typed
  <1>5. /\ leases' \in [Ids -> Nat] /\ leases'[id] = Cardinality(Using(id)) + 1
        /\ \A i \in Ids : i # id => leases'[i] = leases[i]
    BY <1>4
  <1>6. reader' = reader /\ now' = now /\ UNCHANGED <<index, recs, told, phase, files, lock>>
          /\ UNCHANGED <<sweep, due, enabled>>
    BY DEF FetchBegins, diskVars, sweepVars, envVars
  <1>7. JobOK(id, op[id])'
    BY <1>1, <1>2, <1>3, <1>6 DEF JobOK, Observing, Moving, Leasing, Locking, Filled
  <1>8. LeaseOK(id)'
    <2>1. Leased(id)' /\ Using(id)' = Using(id)
      BY <1>1, <1>2, <1>6 DEF Leased, Leasing, Using, Reads
    <2>. QED
      BY <1>5, <2>1 DEF LeaseOK
  <1>9. RecordOK(id)' /\ (Whole(id) => Whole(id)')
    BY <1>1, <1>6, SameRecord DEF At
  <1>10. ~Unlinks(id)
    BY <1>3 DEF IInv, SweepInv
  <1>11. Typed'
    BY <1>1, <1>2, <1>5, <1>6 DEF Typed
  <1>12. Local(id)
    BY <1>2, <1>5, <1>6 DEF Local
  <1>. QED
    BY <1>7, <1>8, <1>9, <1>10, <1>11, <1>12 DEF Keeps, Kept1

LEMMA GiveUpStep ==
  ASSUME IInv, NEW id \in Ids, phase = "up", GiveUp(id)
  PROVE  Keeps(id)
  <1>1. Typed /\ op[id] # None /\ op[id].at = "reserve" /\ Leave(id)
    BY DEF IInv, GiveUp, At
  <1>2. /\ UNCHANGED <<index, recs, told, phase, files, lock, reader, now>>
        /\ UNCHANGED <<sweep, due, enabled>>
    BY DEF GiveUp, diskVars, sweepVars, envVars
  <1>3. op[id].at \in Leasing
    BY <1>1 DEF Leasing
  <1>4. /\ op' \in [Ids -> Job \cup {None}]
        /\ leases' \in [Ids -> Nat]
        /\ \A i \in Ids : i # id => op'[i] = op[i] /\ leases'[i] = leases[i]
        /\ ~Leased(id)'
        /\ LeaseOK(id)'
        /\ op'[id] # None => JobOK(id, op[id])'
    BY <1>1, <1>2, <1>3, LeaveStep
  <1>5. RecordOK(id)' /\ (Whole(id) => Whole(id)')
    BY <1>1, <1>2, SameRecord DEF At
  <1>6. Typed'
    BY <1>1, <1>2, <1>4 DEF Typed
  <1>7. Local(id)
    BY <1>2, <1>4 DEF Local
  <1>. QED
    BY <1>4, <1>5, <1>6, <1>7 DEF Keeps, Kept1

\* A transfer ends without a file.
LEMMA DroppedStep ==
  ASSUME IInv, NEW id \in Ids, phase = "up", Broken(id) \/ Discard(id)
  PROVE  Keeps(id)
  <1>1. /\ Typed /\ op[id] # None /\ op[id].at \in {"create", "stream", "discard"}
        /\ Leave(id) /\ JobOK(id, op[id])
        /\ files' = [files EXCEPT ![id] = 0]
    BY Job1 DEF IInv, Broken, Discard, At
  <1>2. UNCHANGED <<index, recs, told, phase, lock, reader, now, sweep, due, enabled>>
    BY DEF Broken, Discard, sweepVars, envVars
  <1>3. op[id].at \in Leasing
    BY <1>1 DEF Leasing
  <1>4. /\ op' \in [Ids -> Job \cup {None}]
        /\ leases' \in [Ids -> Nat]
        /\ \A i \in Ids : i # id => op'[i] = op[i] /\ leases'[i] = leases[i]
        /\ ~Leased(id)'
        /\ LeaseOK(id)'
        /\ op'[id] # None => JobOK(id, op[id])'
    BY <1>1, <1>2, <1>3, LeaveStep
  <1>5. told[id] # None => ~told[id].file
    BY <1>1, <1>3 DEF JobOK, Moving
  <1>6. RecordOK(id)' /\ (Whole(id) => Whole(id)')
    BY <1>1, <1>2, <1>5, SameRecord DEF At
  <1>7. files' \in [Ids -> Nat] /\ \A i \in Ids : i # id => files'[i] = files[i]
    BY <1>1 DEF Typed
  <1>8. Typed'
    BY <1>1, <1>2, <1>4, <1>7 DEF Typed
  <1>9. Local(id)
    BY <1>2, <1>4, <1>7 DEF Local
  <1>. QED
    BY <1>4, <1>6, <1>8, <1>9 DEF Keeps, Kept1

\* A step that writes or removes the file of a job, and nothing else.
LEMMA OnlyFile ==
  ASSUME IInv, NEW id \in Ids, phase = "up", op[id] # None, op[id].at \in Moving,
         UNCHANGED <<index, recs, leases, lock, reader, sweep, due, phase, enabled, told,
                     now>>,
         NEW size \in Nat, files' = [files EXCEPT ![id] = size],
         op' \in [Ids -> Job \cup {None}],
         \A i \in Ids : i # id => op'[i] = op[i],
         Leased(id)' <=> Leased(id),
         op'[id] # None => JobOK(id, op[id])'
  PROVE  Keeps(id)
  <1>1. told[id] # None => ~told[id].file
    BY Job1 DEF JobOK
  <1>2. ~At(id, "observing")
    BY DEF At, Moving, Leasing
  <1>3. RecordOK(id)' /\ (Whole(id) => Whole(id)')
    BY <1>1, <1>2, SameRecord
  <1>4. LeaseOK(id)'
    BY SameLease
  <1>5. files' \in [Ids -> Nat] /\ \A i \in Ids : i # id => files'[i] = files[i]
    BY DEF IInv, Typed
  <1>6. Typed'
    BY <1>5 DEF IInv, Typed
  <1>7. Local(id)
    BY <1>5 DEF Local
  <1>. QED
    BY <1>3, <1>4, <1>6, <1>7 DEF Keeps, Kept1

LEMMA CreateStep ==
  ASSUME IInv, NEW id \in Ids, phase = "up", Create(id)
  PROVE  Keeps(id)
  <1>1. /\ Typed /\ op[id] # None /\ op[id].at = "create" /\ JobOK(id, op[id])
        /\ op[id].at \in Moving
    BY Job1 DEF IInv, Create, At, Moving, Leasing
  <1>2. PICK size \in 1 .. MaxBytes :
          /\ files' = [files EXCEPT ![id] = size]
          /\ op' = [op EXCEPT ![id] = [at |-> "stream", exp |-> op[id].exp, size |-> size]]
    BY DEF Create
  <1>3. size \in Nat /\ size > 0
    BY <1>2, Values
  <1>4. UNCHANGED <<index, recs, leases, lock, reader, sweep, due, phase, enabled, told, now>>
    BY DEF Create, storeVars, sweepVars, envVars
  <1>5. PICK a \in Stages, e \in Nat, z \in Nat : op[id] = [at |-> a, exp |-> e, size |-> z]
    BY <1>1, JobFields
  <1>6. /\ op' \in [Ids -> Job \cup {None}]
        /\ op'[id] = [at |-> "stream", exp |-> e, size |-> size]
        /\ op'[id] # None
        /\ \A i \in Ids : i # id => op'[i] = op[i]
    <2>1. op \in [Ids -> Job \cup {None}]
      BY <1>1 DEF Typed
    <2>2. op' = [op EXCEPT ![id] = [at |-> "stream", exp |-> e, size |-> size]]
      <3>1. op[id].exp = e
        BY <1>5
      <3>. QED
        BY <1>2, <3>1
    <2>3. [at |-> "stream", exp |-> e, size |-> size] \in Job
      BY <1>3 DEF Job, Stages
    <2>. QED
      BY <2>1, <2>2, <2>3, Values
  <1>7. op[id].exp = e
    BY <1>5
  <1>8. files'[id] = size
    BY <1>1, <1>2 DEF Typed
  <1>9. JobOK(id, op[id])'
    BY <1>1, <1>3, <1>4, <1>6, <1>7, <1>8
       DEF JobOK, Observing, Moving, Leasing, Early, Locking, Filled, Expired
  <1>10. Leased(id)' <=> Leased(id)
    BY <1>1, <1>6 DEF Leased, Leasing
  <1>. QED
    BY <1>1, <1>2, <1>3, <1>4, <1>6, <1>9, <1>10, OnlyFile

LEMMA UnlinkedStep ==
  ASSUME IInv, NEW id \in Ids, phase = "up", Unlinked(id)
  PROVE  Keeps(id)
  <1>1. /\ Typed /\ op[id] # None /\ op[id].at = "undo" /\ JobOK(id, op[id])
        /\ op[id].at \in Moving
    BY Job1 DEF IInv, Unlinked, At, Moving, Leasing
  <1>2. files' = [files EXCEPT ![id] = 0] /\ Goto(id, "undone") /\ "undone" \in Stages
          /\ 0 \in Nat
    BY DEF Unlinked, Stages
  <1>3. UNCHANGED <<index, recs, leases, lock, reader, sweep, due, phase, enabled, told, now>>
    BY DEF Unlinked, storeVars, sweepVars, envVars
  <1>4. /\ op' \in [Ids -> Job \cup {None}]
        /\ op'[id] = [at |-> "undone", exp |-> op[id].exp, size |-> op[id].size]
        /\ op'[id] # None
        /\ \A i \in Ids : i # id => op'[i] = op[i]
    BY <1>1, <1>2, Goes
  <1>5. JobOK(id, op[id])'
    BY <1>1, <1>3, <1>4, Values
       DEF JobOK, Observing, Moving, Leasing, Early, Locking, Filled, Expired
  <1>6. Leased(id)' <=> Leased(id)
    BY <1>1, <1>4 DEF Leased, Leasing
  <1>. QED
    BY <1>1, <1>2, <1>3, <1>4, <1>5, <1>6, OnlyFile

LEMMA CommitStep ==
  ASSUME IInv, NEW id \in Ids, phase = "up", Commit(id)
  PROVE  Keeps(id)
  <1>1. /\ Typed /\ op[id] # None /\ op[id].at = "commit" /\ JobOK(id, op[id])
        /\ op[id].at \in Moving /\ op[id].at \in Leasing /\ op[id].at \in Filled
    BY Job1 DEF IInv, Commit, At, Moving, Leasing, Filled
  <1>2. /\ op' \in [Ids -> Job \cup {None}]
        /\ op'[id] = [at |-> "saving", exp |-> op[id].exp, size |-> op[id].size]
        /\ op'[id] # None
        /\ \A i \in Ids : i # id => op'[i] = op[i]
    <2>1. "saving" \in Stages /\ Goto(id, "saving")
      BY DEF Stages, Commit
    <2>. QED
      BY <1>1, <2>1, Goes
  <1>3. PICK rec \in Record : rec = [exp |-> op[id].exp, size |-> op[id].size]
    BY <1>1, JobFields DEF Record
  <1>4. /\ recs' = [recs EXCEPT ![id] = rec] /\ recs \in [Ids -> Record \cup {None}]
        /\ rec # None /\ rec.exp = op[id].exp /\ rec.size = op[id].size
    BY <1>1, <1>3, Values DEF Commit, Typed
  <1>5. /\ recs' \in [Ids -> Record \cup {None}] /\ recs'[id] = rec
        /\ \A i \in Ids : i # id => recs'[i] = recs[i]
    BY <1>4
  <1>6. /\ UNCHANGED <<files, index, leases, reader, sweep, due, phase, enabled, told, now>>
        /\ lock = None /\ lock' = id
    BY DEF Commit, diskVars, sweepVars, envVars, Free, Lock
  <1>7. JobOK(id, op[id])'
    BY <1>1, <1>2, <1>3, <1>4, <1>5, <1>6
       DEF JobOK, Observing, Moving, Leasing, Early, Locking, Filled, Expired
  <1>8. LeaseOK(id)' /\ (Leased(id)' <=> Leased(id))
    <2>1. Leased(id)' <=> Leased(id)
      BY <1>1, <1>2 DEF Leased, Leasing
    <2>. QED
      BY <1>6, <2>1, SameLease
  <1>9. told[id] # None => ~told[id].file
    BY <1>1 DEF JobOK
  <1>10. RecordOK(id)
    BY DEF IInv, IdInv
  <1>11. id \in Attachments => recs[id] # None /\ recs[id].exp = rec.exp
    BY <1>1, <1>4 DEF JobOK
  <1>12. id \in Uploads => told[id] = None
    BY <1>1 DEF JobOK
  <1>13. SameOK(id)'
    BY <1>5, <1>6, <1>10, <1>11, <1>12, Values DEF RecordOK, SameOK
  <1>14. SavedOK(id)'
    BY <1>1, <1>5, <1>6, <1>10, <1>11 DEF RecordOK, SavedOK, At
  <1>15. PromiseOK(id)'
    BY <1>4, <1>5, <1>6, <1>9, <1>10 DEF RecordOK, PromiseOK, Expired
  <1>16. Whole(id)'
    BY <1>6, <1>9 DEF Whole
  <1>17. Typed'
    BY <1>1, <1>2, <1>5, <1>6 DEF Typed
  <1>18. Local(id)
    BY <1>2, <1>5, <1>6 DEF Local
  <1>. QED
    BY <1>7, <1>8, <1>13, <1>14, <1>15, <1>16, <1>17, <1>18 DEF Keeps, Kept1, RecordOK

LEMMA SavedStep ==
  ASSUME IInv, NEW id \in Ids, phase = "up", Saved(id)
  PROVE  Keeps(id)
  <1>1. /\ Typed /\ op[id] # None /\ op[id].at = "saving" /\ JobOK(id, op[id])
        /\ op[id].at \in Leasing /\ op[id].at \in Filled
    BY Job1 DEF IInv, Saved, At, Leasing, Filled
  <1>2. PICK e \in Nat, z \in Nat : recs[id] = [exp |-> e, size |-> z] /\ z > 0 /\ files[id] = z
    <2>1. recs[id] = [exp |-> op[id].exp, size |-> op[id].size]
            /\ op[id].size > 0 /\ files[id] = op[id].size
      BY <1>1 DEF JobOK
    <2>. QED
      BY <1>1, <2>1, JobFields
  <1>3. recs[id] # None /\ recs[id].exp = e /\ recs[id].size = z
    <2>1. [exp |-> e, size |-> z] \in Record
      BY DEF Record
    <2>. QED
      BY <1>2, <2>1, Values
  <1>4. /\ told' = [told EXCEPT ![id] = [exp |-> e, file |-> TRUE]]
        /\ index' = recs /\ Leave(id)
        /\ UNCHANGED <<files, recs, reader, sweep, due, phase, enabled, now>>
        /\ lock' = None
    BY <1>3 DEF Saved, Persist, envVars, Unlock
  <1>5. lock = id
    BY <1>1 DEF JobOK, Locking
  <1>6. /\ op' \in [Ids -> Job \cup {None}]
        /\ leases' \in [Ids -> Nat]
        /\ \A i \in Ids : i # id => op'[i] = op[i] /\ leases'[i] = leases[i]
        /\ ~Leased(id)' /\ ~At(id, "observing")'
        /\ LeaseOK(id)'
        /\ op'[id] # None => JobOK(id, op[id])'
    BY <1>1, <1>4, LeaveStep
  <1>7. /\ told' \in [Ids -> Promise \cup {None}]
        /\ told'[id] = [exp |-> e, file |-> TRUE]
        /\ \A i \in Ids : i # id => told'[i] = told[i]
    <2>1. told \in [Ids -> Promise \cup {None}] /\ [exp |-> e, file |-> TRUE] \in Promise
      BY <1>1 DEF Typed, Promise
    <2>. QED
      BY <1>4, <2>1
  <1>8. told'[id].exp = e /\ told'[id].file
    BY <1>7
  <1>9. RecordOK(id)' /\ Whole(id)'
    BY <1>2, <1>3, <1>4, <1>8 DEF RecordOK, SameOK, SavedOK, PromiseOK, Whole
  <1>10. Typed'
    BY <1>1, <1>4, <1>6, <1>7 DEF Typed
  <1>11. Local(id)
    BY <1>4, <1>5, <1>6, <1>7 DEF Local
  <1>. QED
    BY <1>6, <1>9, <1>10, <1>11 DEF Keeps, Kept1

LEMMA NotSavedStep ==
  ASSUME IInv, NEW id \in Ids, phase = "up", NotSaved(id)
  PROVE  Keeps(id)
  <1>1. /\ Typed /\ op[id] # None /\ op[id].at = "saving" /\ JobOK(id, op[id])
        /\ op[id].at \in Moving /\ op[id].at \in Leasing
    BY Job1 DEF IInv, NotSaved, At, Moving, Leasing
  <1>2. PICK e \in Nat, z \in Nat : recs[id] = [exp |-> e, size |-> z] /\ op[id].exp = e
    <2>1. recs[id] = [exp |-> op[id].exp, size |-> op[id].size]
      BY <1>1 DEF JobOK
    <2>. QED
      BY <1>1, <2>1, JobFields
  <1>3. PICK rec \in Record : recs' = [recs EXCEPT ![id] = rec] /\ rec.exp = e
    <2>1. [exp |-> e, size |-> z] \in Record /\ [exp |-> e, size |-> 0] \in Record
            /\ recs \in [Ids -> Record \cup {None}]
      BY <1>1 DEF Record, Typed
    <2>2. CASE id \in Uploads
      <3>1. recs' = [recs EXCEPT ![id] = [exp |-> e, size |-> z]]
        BY <1>2, <2>1, <2>2 DEF NotSaved
      <3>. QED
        BY <2>1, <3>1
    <2>3. CASE id \notin Uploads
      <3>1. recs' = [recs EXCEPT ![id] = [recs[id] EXCEPT !.size = 0]]
        BY <2>3 DEF NotSaved
      <3>2. [recs[id] EXCEPT !.size = 0] = [exp |-> e, size |-> 0]
        BY <1>2
      <3>. QED
        BY <2>1, <3>1, <3>2
    <2>. QED
      BY <2>2, <2>3
  <1>4. /\ recs' \in [Ids -> Record \cup {None}] /\ recs'[id] = rec /\ rec # None
        /\ \A i \in Ids : i # id => recs'[i] = recs[i]
    BY <1>1, <1>3, Values DEF Typed
  <1>5. /\ index' \in {index, recs}
        /\ UNCHANGED <<files, leases, reader, sweep, due, phase, enabled, told, now>>
        /\ lock' = None
    BY DEF NotSaved, Persist, envVars, Unlock
  <1>6. lock = id
    BY <1>1 DEF JobOK, Locking
  <1>7. /\ op' \in [Ids -> Job \cup {None}]
        /\ op'[id] = [at |-> "discard", exp |-> op[id].exp, size |-> op[id].size]
        /\ op'[id] # None
        /\ \A i \in Ids : i # id => op'[i] = op[i]
    <2>1. "discard" \in Stages /\ Goto(id, "discard")
      BY DEF Stages, NotSaved
    <2>. QED
      BY <1>1, <2>1, Goes
  <1>8. JobOK(id, op[id])'
    BY <1>1, <1>2, <1>3, <1>4, <1>5, <1>7
       DEF JobOK, Observing, Moving, Leasing, Early, Locking, Filled, Expired
  <1>9. LeaseOK(id)' /\ (Leased(id)' <=> Leased(id))
    <2>1. Leased(id)' <=> Leased(id)
      BY <1>1, <1>7 DEF Leased, Leasing
    <2>. QED
      BY <1>5, <2>1, SameLease
  <1>10. told[id] # None => ~told[id].file
    BY <1>1 DEF JobOK
  <1>11. RecordOK(id) /\ recs[id].exp = e /\ recs[id] # None
    <2>1. [exp |-> e, size |-> z] \in Record
      BY DEF Record
    <2>. QED
      BY <1>2, <2>1, Values DEF IInv, IdInv
  <1>12. index'[id] \in {index[id], recs[id]}
    BY <1>5
  <1>13. SameOK(id)'
    BY <1>3, <1>4, <1>5, <1>11, <1>12 DEF RecordOK, SameOK
  <1>14. SavedOK(id)'
    BY <1>1, <1>3, <1>4, <1>5, <1>11, <1>12 DEF RecordOK, SavedOK, At
  <1>15. PromiseOK(id)'
    BY <1>4, <1>5, <1>10, <1>11, <1>12 DEF RecordOK, PromiseOK, Expired
  <1>16. Whole(id)'
    BY <1>5, <1>10 DEF Whole
  <1>17. Typed'
    BY <1>1, <1>4, <1>5, <1>7 DEF Typed
  <1>18. Local(id)
    BY <1>4, <1>5, <1>6, <1>7 DEF Local
  <1>. QED
    BY <1>8, <1>9, <1>13, <1>14, <1>15, <1>16, <1>17, <1>18 DEF Keeps, Kept1, RecordOK

LEMMA UndoStep ==
  ASSUME IInv, NEW id \in Ids, phase = "up", Undo(id)
  PROVE  Keeps(id)
  <1>1. /\ Typed /\ op[id] # None /\ op[id].at = "discard" /\ JobOK(id, op[id])
        /\ id \in Uploads /\ id \notin Attachments /\ told[id] = None
    BY Job1, Values DEF IInv, Undo, At, JobOK
  <1>2. /\ op' \in [Ids -> Job \cup {None}]
        /\ op'[id] = [at |-> "undo", exp |-> op[id].exp, size |-> op[id].size]
        /\ op'[id] # None
        /\ \A i \in Ids : i # id => op'[i] = op[i]
    <2>1. "undo" \in Stages /\ Goto(id, "undo")
      BY DEF Stages, Undo
    <2>. QED
      BY <1>1, <2>1, Goes
  <1>3. /\ recs' \in [Ids -> Record \cup {None}] /\ recs'[id] = None
        /\ \A i \in Ids : i # id => recs'[i] = recs[i]
    BY <1>1 DEF Undo, Typed
  <1>4. /\ UNCHANGED <<files, index, leases, reader, sweep, due, phase, enabled, told, now>>
        /\ lock = None /\ lock' = id
    BY DEF Undo, diskVars, sweepVars, envVars, Free, Lock
  <1>5. JobOK(id, op[id])'
    BY <1>1, <1>2, <1>4
       DEF JobOK, Observing, Moving, Leasing, Early, Locking, Filled, Expired
  <1>6. LeaseOK(id)' /\ (Leased(id)' <=> Leased(id))
    <2>1. Leased(id)' <=> Leased(id)
      BY <1>1 DEF Leased
    <2>. QED
      BY <1>4, <2>1, SameLease
  <1>7. RecordOK(id)' /\ Whole(id)'
    BY <1>1, <1>4 DEF RecordOK, SameOK, SavedOK, PromiseOK, Whole
  <1>8. Typed'
    BY <1>1, <1>2, <1>3, <1>4 DEF Typed
  <1>9. Local(id)
    BY <1>2, <1>3, <1>4 DEF Local
  <1>. QED
    BY <1>5, <1>6, <1>7, <1>8, <1>9 DEF Keeps, Kept1

LEMMA UndoneStep ==
  ASSUME IInv, NEW id \in Ids, phase = "up", Undone(id)
  PROVE  Keeps(id)
  <1>1. /\ Typed /\ op[id] # None /\ op[id].at = "undone" /\ JobOK(id, op[id])
        /\ id \notin Attachments /\ id \in Uploads /\ told[id] = None /\ lock = id
    BY Job1, Values DEF IInv, Undone, At, JobOK, Locking
  <1>2. /\ op' \in [Ids -> Job \cup {None}]
        /\ op'[id] = None
        /\ \A i \in Ids : i # id => op'[i] = op[i]
    BY <1>1, Ends DEF Undone
  <1>3. /\ UNCHANGED <<files, recs, leases, reader, sweep, due, phase, enabled, told, now>>
        /\ index' \in {index, recs} /\ lock' = None
    BY DEF Undone, Persist, envVars, Unlock
  <1>4. LeaseOK(id)' /\ (Leased(id)' <=> Leased(id))
    <2>1. Leased(id)' <=> Leased(id)
      BY <1>1 DEF Leased
    <2>. QED
      BY <1>3, <2>1, SameLease
  <1>5. RecordOK(id)' /\ Whole(id)'
    BY <1>1, <1>3 DEF RecordOK, SameOK, SavedOK, PromiseOK, Whole
  <1>6. Typed'
    BY <1>1, <1>2, <1>3 DEF Typed
  <1>7. Local(id)
    BY <1>1, <1>2, <1>3 DEF Local
  <1>. QED
    BY <1>2, <1>4, <1>5, <1>6, <1>7 DEF Keeps, Kept1

LEMMA RememberStep ==
  ASSUME IInv, NEW id \in Ids, phase = "up", Remember(id)
  PROVE  Keeps(id)
  <1>1. /\ Typed /\ op[id] # None /\ op[id].at = "observe" /\ JobOK(id, op[id])
        /\ id \notin Uploads /\ ~At(id, "observing")
    BY Job1 DEF IInv, Remember, At, JobOK, Moving, Leasing
  <1>2. /\ op' \in [Ids -> Job \cup {None}]
        /\ op'[id] = [at |-> "observing", exp |-> op[id].exp, size |-> op[id].size]
        /\ op'[id] # None
        /\ \A i \in Ids : i # id => op'[i] = op[i]
    <2>1. "observing" \in Stages /\ Goto(id, "observing")
      BY DEF Stages, Remember
    <2>. QED
      BY <1>1, <2>1, Goes
  <1>3. PICK rec \in Record : recs' = [recs EXCEPT ![id] = rec]
    <2>1. PICK e \in Nat : e = now + Lifetime
      BY <1>1, Values DEF Typed
    <2>2. [exp |-> e, size |-> 0] \in Record
      BY DEF Record
    <2>. QED
      BY <2>1, <2>2 DEF Remember
  <1>4. /\ recs' \in [Ids -> Record \cup {None}] /\ recs'[id] # None
        /\ \A i \in Ids : i # id => recs'[i] = recs[i]
    BY <1>1, <1>3, Values DEF Typed
  <1>5. told[id] # None => Expired(told[id])
    BY DEF IInv, IdInv, RecordOK, PromiseOK, Remember
  <1>6. /\ told' \in [Ids -> Promise \cup {None}] /\ told'[id] = None
        /\ \A i \in Ids : i # id => told'[i] = told[i]
    <2>1. told' = [told EXCEPT ![id] = None]
      BY <1>5 DEF Remember, Kept
    <2>. QED
      BY <1>1, <2>1 DEF Typed
  <1>7. /\ UNCHANGED <<files, index, leases, reader, sweep, due, phase, enabled, now>>
        /\ lock = None /\ lock' = id
    BY DEF Remember, diskVars, sweepVars, envVars, Free, Lock
  <1>8. JobOK(id, op[id])'
    BY <1>1, <1>2, <1>4, <1>6, <1>7
       DEF JobOK, Observing, Moving, Leasing, Early, Locking, Filled, Expired
  <1>9. LeaseOK(id)' /\ (Leased(id)' <=> Leased(id))
    <2>1. Leased(id)' <=> Leased(id)
      BY <1>1, <1>2 DEF Leased, Leasing
    <2>. QED
      BY <1>7, <2>1, SameLease
  <1>10. RecordOK(id)' /\ Whole(id)'
    BY <1>2, <1>6 DEF RecordOK, SameOK, SavedOK, PromiseOK, Whole, At
  <1>11. Typed'
    BY <1>1, <1>2, <1>4, <1>6, <1>7 DEF Typed
  <1>12. Local(id)
    BY <1>2, <1>4, <1>6, <1>7 DEF Local
  <1>. QED
    BY <1>8, <1>9, <1>10, <1>11, <1>12 DEF Keeps, Kept1

\* What is recognized is in the index, and may be promised.
LEMMA RecognizeStep ==
  ASSUME IInv, NEW id \in Ids, phase = "up", Recognize(id)
  PROVE  Keeps(id)
  <1>1. /\ Typed /\ op[id] # None /\ op[id].at = "observe" /\ JobOK(id, op[id])
        /\ id \notin Uploads /\ id \in Attachments /\ ~At(id, "observing")
    BY Job1, Values DEF IInv, Recognize, At, JobOK, Moving, Leasing
  <1>2. /\ op' \in [Ids -> Job \cup {None}]
        /\ op'[id] = None
        /\ \A i \in Ids : i # id => op'[i] = op[i]
    BY <1>1, Ends DEF Recognize
  <1>3. /\ UNCHANGED <<files, index, recs, leases, reader, sweep, due, phase, enabled, now>>
        /\ lock = None /\ lock' = None
    BY DEF Recognize, diskVars, storeVars, sweepVars, envVars, Free
  <1>4. LeaseOK(id)' /\ (Leased(id)' <=> Leased(id))
    <2>1. Leased(id)' <=> Leased(id)
      BY <1>1, <1>2 DEF Leased, Leasing
    <2>. QED
      BY <1>3, <2>1, SameLease
  <1>5. RecordOK(id)
    BY DEF IInv, IdInv
  <1>6. /\ told' \in [Ids -> Promise \cup {None}]
        /\ \A i \in Ids : i # id => told'[i] = told[i]
        /\ RecordOK(id)' /\ (Whole(id) => Whole(id)')
    <2>1. CASE told' = told
      BY <1>1, <1>2, <1>3, <1>5, <2>1, SameRecord DEF Typed
    <2>2. CASE told' # told
      <3>1. recs[id] # None /\ told' = [told EXCEPT ![id] = [exp |-> recs[id].exp, file |-> FALSE]]
        BY <2>2 DEF Recognize
      <3>2. PICK e \in Nat : e = recs[id].exp
        BY <1>1, <3>1 DEF Typed, Record
      <3>3. [exp |-> e, file |-> FALSE] \in Promise /\ told \in [Ids -> Promise \cup {None}]
        BY <1>1 DEF Promise, Typed
      <3>4. /\ told' \in [Ids -> Promise \cup {None}]
            /\ told'[id] = [exp |-> e, file |-> FALSE]
            /\ \A i \in Ids : i # id => told'[i] = told[i]
        BY <3>1, <3>2, <3>3
      <3>5. told'[id].exp = e /\ ~told'[id].file
        BY <3>4
      <3>6. index[id] # None /\ index[id].exp = e
        BY <1>1, <1>5, <3>1, <3>2 DEF RecordOK, SavedOK
      <3>. QED
        BY <1>3, <3>1, <3>2, <3>4, <3>5, <3>6
           DEF RecordOK, SameOK, SavedOK, PromiseOK, Whole
    <2>. QED
      BY <2>1, <2>2
  <1>7. Typed'
    BY <1>1, <1>2, <1>3, <1>6 DEF Typed
  <1>8. Local(id)
    BY <1>2, <1>3, <1>6 DEF Local
  <1>. QED
    BY <1>2, <1>4, <1>6, <1>7, <1>8 DEF Keeps, Kept1

LEMMA RememberedStep ==
  ASSUME IInv, NEW id \in Ids, phase = "up", Remembered(id)
  PROVE  Keeps(id)
  <1>1. /\ Typed /\ op[id] # None /\ op[id].at = "observing" /\ JobOK(id, op[id])
        /\ id \notin Uploads /\ id \in Attachments
        /\ recs[id] # None /\ told[id] = None /\ lock = id
    BY Job1, Values DEF IInv, Remembered, At, JobOK, Moving, Leasing, Locking
  <1>2. /\ op' \in [Ids -> Job \cup {None}]
        /\ op'[id] = None
        /\ \A i \in Ids : i # id => op'[i] = op[i]
    BY <1>1, Ends DEF Remembered
  <1>3. /\ UNCHANGED <<files, leases, reader, sweep, due, phase, enabled, now>>
        /\ index' \in {index, recs} /\ lock' = None
    BY DEF Remembered, Persist, envVars, Unlock
  <1>4. LeaseOK(id)' /\ (Leased(id)' <=> Leased(id))
    <2>1. Leased(id)' <=> Leased(id)
      BY <1>1, <1>2 DEF Leased, Leasing
    <2>. QED
      BY <1>3, <2>1, SameLease
  <1>5. /\ told' \in [Ids -> Promise \cup {None}] /\ recs' \in [Ids -> Record \cup {None}]
        /\ \A i \in Ids : i # id => told'[i] = told[i] /\ recs'[i] = recs[i]
        /\ RecordOK(id)' /\ Whole(id)'
    <2>1. CASE /\ told' = [told EXCEPT ![id] = [exp |-> recs[id].exp, file |-> FALSE]]
               /\ recs' = recs /\ index' = recs
      <3>1. PICK e \in Nat : e = recs[id].exp
        BY <1>1 DEF Typed, Record
      <3>2. [exp |-> e, file |-> FALSE] \in Promise /\ told \in [Ids -> Promise \cup {None}]
        BY <1>1 DEF Promise, Typed
      <3>3. /\ told' \in [Ids -> Promise \cup {None}]
            /\ told'[id] = [exp |-> e, file |-> FALSE]
            /\ \A i \in Ids : i # id => told'[i] = told[i]
        BY <2>1, <3>1, <3>2
      <3>4. told'[id].exp = e /\ ~told'[id].file
        BY <3>3
      <3>. QED
        BY <1>1, <1>3, <2>1, <3>1, <3>3, <3>4
           DEF RecordOK, SameOK, SavedOK, PromiseOK, Whole, Typed
    <2>2. CASE told' = told /\ recs' = [recs EXCEPT ![id] = None]
      <3>1. told'[id] = None /\ recs'[id] = None
        BY <1>1, <2>2 DEF Typed
      <3>. QED
        BY <1>1, <2>2, <3>1 DEF RecordOK, SameOK, SavedOK, PromiseOK, Whole, Typed
    <2>. QED
      BY <2>1, <2>2 DEF Remembered, Persist
  <1>6. Typed'
    BY <1>1, <1>2, <1>3, <1>5 DEF Typed
  <1>7. Local(id)
    BY <1>1, <1>2, <1>3, <1>5 DEF Local
  <1>. QED
    BY <1>2, <1>4, <1>5, <1>6, <1>7 DEF Keeps, Kept1

\* Every step of one id keeps the invariant.
LEMMA JobsKeep ==
  ASSUME IInv, NEW id \in Ids,
         (id \in Attachments /\ Observe(id)) \/ Get(id) \/ Stage(id) \/ JobStep(id)
  PROVE  IInv'
  <1>1. phase = "up" /\ ~Removing
    BY Alone
  <1>2. Keeps(id)
    <2>1. CASE JobStep(id)
      BY <1>1, <2>1, RememberStep, RecognizeStep, RememberedStep, FetchBeginsStep,
         StageBeginsStep, RefusedStep, MovedStep, GiveUpStep, CreateStep, DroppedStep,
         CommitStep, SavedStep, NotSavedStep, UndoStep, UnlinkedStep, UndoneStep
         DEF JobStep
    <2>. QED
      BY <1>1, <2>1, ObserveStep, GetStep, StageStep
  <1>. QED
    BY <1>1, <1>2, LocalKeeps DEF Keeps

-----------------------------------------------------------------------------
(***************************************************************************)
(* Readers                                                                 *)
(***************************************************************************)

\* What is said of the jobs and records of ids does not depend on anything else.
LEMMA SameIds ==
  ASSUME IInv, UNCHANGED <<files, index, recs, lock, op, phase, told, now>>, NEW i \in Ids
  PROVE  /\ op'[i] # None => JobOK(i, op[i])'
         /\ RecordOK(i)'
         /\ Leased(i)' <=> Leased(i)
  <1>1. (op[i] # None => JobOK(i, op[i])) /\ RecordOK(i)
    BY DEF IInv, IdInv
  <1>2. op'[i] # None => JobOK(i, op[i])'
    BY <1>1 DEF JobOK, Expired
  <1>3. RecordOK(i)'
    BY <1>1 DEF RecordOK, SameOK, SavedOK, PromiseOK, Expired, At
  <1>. QED
    BY <1>2, <1>3 DEF Leased

LEMMA ReaderKeeps ==
  ASSUME IInv, phase = "up", ~Removing,
         UNCHANGED <<files, index, recs, lock, op, sweep, timer, due, phase, enabled, told,
                     now>>,
         leases' \in [Ids -> Nat], reader' \in [Readers -> Reading \cup {None}],
         \A i \in Ids : LeaseOK(i)',
         ReadInv'
  PROVE  IInv'
  <1>1. Typed'
    BY DEF IInv, Typed
  <1>2. StartInv' /\ LockInv' /\ RemoveInv'
    BY DEF IInv, StartInv, LockInv, RemoveInv, Removing
  <1>3. SweepInv'
    BY DEF IInv, SweepInv, Unlinks, Expired, Leased
  <1>4. IdInv'
    BY SameIds DEF IdInv
  <1>. QED
    BY <1>1, <1>2, <1>3, <1>4 DEF IInv

LEMMA OpenStep ==
  ASSUME IInv, NEW r \in Readers, NEW id \in Ids, Open(r, id)
  PROVE  IInv'
  <1>1. phase = "up" /\ ~Removing /\ Typed
    BY Up DEF IInv, RemoveInv, Open
  <1>2. /\ UNCHANGED <<files, index, recs, lock, op, sweep, timer, due, phase, enabled, told,
                       now>>
        /\ reader[r] = None /\ recs[id] # None /\ ~Expired(recs[id]) /\ recs[id].size > 0
    BY DEF Open, diskVars, sweepVars, envVars
  <1>3. PICK m \in Reading : m.id = id /\ m.at = "verify" /\ reader' = [reader EXCEPT ![r] = m]
    <2>1. [id |-> id, at |-> "verify"] \in Reading
      BY DEF Reading, ReaderStages
    <2>. QED
      BY <2>1 DEF Open
  <1>4. /\ reader' \in [Readers -> Reading \cup {None}] /\ reader'[r] = m /\ m # None
        /\ \A other \in Readers : other # r => reader'[other] = reader[other]
    BY <1>1, <1>3, Values DEF Typed
  <1>5. /\ leases' \in [Ids -> Nat] /\ leases'[id] = leases[id] + 1 /\ leases[id] \in Nat
        /\ \A i \in Ids : i # id => leases'[i] = leases[i]
    BY <1>1 DEF Open, Typed
  <1>6. \A i \in Ids : LeaseOK(i)'
    <2>. SUFFICES ASSUME NEW i \in Ids PROVE LeaseOK(i)'
      OBVIOUS
    <2>1. LeaseOK(i) /\ (Leased(i)' <=> Leased(i))
      BY <1>2, SameIds DEF IInv, IdInv
    <2>2. CASE i # id
      <3>1. Using(i)' = Using(i)
        BY <1>2, <1>3, <1>4, <2>2 DEF Using, Reads
      <3>. QED
        BY <1>5, <2>1, <2>2, <3>1 DEF LeaseOK
    <2>3. CASE i = id
      <3>1. Using(i)' = Using(i) \cup {r} /\ r \notin Using(i)
        BY <1>2, <1>3, <1>4, <2>3 DEF Using, Reads
      <3>2. Cardinality(Using(i)') = Cardinality(Using(i)) + 1 /\ Cardinality(Using(i)) \in Nat
        BY <3>1, Readings, FS_AddElement
      <3>. QED
        BY <1>5, <2>1, <2>3, <3>2 DEF LeaseOK
    <2>. QED
      BY <2>2, <2>3
  <1>7. ReadInv'
    <2>. SUFFICES ASSUME NEW s \in Readers, NEW i \in Ids, Reads(s, i)' PROVE Whole(i)'
      BY DEF ReadInv
    <2>1. Whole(i)
      <3>1. CASE s # r
        BY <1>4, <3>1 DEF Reads, IInv, ReadInv
      <3>2. CASE s = r
        <4>1. i = id
          BY <1>3, <1>4, <3>2 DEF Reads
        <4>2. SameOK(id) /\ PromiseOK(id)
          BY DEF IInv, IdInv, RecordOK
        <4>. QED
          BY <1>1, <1>2, <4>1, <4>2 DEF SameOK, PromiseOK, Whole, Expired
      <3>. QED
        BY <3>1, <3>2
    <2>. QED
      BY <1>2, <2>1 DEF Whole
  <1>. QED
    BY <1>1, <1>2, <1>4, <1>5, <1>6, <1>7, ReaderKeeps

\* A reader that is there stands at a file of an id.
LEMMA ReaderThere ==
  ASSUME IInv, NEW r \in Readers, reader[r] # None
  PROVE  /\ phase = "up" /\ ~Removing
         /\ reader[r].id \in Ids /\ reader[r].at \in ReaderStages
  <1>1. reader[r] \in Reading
    BY DEF IInv, Typed
  <1>. QED
    BY <1>1 DEF IInv, StartInv, RemoveInv, Drained, Reading

LEMMA VerifiedStep ==
  ASSUME IInv, NEW r \in Readers, Verified(r)
  PROVE  IInv'
  <1>1. phase = "up" /\ ~Removing /\ reader[r].id \in Ids /\ reader[r].at = "verify" /\ Typed
    BY ReaderThere DEF Verified, IInv
  <1>2. UNCHANGED <<files, index, recs, lock, op, sweep, timer, due, phase, enabled, told,
                    now, leases>>
    BY DEF Verified, diskVars, storeVars, sweepVars, envVars
  <1>3. PICK m \in Reading : m.id = reader[r].id /\ m.at = "open"
                               /\ reader' = [reader EXCEPT ![r] = m]
    <2>1. PICK i \in Ids, s \in ReaderStages : reader[r] = [id |-> i, at |-> s]
      BY <1>1 DEF Typed, Reading, Verified
    <2>2. [reader[r] EXCEPT !.at = "open"] = [id |-> i, at |-> "open"]
      BY <2>1
    <2>3. [id |-> i, at |-> "open"] \in Reading
      BY DEF Reading, ReaderStages
    <2>4. reader[r].id = i /\ reader' = [reader EXCEPT ![r] = [id |-> i, at |-> "open"]]
      BY <2>1, <2>2 DEF Verified
    <2>. QED
      BY <2>3, <2>4
  <1>4. /\ reader' \in [Readers -> Reading \cup {None}] /\ reader'[r] = m /\ m # None
        /\ \A other \in Readers : other # r => reader'[other] = reader[other]
    BY <1>1, <1>3, Values DEF Typed
  <1>5. \A i \in Ids, s \in Readers : Reads(s, i)' <=> Reads(s, i)
    BY <1>1, <1>3, <1>4 DEF Reads, Verified
  <1>6. \A i \in Ids : LeaseOK(i)'
    <2>. SUFFICES ASSUME NEW i \in Ids PROVE LeaseOK(i)'
      OBVIOUS
    <2>1. LeaseOK(i) /\ (Leased(i)' <=> Leased(i))
      BY <1>2, SameIds DEF IInv, IdInv
    <2>2. Using(i)' = Using(i)
      BY <1>5 DEF Using
    <2>. QED
      BY <1>2, <2>1, <2>2 DEF LeaseOK
  <1>7. ReadInv'
    BY <1>2, <1>5 DEF IInv, ReadInv, Whole
  <1>8. leases' \in [Ids -> Nat]
    BY <1>1, <1>2 DEF Typed
  <1>. QED
    BY <1>1, <1>2, <1>4, <1>6, <1>7, <1>8, ReaderKeeps

LEMMA CloseStep ==
  ASSUME IInv, NEW r \in Readers, Close(r)
  PROVE  IInv'
  <1>1. /\ phase = "up" /\ ~Removing /\ reader[r] # None /\ reader[r].id \in Ids
        /\ reader[r].at \in {"verify", "open"} /\ Typed
    BY ReaderThere DEF Close, IInv
  <1>2. PICK id \in Ids : id = reader[r].id
    BY <1>1
  <1>3. UNCHANGED <<files, index, recs, lock, op, sweep, timer, due, phase, enabled, told,
                    now>>
    BY DEF Close, diskVars, sweepVars, envVars
  <1>4. PICK m \in Reading \cup {None} : /\ m # None => m.at = "expired"
                                         /\ reader' = [reader EXCEPT ![r] = m]
    <2>1. [id |-> id, at |-> "expired"] \in Reading
      BY DEF Reading, ReaderStages
    <2>. QED
      BY <1>2, <2>1 DEF Close
  <1>5. /\ reader' \in [Readers -> Reading \cup {None}] /\ reader'[r] = m
        /\ \A other \in Readers : other # r => reader'[other] = reader[other]
    BY <1>1, <1>4 DEF Typed
  <1>6. \A i \in Ids, s \in Readers :
          Reads(s, i)' <=> (Reads(s, i) /\ s # r)
    BY <1>4, <1>5 DEF Reads
  <1>7. \A i \in Ids : Reads(r, i) <=> i = id
    BY <1>1, <1>2 DEF Reads
  <1>8. Cardinality(Using(id)) \in Nat /\ Cardinality(Using(id)') = Cardinality(Using(id)) - 1
    <2>1. Using(id)' = Using(id) \ {r} /\ r \in Using(id)
      BY <1>6, <1>7 DEF Using
    <2>. QED
      BY <2>1, Readings, FS_RemoveElement
  <1>9. /\ leases[id] = Cardinality(Using(id)) + (IF Leased(id) THEN 1 ELSE 0)
        /\ leases' = [leases EXCEPT ![id] = leases[id] - 1]
        /\ leases \in [Ids -> Nat]
    BY <1>1, <1>2 DEF IInv, IdInv, LeaseOK, Close, Typed
  <1>10. r \in Using(id) /\ Cardinality(Using(id)) # 0
    <2>1. r \in Using(id)
      BY <1>7 DEF Using
    <2>. QED
      BY <2>1, Readings, FS_EmptySet
  <1>11. /\ leases' \in [Ids -> Nat]
         /\ leases'[id] = Cardinality(Using(id)) - 1 + (IF Leased(id) THEN 1 ELSE 0)
         /\ \A i \in Ids : i # id => leases'[i] = leases[i]
    BY <1>8, <1>9, <1>10
  <1>12. \A i \in Ids : LeaseOK(i)'
    <2>. SUFFICES ASSUME NEW i \in Ids PROVE LeaseOK(i)'
      OBVIOUS
    <2>1. LeaseOK(i) /\ (Leased(i)' <=> Leased(i))
      BY <1>3, SameIds DEF IInv, IdInv
    <2>2. CASE i # id
      <3>1. Using(i)' = Using(i)
        BY <1>6, <1>7, <2>2 DEF Using
      <3>. QED
        BY <1>11, <2>1, <2>2, <3>1 DEF LeaseOK
    <2>3. CASE i = id
      BY <1>8, <1>11, <2>1, <2>3 DEF LeaseOK
    <2>. QED
      BY <2>2, <2>3
  <1>13. ReadInv'
    BY <1>3, <1>6 DEF IInv, ReadInv, Whole
  <1>. QED
    BY <1>1, <1>3, <1>5, <1>11, <1>12, <1>13, ReaderKeeps

-----------------------------------------------------------------------------
(***************************************************************************)
(* Cleanups and removals                                                   *)
(***************************************************************************)

\* While somebody else has the lock, no job is at a stage that has it.
LEMMA Elsewhere ==
  ASSUME IInv, NEW i \in Ids, op[i] # None, lock \notin Ids
  PROVE  op[i].at \notin Locking
  BY Job1 DEF JobOK

\* A loop goes on in a store that is up, with the lock.
LEMMA LoopThere ==
  ASSUME IInv, sweep # None
  PROVE  /\ phase = "up" /\ lock = "sweep" /\ lock \notin Ids
         /\ sweep \in Loop /\ sweep.todo \subseteq Ids /\ sweep.file \in Ids \cup {None}
         /\ sweep.kind \in Kinds
  BY Values DEF IInv, StartInv, LockInv, Typed, Loop

LEMMA BeginSweepStep ==
  ASSUME IInv, NEW x \in Ids \cup Readers \cup {"timer"}, BeginSweep(x)
  PROVE  IInv'
  <1>1. Typed /\ lock = None /\ lock' = "sweep" /\ sweep = None /\ lock \notin Ids
    BY Values DEF IInv, LockInv, BeginSweep, Free, Lock
  <1>2. UNCHANGED <<files, index, recs, leases, timer, phase, enabled, told, now>>
    BY DEF BeginSweep, diskVars, envVars
  <1>3. phase = "up"
    BY DEF IInv, StartInv, BeginSweep, At
  <1>4. /\ sweep' = [kind |-> "clean", todo |-> Held(recs), file |-> None,
                     writing |-> FALSE, since |-> now]
        /\ Held(recs) \in SUBSET Ids /\ now \in Nat
    BY <1>1 DEF BeginSweep, NewLoop, Typed, Held
  <1>5. sweep' \in Loop /\ sweep'.kind = "clean" /\ sweep'.file = None
    BY <1>4 DEF Loop, Kinds
  <1>6. /\ op' \in [Ids -> Job \cup {None}]
        /\ \A i \in Ids : \/ op'[i] = op[i]
                          \/ op[i] # None /\ op[i].at = "expired" /\ op'[i] = None
    BY <1>1, Ends DEF BeginSweep, Typed, taskVars, At, End
  <1>7. /\ reader' \in [Readers -> Reading \cup {None}]
        /\ \A r \in Readers : \/ reader'[r] = reader[r]
                              \/ reader[r] # None /\ reader[r].at = "expired" /\ reader'[r] = None
    BY <1>1 DEF BeginSweep, Typed, taskVars
  <1>8. Typed'
    BY <1>1, <1>2, <1>5, <1>6, <1>7 DEF Typed
  <1>9. StartInv' /\ LockInv' /\ RemoveInv'
    BY <1>1, <1>2, <1>3, <1>5 DEF StartInv, LockInv, RemoveInv, Removing
  <1>10. SweepInv'
    BY <1>5, Values DEF SweepInv, Unlinks
  <1>11. \A r \in Readers, i \in Ids : Reads(r, i)' <=> Reads(r, i)
    BY <1>7 DEF Reads
  <1>12. ReadInv'
    BY <1>2, <1>11 DEF IInv, ReadInv, Whole
  <1>13. IdInv'
    <2>. SUFFICES ASSUME NEW i \in Ids
                  PROVE  (op[i] # None => JobOK(i, op[i]))' /\ LeaseOK(i)' /\ RecordOK(i)'
      BY DEF IdInv
    <2>1. (op[i] # None => JobOK(i, op[i])) /\ LeaseOK(i) /\ RecordOK(i)
      BY DEF IInv, IdInv
    <2>2. op[i] # None => op[i].at \notin Locking
      BY <1>1, Elsewhere
    <2>3. op'[i] # None => JobOK(i, op[i])'
      BY <1>2, <1>6, <2>1, <2>2 DEF JobOK, Expired
    <2>4. LeaseOK(i)'
      <3>1. Using(i)' = Using(i)
        BY <1>11 DEF Using
      <3>2. Leased(i)' <=> Leased(i)
        BY <1>6 DEF Leased, Leasing
      <3>. QED
        BY <1>2, <2>1, <3>1, <3>2 DEF LeaseOK
    <2>5. RecordOK(i)'
      <3>1. At(i, "observing")' <=> At(i, "observing")
        BY <1>6 DEF At
      <3>. QED
        BY <1>2, <2>1, <3>1 DEF RecordOK, SameOK, SavedOK, PromiseOK, Expired
    <2>. QED
      BY <2>3, <2>4, <2>5
  <1>. QED
    BY <1>8, <1>9, <1>10, <1>12, <1>13 DEF IInv

\* What a step of the loop may do to the record and the file of i.
Cleans(i) ==
  /\ \/ recs'[i] = recs[i]
     \/ recs'[i] = None /\ (Removing \/ Swept(i))
     \/ recs'[i] # None /\ recs'[i].exp = recs[i].exp /\ Swept(i)
  /\ files'[i] = files[i] \/ Removing \/ Unlinks(i)

\* A record that is swept is nobody's.
LEMMA SweptFree ==
  ASSUME IInv, NEW i \in Ids, Swept(i)
  PROVE  ~Leased(i) /\ \A r \in Readers : ~Reads(r, i)
  <1>1. Cardinality(Using(i)) + (IF Leased(i) THEN 1 ELSE 0) = 0
    BY DEF Swept, IInv, IdInv, LeaseOK
  <1>2. Cardinality(Using(i)) = 0 /\ ~Leased(i)
    BY <1>1, Readings
  <1>3. Using(i) = {}
    BY <1>2, Readings, FS_EmptySet
  <1>. QED
    BY <1>2, <1>3 DEF Using

LEMMA LoopKeeps ==
  ASSUME IInv, Typed', sweep # None, sweep' # None, sweep'.kind = sweep.kind,
         UNCHANGED <<index, leases, lock, op, reader, timer, due, phase, enabled, told, now>>,
         \A i \in Ids : Cleans(i),
         SweepInv'
  PROVE  IInv'
  <1>1. phase = "up" /\ lock = "sweep" /\ lock \notin Ids
    BY LoopThere
  <1>2. StartInv' /\ LockInv'
    BY <1>1 DEF StartInv, LockInv
  <1>3. RemoveInv' /\ (Removing' <=> Removing)
    BY DEF IInv, RemoveInv, Removing, Drained
  <1>4. ReadInv'
    <2>. SUFFICES ASSUME NEW r \in Readers, NEW i \in Ids, Reads(r, i) PROVE Whole(i)'
      BY DEF ReadInv, Reads
    <2>1. ~Removing /\ Whole(i) /\ recs'[i] = recs[i]
      BY SweptFree DEF IInv, RemoveInv, Drained, Reads, ReadInv, Cleans
    <2>2. Unlinks(i) => recs[i].size = 0
      BY DEF IInv, SweepInv
    <2>3. files[i] \in Nat
      BY DEF IInv, Typed
    <2>. QED
      BY <2>1, <2>2, <2>3 DEF Whole, Cleans
  <1>5. IdInv'
    <2>. SUFFICES ASSUME NEW i \in Ids
                  PROVE  (op[i] # None => JobOK(i, op[i]))' /\ LeaseOK(i)' /\ RecordOK(i)'
      BY DEF IdInv
    <2>1. (op[i] # None => JobOK(i, op[i])) /\ LeaseOK(i) /\ RecordOK(i) /\ Cleans(i)
      BY DEF IInv, IdInv
    <2>2. LeaseOK(i)'
      <3>1. Using(i)' = Using(i) /\ (Leased(i)' <=> Leased(i))
        BY DEF Using, Reads, Leased
      <3>. QED
        BY <2>1, <3>1 DEF LeaseOK
    <2>3. op[i] # None => op[i].at \notin Locking
      BY <1>1, Elsewhere
    <2>4. CASE Removing
      <3>1. told[i] = None /\ (op[i] # None => op[i].at = "observe")
        BY <2>3, <2>4 DEF IInv, RemoveInv, Drained, Locking
      <3>2. op'[i] # None => JobOK(i, op[i])'
        BY <2>1, <3>1, <2>3
           DEF JobOK, Expired, Moving, Early, Leasing, Filled, Locking, Observing
      <3>3. recs'[i] # None => recs[i] # None /\ recs'[i].exp = recs[i].exp
        BY <2>1 DEF Cleans, Swept
      <3>4. RecordOK(i)'
        BY <2>1, <3>1, <3>3 DEF RecordOK, SameOK, SavedOK, PromiseOK, At
      <3>. QED
        BY <2>2, <3>2, <3>4
    <2>5. CASE ~Removing
      <3>1. recs'[i] # recs[i] => Swept(i) /\ ~Leased(i) /\ recs[i] # None /\ Expired(recs[i])
        BY <2>1, <2>5, SweptFree DEF Cleans, Swept
      <3>2. recs'[i] # None => recs[i] # None /\ recs'[i].exp = recs[i].exp
        BY <2>1, <2>5 DEF Cleans, Swept
      <3>3. files'[i] # files[i] => /\ recs[i] # None /\ recs[i].size = 0
                                    /\ Expired(recs[i]) /\ ~Leased(i)
        BY <2>1, <2>5 DEF Cleans, IInv, SweepInv
      <3>4. op'[i] # None => JobOK(i, op[i])'
        <4>. SUFFICES ASSUME op[i] # None PROVE JobOK(i, op[i])'
          OBVIOUS
        <4>1. JobOK(i, op[i]) /\ op' = op /\ told' = told /\ lock' = lock /\ now' = now
                /\ op[i].at \notin Locking
          BY <2>1, <2>3
        <4>2. op[i].at \in Filled => files'[i] = files[i]
          BY <3>3, <4>1, Values DEF JobOK, Leased, Filled, Leasing, Early, Locking
        <4>. QED
          BY <3>1, <3>2, <4>1, <4>2, Values
             DEF JobOK, Leased, Expired, Locking
      <3>5. SameOK(i)' /\ SavedOK(i)'
        BY <2>1, <3>2 DEF RecordOK, SameOK, SavedOK, At
      <3>6. PromiseOK(i)'
        <4>. SUFFICES ASSUME told[i] # None, ~Expired(told[i])
                      PROVE  PromiseOK(i)'
          BY DEF PromiseOK, Expired
        <4>1. recs[i] # None => ~Expired(recs[i])
          BY <2>1 DEF RecordOK, SameOK, Expired
        <4>. QED
          BY <2>1, <3>1, <3>3, <4>1 DEF RecordOK, PromiseOK, Expired
      <3>. QED
        BY <2>2, <3>4, <3>5, <3>6 DEF RecordOK
    <2>. QED
      BY <2>4, <2>5
  <1>. QED
    BY <1>2, <1>3, <1>4, <1>5 DEF IInv

LEMMA VisitedValue ==
  ASSUME IInv, sweep # None, NEW set \in SUBSET Ids
  PROVE  /\ Visited(set) \in [Ids -> Record \cup {None}]
         /\ \A i \in Ids : \/ Visited(set)[i] = recs[i]
                           \/ Visited(set)[i] = None /\ i \in set /\ (Removing \/ Swept(i))
  <1>1. recs \in [Ids -> Record \cup {None}]
    BY DEF IInv, Typed
  <1>2. sweep.kind = "remove" => Removing
    BY DEF Removing
  <1>. QED
    BY <1>1, <1>2 DEF Visited

\* A loop with another file, fewer records to visit, or about to write.
LEMMA LoopTyped ==
  ASSUME IInv, sweep # None,
         NEW t \in SUBSET Ids, NEW f \in Ids \cup {None}, NEW w \in BOOLEAN,
         sweep' = [kind |-> sweep.kind, todo |-> t, file |-> f, writing |-> w,
                   since |-> sweep.since]
  PROVE  /\ sweep' \in Loop /\ sweep' # None
         /\ sweep'.kind = sweep.kind /\ sweep'.file = f
  <1>1. PICK k \in Kinds, s \in Nat : k = sweep.kind /\ s = sweep.since
    BY LoopThere DEF Loop
  <1>2. sweep' \in Loop
    BY <1>1 DEF Loop
  <1>. QED
    BY <1>2, Values

LEMMA VisitFileStep ==
  ASSUME IInv, NEW id \in Ids, VisitFile(id)
  PROVE  IInv'
  <1>1. /\ Typed /\ sweep # None /\ sweep.todo \subseteq Ids /\ sweep \in Loop
        /\ sweep.kind \in Kinds
    BY LoopThere DEF VisitFile, IInv
  <1>2. UNCHANGED <<files, index, leases, lock, op, reader, timer, due, phase, enabled, told,
                    now>>
    BY DEF VisitFile, diskVars, taskVars, envVars
  <1>3. PICK before \in SUBSET (sweep.todo \ {id}) :
          /\ recs' = IF sweep.kind = "remove" THEN Visited(before)
                     ELSE [Visited(before) EXCEPT ![id].size = 0]
          /\ sweep' = [sweep EXCEPT !.todo = @ \ (before \cup {id}), !.file = id]
    BY DEF VisitFile
  <1>4. PICK t \in SUBSET Ids : t = sweep.todo \ (before \cup {id})
    BY <1>1
  <1>5. sweep' = [kind |-> sweep.kind, todo |-> t, file |-> id,
                  writing |-> sweep.writing, since |-> sweep.since]
    BY <1>1, <1>3, <1>4 DEF Loop
  <1>6. /\ sweep' \in Loop /\ sweep' # None
        /\ sweep'.kind = sweep.kind /\ sweep'.file = id
    <2>1. sweep.writing \in BOOLEAN
      BY <1>1 DEF Loop
    <2>. QED
      BY <1>1, <1>5, <2>1, LoopTyped
  <1>7. /\ Visited(before) \in [Ids -> Record \cup {None}]
        /\ \A i \in Ids : \/ Visited(before)[i] = recs[i]
                          \/ /\ Visited(before)[i] = None /\ i \in before
                             /\ Removing \/ Swept(i)
        /\ id \notin before /\ before \in SUBSET Ids
    BY <1>1, <1>3, VisitedValue
  <1>8. CASE Removing
    <2>1. sweep.kind = "remove"
      BY <1>1, <1>8 DEF Removing, Kinds
    <2>2. recs' = Visited(before)
      BY <1>3, <2>1
    <2>3. \A i \in Ids : Cleans(i)
      BY <1>2, <1>7, <1>8, <2>2 DEF Cleans
    <2>4. SweepInv'
      BY <1>6, <2>1 DEF SweepInv, Unlinks
    <2>5. Typed'
      BY <1>1, <1>2, <1>6, <1>7, <2>2 DEF Typed
    <2>. QED
      BY <1>1, <1>2, <1>6, <2>3, <2>4, <2>5, LoopKeeps
  <1>9. CASE ~Removing
    <2>1. sweep.kind = "clean"
      BY <1>9, <1>1 DEF Removing
    <2>2. Swept(id) /\ recs[id] # None
      BY <2>1 DEF VisitFile, Awaits, Swept
    <2>3. PICK e \in Nat, z \in Nat : recs[id] = [exp |-> e, size |-> z]
      BY <1>1, <2>2 DEF Typed, Record
    <2>4. Visited(before)[id] = [exp |-> e, size |-> z]
      BY <1>7, <2>3
    <2>5. PICK rec \in Record : rec = [exp |-> e, size |-> 0]
      BY DEF Record
    <2>6. recs' = [Visited(before) EXCEPT ![id] = rec]
      <3>1. recs' = [Visited(before) EXCEPT ![id] = [Visited(before)[id] EXCEPT !.size = 0]]
        BY <1>3, <2>1
      <3>2. [Visited(before)[id] EXCEPT !.size = 0] = [exp |-> e, size |-> 0]
        BY <2>4
      <3>. QED
        BY <2>5, <3>1, <3>2
    <2>7. /\ recs' \in [Ids -> Record \cup {None}] /\ recs'[id] = rec
          /\ \A i \in Ids : i # id => recs'[i] = Visited(before)[i]
      BY <1>7, <2>6
    <2>8. rec # None /\ rec.exp = recs[id].exp /\ rec.size = 0
      BY <2>3, <2>5, Values
    <2>9. \A i \in Ids : Cleans(i)
      BY <1>2, <1>7, <2>2, <2>7, <2>8 DEF Cleans
    <2>10. SweepInv'
      BY <1>2, <1>6, <2>2, <2>7, <2>8, SweptFree
         DEF SweepInv, Unlinks, Expired, Swept, Leased
    <2>11. Typed'
      BY <1>1, <1>2, <1>6, <2>7 DEF Typed
    <2>. QED
      BY <1>1, <1>2, <1>6, <2>9, <2>10, <2>11, LoopKeeps
  <1>. QED
    BY <1>8, <1>9

LEMMA UnlinkFileStep ==
  ASSUME IInv, UnlinkFile
  PROVE  IInv'
  <1>1. /\ Typed /\ sweep # None /\ sweep \in Loop /\ sweep.file \in Ids
        /\ sweep.kind \in Kinds
    BY LoopThere DEF UnlinkFile, IInv
  <1>2. UNCHANGED <<index, leases, lock, op, reader, timer, due, phase, enabled, told, now>>
    BY DEF UnlinkFile, taskVars, envVars
  <1>3. PICK f \in Ids : f = sweep.file
    BY <1>1
  <1>4. files' = [files EXCEPT ![f] = 0] /\ recs' = Visited({f})
          /\ sweep' = [sweep EXCEPT !.file = None]
    BY <1>3 DEF UnlinkFile
  <1>5. /\ sweep' \in Loop /\ sweep' # None
        /\ sweep'.kind = sweep.kind /\ sweep'.file = None
    <2>1. sweep.writing \in BOOLEAN /\ sweep.todo \in SUBSET Ids
      BY <1>1 DEF Loop
    <2>2. sweep' = [kind |-> sweep.kind, todo |-> sweep.todo, file |-> None,
                    writing |-> sweep.writing, since |-> sweep.since]
      BY <1>1, <1>4 DEF Loop
    <2>. QED
      BY <1>1, <2>1, <2>2, LoopTyped
  <1>6. /\ recs' \in [Ids -> Record \cup {None}]
        /\ \A i \in Ids : recs'[i] = recs[i] \/ (recs'[i] = None /\ (Removing \/ Swept(i)))
    <2>1. {f} \in SUBSET Ids
      OBVIOUS
    <2>. QED
      BY <1>1, <1>4, <2>1, VisitedValue
  <1>7. files' \in [Ids -> Nat] /\ \A i \in Ids : i # f => files'[i] = files[i]
    BY <1>1, <1>4 DEF Typed
  <1>8. Removing \/ Unlinks(f)
    BY <1>1, <1>3 DEF Removing, Unlinks
  <1>9. \A i \in Ids : Cleans(i)
    BY <1>6, <1>7, <1>8 DEF Cleans
  <1>10. SweepInv'
    BY <1>5, Values DEF SweepInv, Unlinks
  <1>11. Typed'
    BY <1>1, <1>2, <1>5, <1>6, <1>7 DEF Typed
  <1>. QED
    BY <1>1, <1>2, <1>5, <1>9, <1>10, <1>11, LoopKeeps

LEMMA VisitRestStep ==
  ASSUME IInv, VisitRest
  PROVE  IInv'
  <1>1. /\ Typed /\ sweep # None /\ sweep \in Loop /\ sweep.todo \in SUBSET Ids
        /\ sweep.file = None
    BY LoopThere DEF VisitRest, IInv
  <1>2. UNCHANGED <<files, index, leases, lock, op, reader, timer, due, phase, enabled, told,
                    now>>
    BY DEF VisitRest, diskVars, taskVars, envVars
  <1>3. recs' = Visited(sweep.todo) /\ sweep' = [sweep EXCEPT !.todo = {}, !.writing = TRUE]
    BY DEF VisitRest
  <1>4. /\ sweep' \in Loop /\ sweep' # None
        /\ sweep'.kind = sweep.kind /\ sweep'.file = None
    <2>1. sweep' = [kind |-> sweep.kind, todo |-> {}, file |-> None,
                    writing |-> TRUE, since |-> sweep.since]
      BY <1>1, <1>3 DEF Loop
    <2>2. {} \in SUBSET Ids /\ None \in Ids \cup {None} /\ TRUE \in BOOLEAN
      OBVIOUS
    <2>. QED
      BY <1>1, <2>1, <2>2, LoopTyped
  <1>5. /\ recs' \in [Ids -> Record \cup {None}]
        /\ \A i \in Ids : recs'[i] = recs[i] \/ (recs'[i] = None /\ (Removing \/ Swept(i)))
    BY <1>1, <1>3, VisitedValue
  <1>6. \A i \in Ids : Cleans(i)
    BY <1>2, <1>5 DEF Cleans
  <1>7. SweepInv'
    BY <1>4, Values DEF SweepInv, Unlinks
  <1>8. Typed'
    BY <1>1, <1>2, <1>4, <1>5 DEF Typed
  <1>. QED
    BY <1>1, <1>2, <1>4, <1>6, <1>7, <1>8, LoopKeeps

LEMMA EndSweepStep ==
  ASSUME IInv, EndSweep
  PROVE  IInv'
  <1>1. Typed /\ sweep # None /\ phase = "up" /\ lock \notin Ids
    BY LoopThere DEF EndSweep, IInv
  <1>2. /\ UNCHANGED <<files, recs, leases, op, reader, due, phase, enabled, told, now>>
        /\ index' \in {index, recs} /\ sweep' = None /\ lock' = None
    BY DEF EndSweep, Persist, taskVars, envVars, Unlock
  <1>3. Typed'
    BY <1>1, <1>2 DEF Typed
  <1>4. StartInv' /\ LockInv' /\ RemoveInv' /\ SweepInv'
    BY <1>1, <1>2 DEF StartInv, LockInv, RemoveInv, Removing, SweepInv, Unlinks
  <1>5. ReadInv'
    BY <1>2 DEF IInv, ReadInv, Reads, Whole
  <1>6. IdInv'
    <2>. SUFFICES ASSUME NEW i \in Ids
                  PROVE  (op[i] # None => JobOK(i, op[i]))' /\ LeaseOK(i)' /\ RecordOK(i)'
      BY DEF IdInv
    <2>1. (op[i] # None => JobOK(i, op[i])) /\ LeaseOK(i) /\ RecordOK(i)
      BY DEF IInv, IdInv
    <2>2. op[i] # None => op[i].at \notin Locking
      BY <1>1, Elsewhere
    <2>3. op'[i] # None => JobOK(i, op[i])'
      BY <1>2, <2>1, <2>2 DEF JobOK, Expired
    <2>4. LeaseOK(i)'
      BY <1>2, <2>1 DEF LeaseOK, Using, Reads, Leased
    <2>5. index'[i] \in {index[i], recs[i]}
      BY <1>2
    <2>6. RecordOK(i)'
      BY <1>1, <1>2, <2>1, <2>5 DEF RecordOK, SameOK, SavedOK, PromiseOK, Expired, At
    <2>. QED
      BY <2>3, <2>4, <2>6
  <1>. QED
    BY <1>3, <1>4, <1>5, <1>6 DEF IInv

-----------------------------------------------------------------------------
(***************************************************************************)
(* Start, stop, removal, crash, the clock                                  *)
(***************************************************************************)

\* Steps that only turn the manager on or off.
LEMMA SwitchStep ==
  ASSUME IInv, Start \/ Stop
  PROVE  IInv'
  <1>1. /\ UNCHANGED <<files, index, recs, leases, lock, op, reader, sweep, timer, due, phase,
                       told, now>>
        /\ enabled' \in BOOLEAN
        /\ enabled' => phase = "up" /\ ~Removing
    BY DEF Start, Stop, diskVars, storeVars, taskVars, sweepVars, envVars, Removing
  <1>2. Typed'
    BY <1>1 DEF IInv, Typed
  <1>3. StartInv' /\ LockInv' /\ RemoveInv'
    BY <1>1 DEF IInv, StartInv, LockInv, RemoveInv, Removing, Drained
  <1>4. SweepInv' /\ ReadInv'
    BY <1>1 DEF IInv, SweepInv, Unlinks, Expired, Leased, ReadInv, Reads, Whole
  <1>5. IdInv'
    <2>. SUFFICES ASSUME NEW i \in Ids
                  PROVE  (op[i] # None => JobOK(i, op[i]))' /\ LeaseOK(i)' /\ RecordOK(i)'
      BY DEF IdInv
    <2>1. LeaseOK(i)
      BY DEF IInv, IdInv
    <2>2. Using(i)' = Using(i)
      BY <1>1 DEF Using, Reads
    <2>. QED
      BY <1>1, <2>1, <2>2, SameIds DEF LeaseOK
  <1>. QED
    BY <1>2, <1>3, <1>4, <1>5 DEF IInv

LEMMA RemoveStep ==
  ASSUME IInv, Remove
  PROVE  IInv'
  <1>1. Typed /\ phase = "up" /\ ~enabled /\ Drained /\ lock = None /\ lock' = "sweep"
          /\ lock \notin Ids /\ sweep = None
    BY Values DEF Remove, IInv, LockInv, Free, Lock
  <1>2. /\ UNCHANGED <<files, index, recs, leases, op, reader, timer, due, phase, enabled, now>>
        /\ told' = [id \in Ids |-> None]
    BY DEF Remove, diskVars, taskVars, envVars
  <1>3. sweep' \in Loop /\ sweep' # None /\ sweep'.kind = "remove" /\ sweep'.file = None
    <2>1. sweep' = [kind |-> "remove", todo |-> Held(recs), file |-> None,
                    writing |-> FALSE, since |-> now]
      BY DEF Remove, NewLoop
    <2>2. Held(recs) \in SUBSET Ids /\ now \in Nat
      BY <1>1 DEF Held, Typed
    <2>3. sweep' \in Loop
      BY <2>1, <2>2 DEF Loop, Kinds
    <2>. QED
      BY <2>1, <2>3, Values
  <1>4. Typed'
    BY <1>1, <1>2, <1>3 DEF Typed
  <1>5. StartInv' /\ LockInv' /\ RemoveInv'
    BY <1>1, <1>2, <1>3 DEF StartInv, LockInv, RemoveInv, Removing, Drained
  <1>6. SweepInv' /\ ReadInv'
    BY <1>2, <1>3 DEF SweepInv, Unlinks, ReadInv, Whole
  <1>7. IdInv'
    <2>. SUFFICES ASSUME NEW i \in Ids
                  PROVE  (op[i] # None => JobOK(i, op[i]))' /\ LeaseOK(i)' /\ RecordOK(i)'
      BY DEF IdInv
    <2>1. (op[i] # None => JobOK(i, op[i])) /\ LeaseOK(i) /\ RecordOK(i)
      BY DEF IInv, IdInv
    <2>2. op[i] # None => op[i].at = "observe"
      BY <1>1, Elsewhere DEF Drained, Locking
    <2>3. op'[i] # None => JobOK(i, op[i])'
      BY <1>2, <2>1, <2>2
         DEF JobOK, Expired, Observing, Moving, Leasing, Early, Filled, Locking
    <2>4. LeaseOK(i)'
      <3>1. Using(i)' = Using(i) /\ (Leased(i)' <=> Leased(i))
        BY <1>2 DEF Using, Reads, Leased
      <3>. QED
        BY <1>2, <2>1, <3>1 DEF LeaseOK
    <2>5. RecordOK(i)'
      BY <1>2, <2>1 DEF RecordOK, SameOK, SavedOK, PromiseOK, At
    <2>. QED
      BY <2>3, <2>4, <2>5
  <1>. QED
    BY <1>4, <1>5, <1>6, <1>7 DEF IInv

\* Without jobs, readers and loops, only the records matter.
LEMMA QuietKeeps ==
  ASSUME Typed', LockInv',
         sweep' = None, op' = Empty, reader' = [r \in Readers |-> None], leases' = Zeros,
         phase' # "up" => ~enabled' /\ ~due' /\ timer' = None,
         \A i \in Ids : RecordOK(i)'
  PROVE  IInv'
  <1>1. /\ \A i \in Ids : op'[i] = None /\ leases'[i] = 0
        /\ \A r \in Readers : reader'[r] = None
    BY DEF Empty, Zeros
  <1>2. StartInv' /\ RemoveInv' /\ SweepInv' /\ ReadInv'
    BY <1>1 DEF StartInv, RemoveInv, Removing, SweepInv, Unlinks, ReadInv, Reads
  <1>3. IdInv'
    <2>. SUFFICES ASSUME NEW i \in Ids PROVE LeaseOK(i)'
      BY <1>1 DEF IdInv
    <2>1. Using(i)' = {}
      BY <1>1 DEF Using, Reads
    <2>2. ~Leased(i)'
      BY <1>1 DEF Leased
    <2>. QED
      BY <1>1, <2>1, <2>2, FS_EmptySet DEF LeaseOK
  <1>. QED
    BY <1>2, <1>3 DEF IInv

LEMMA CrashStep ==
  ASSUME IInv, Crash
  PROVE  IInv'
  <1>1. /\ UNCHANGED <<files, told, now>> /\ index' \in {index, recs}
        /\ phase # "down" /\ phase' = "down" /\ ~enabled' /\ enabled' = FALSE
        /\ recs' = Empty /\ leases' = Zeros /\ lock' = None /\ op' = Empty
        /\ reader' = [r \in Readers |-> None]
        /\ sweep' = None /\ timer' = None /\ ~due'
    BY DEF Crash
  <1>2. Typed'
    BY <1>1 DEF IInv, Typed, Empty, Zeros
  <1>3. LockInv'
    BY <1>1 DEF LockInv
  <1>4. \A i \in Ids : RecordOK(i)'
    <2>. SUFFICES ASSUME NEW i \in Ids PROVE RecordOK(i)'
      OBVIOUS
    <2>1. RecordOK(i) /\ recs'[i] = None /\ index'[i] \in {index[i], recs[i]}
      BY <1>1 DEF IInv, IdInv, Empty
    <2>. QED
      BY <1>1, <2>1 DEF RecordOK, SameOK, SavedOK, PromiseOK, Expired
  <1>. QED
    BY <1>1, <1>2, <1>3, <1>4, QuietKeeps

\* A start finds nothing running.
LEMMA Quiet ==
  ASSUME IInv, phase # "up"
  PROVE  /\ \A i \in Ids : op[i] = None /\ leases[i] = 0
         /\ \A r \in Readers : reader[r] = None
         /\ op = Empty /\ leases = Zeros /\ reader = [r \in Readers |-> None]
         /\ sweep = None /\ timer = None /\ ~due /\ ~enabled
  <1>1. /\ \A i \in Ids : op[i] = None
        /\ \A r \in Readers : reader[r] = None
        /\ sweep = None /\ timer = None /\ ~due /\ ~enabled
    BY DEF IInv, StartInv
  <1>2. \A i \in Ids : leases[i] = 0
    <2>. SUFFICES ASSUME NEW i \in Ids PROVE leases[i] = 0
      OBVIOUS
    <2>1. Using(i) = {} /\ ~Leased(i)
      BY <1>1 DEF Using, Reads, Leased
    <2>. QED
      BY <2>1, FS_EmptySet DEF IInv, IdInv, LeaseOK
  <1>3. op = Empty /\ leases = Zeros /\ reader = [r \in Readers |-> None]
    BY <1>1, <1>2 DEF IInv, Typed, Empty, Zeros
  <1>. QED
    BY <1>1, <1>2, <1>3

LEMMA LoadStep ==
  ASSUME IInv, Load
  PROVE  IInv'
  <1>1. /\ UNCHANGED <<index, leases, op, reader, sweep, timer, due, enabled, told, now>>
        /\ phase = "down" /\ phase' = "loading" /\ lock' = "load"
    BY DEF Load, taskVars, sweepVars, envVars, Lock
  <1>2. Typed /\ op = Empty /\ leases = Zeros /\ reader = [r \in Readers |-> None]
          /\ sweep = None /\ timer = None /\ ~due /\ ~enabled
    BY <1>1, Quiet DEF IInv
  <1>3. \A i \in Ids :
          /\ recs'[i] \in Record \cup {None}
          /\ recs'[i] # None => index[i] # None /\ recs'[i].exp = index[i].exp
          /\ (index[i] # None /\ ~Over(index[i])) => recs'[i] # None
          /\ (index[i] # None /\ ~Over(index[i]) /\ ~Expired(index[i])
                /\ files[i] = index[i].size) => recs'[i] = index[i]
    <2>. SUFFICES ASSUME NEW i \in Ids, index[i] # None, ~Over(index[i])
                  PROVE  /\ recs'[i] \in Record
                         /\ recs'[i].exp = index[i].exp
                         /\ (~Expired(index[i]) /\ files[i] = index[i].size)
                              => recs'[i] = index[i]
      BY Values DEF Load
    <2>1. PICK e \in Nat, z \in Nat : index[i] = [exp |-> e, size |-> z]
      BY <1>2 DEF Typed, Record
    <2>2. [index[i] EXCEPT !.size = 0] = [exp |-> e, size |-> 0]
      BY <2>1
    <2>3. [exp |-> e, size |-> 0] \in Record /\ [exp |-> e, size |-> z] \in Record
      BY DEF Record
    <2>4. recs'[i] = IF ~Expired(index[i]) /\ files[i] = index[i].size THEN index[i]
                     ELSE [exp |-> e, size |-> 0]
      BY <2>2 DEF Load
    <2>. QED
      BY <2>1, <2>3, <2>4
  <1>4. \A i \in Ids :
          /\ files'[i] \in Nat
          /\ recs'[i] # None /\ recs'[i].size > 0 => files'[i] = files[i]
    BY <1>2 DEF Load, Stored, Held, Typed
  <1>5. recs' \in [Ids -> Record \cup {None}] /\ files' \in [Ids -> Nat]
    <2>1. recs' = [i \in Ids |-> recs'[i]] /\ files' = [i \in Ids |-> files'[i]]
      BY DEF Load
    <2>. QED
      BY <1>3, <1>4, <2>1
  <1>6. Typed'
    BY <1>1, <1>2, <1>5 DEF Typed
  <1>7. LockInv'
    BY <1>1, <1>2 DEF LockInv
  <1>8. \A i \in Ids : RecordOK(i)'
    <2>. SUFFICES ASSUME NEW i \in Ids PROVE RecordOK(i)'
      OBVIOUS
    <2>1. RecordOK(i) /\ now \in Nat
      BY <1>2 DEF IInv, IdInv, Typed
    <2>2. SameOK(i)'
      BY <1>1, <1>3, <2>1 DEF RecordOK, SameOK
    <2>3. SavedOK(i)'
      BY <1>1, <1>3 DEF SavedOK
    <2>4. PromiseOK(i)'
      <3>. SUFFICES ASSUME told[i] # None, ~Expired(told[i])
                    PROVE  PromiseOK(i)'
        BY <1>1 DEF PromiseOK, Expired
      <3>1. /\ index[i] # None /\ index[i].exp = told[i].exp /\ ~Expired(index[i])
            /\ told[i].file => index[i].size > 0 /\ files[i] = index[i].size
        BY <2>1 DEF RecordOK, SameOK, PromiseOK, Expired
      <3>2. index[i].exp \in Nat
        BY <1>2, <3>1 DEF Typed, Record
      <3>3. ~Over(index[i])
        BY <2>1, <3>1, <3>2, Values DEF Over, Expired
      <3>4. recs'[i] # None /\ (told[i].file => recs'[i] = index[i])
        BY <1>3, <3>1, <3>3
      <3>5. told[i].file => files'[i] = files[i]
        BY <1>4, <3>1, <3>4
      <3>. QED
        BY <1>1, <3>1, <3>4, <3>5 DEF PromiseOK
    <2>. QED
      BY <2>2, <2>3, <2>4 DEF RecordOK
  <1>. QED
    BY <1>1, <1>2, <1>6, <1>7, <1>8, QuietKeeps

LEMMA LoadedStep ==
  ASSUME IInv, Loaded
  PROVE  IInv'
  <1>1. /\ UNCHANGED <<files, leases, op, reader, sweep, due, told, now>>
        /\ phase = "loading" /\ lock' = None
        /\ \/ phase' = "up" /\ enabled' = TRUE /\ recs' = recs /\ index' = recs
           \/ /\ phase' = "down" /\ enabled' = enabled /\ recs' = Empty
              /\ index' \in {index, recs} /\ timer' = timer
    BY DEF Loaded, Persist, taskVars, envVars, Unlock
  <1>2. Typed /\ op = Empty /\ leases = Zeros /\ reader = [r \in Readers |-> None]
          /\ sweep = None /\ timer = None /\ ~due /\ ~enabled
    BY <1>1, Quiet DEF IInv
  <1>3. Typed'
    BY <1>1, <1>2 DEF Typed, Empty
  <1>4. LockInv'
    BY <1>1, <1>2 DEF LockInv
  <1>5. \A i \in Ids : RecordOK(i)'
    <2>. SUFFICES ASSUME NEW i \in Ids PROVE RecordOK(i)'
      OBVIOUS
    <2>1. RecordOK(i) /\ index'[i] \in {index[i], recs[i]}
      BY <1>1 DEF IInv, IdInv
    <2>2. CASE phase' = "up"
      BY <1>1, <2>1, <2>2 DEF RecordOK, SameOK, SavedOK, PromiseOK, Expired
    <2>3. CASE phase' = "down"
      <3>1. recs'[i] = None
        BY <1>1, <2>3 DEF Empty
      <3>. QED
        BY <1>1, <2>1, <2>3, <3>1 DEF RecordOK, SameOK, SavedOK, PromiseOK, Expired
    <2>. QED
      BY <1>1, <2>2, <2>3
  <1>. QED
    BY <1>1, <1>2, <1>3, <1>4, <1>5, QuietKeeps

LEMMA TickStep ==
  ASSUME IInv, Tick
  PROVE  IInv'
  <1>1. /\ UNCHANGED <<files, index, recs, leases, lock, op, reader, sweep, phase, enabled,
                       told>>
        /\ now' = now + 1 /\ now \in Nat
        /\ \/ timer = now + 1 /\ timer' = None
           \/ UNCHANGED <<timer, due>>
    BY DEF Tick, diskVars, storeVars, taskVars, IInv, Typed
  <1>2. Typed'
    BY <1>1 DEF IInv, Typed
  <1>3. StartInv'
    <2>1. timer = now + 1 => timer # None
      BY <1>1, Values
    <2>. QED
      BY <1>1, <2>1 DEF IInv, StartInv
  <1>4. LockInv' /\ RemoveInv' /\ ReadInv'
    BY <1>1 DEF IInv, LockInv, RemoveInv, Removing, Drained, ReadInv, Reads, Whole
  <1>5. SweepInv'
    <2>. SUFFICES ASSUME NEW i \in Ids, Unlinks(i)
                  PROVE  /\ recs'[i] # None /\ recs'[i].size = 0 /\ Expired(recs[i])'
                         /\ ~Leased(i)'
      BY <1>1 DEF SweepInv, Unlinks
    <2>1. recs[i] # None /\ recs[i].size = 0 /\ recs[i].exp <= now /\ ~Leased(i)
      BY DEF IInv, SweepInv, Expired
    <2>2. recs[i].exp \in Nat
      BY <2>1 DEF IInv, Typed, Record
    <2>. QED
      BY <1>1, <2>1, <2>2 DEF Expired, Leased
  <1>6. IdInv'
    <2>. SUFFICES ASSUME NEW i \in Ids
                  PROVE  (op[i] # None => JobOK(i, op[i]))' /\ LeaseOK(i)' /\ RecordOK(i)'
      BY DEF IdInv
    <2>1. (op[i] # None => JobOK(i, op[i])) /\ LeaseOK(i) /\ RecordOK(i)
      BY DEF IInv, IdInv
    <2>2. op[i] # None /\ ~Expired(op[i])' => ~Expired(op[i])
      <3>1. op[i] # None => op[i].exp \in Nat
        BY JobFields DEF IInv
      <3>. QED
        BY <1>1, <3>1 DEF Expired
    <2>3. op'[i] # None => JobOK(i, op[i])'
      BY <1>1, <2>1, <2>2 DEF JobOK, Expired
    <2>4. LeaseOK(i)'
      <3>1. Using(i)' = Using(i) /\ (Leased(i)' <=> Leased(i))
        BY <1>1 DEF Using, Reads, Leased
      <3>. QED
        BY <1>1, <2>1, <3>1 DEF LeaseOK
    <2>5. told[i] # None /\ ~Expired(told[i])' => ~Expired(told[i])
      <3>1. told[i] # None => told[i].exp \in Nat
        BY DEF IInv, Typed, Promise
      <3>. QED
        BY <1>1, <3>1 DEF Expired
    <2>6. RecordOK(i)'
      BY <1>1, <2>1, <2>5 DEF RecordOK, SameOK, SavedOK, PromiseOK, Expired, At
    <2>. QED
      BY <2>3, <2>4, <2>6
  <1>. QED
    BY <1>2, <1>3, <1>4, <1>5, <1>6 DEF IInv
-----------------------------------------------------------------------------
LEMMA InitHolds ==
  ASSUME Init
  PROVE  IInv
  <1>1. Typed
    BY DEF Init, Typed, Empty, Zeros
  <1>2. StartInv /\ LockInv /\ RemoveInv /\ SweepInv /\ ReadInv
    BY DEF Init, StartInv, LockInv, RemoveInv, Removing, SweepInv, Unlinks, ReadInv, Reads,
           Empty
  <1>3. IdInv
    <2>. SUFFICES ASSUME NEW i \in Ids
                  PROVE  (op[i] # None => JobOK(i, op[i])) /\ LeaseOK(i) /\ RecordOK(i)
      BY DEF IdInv
    <2>1. op[i] = None /\ recs[i] = None /\ told[i] = None /\ leases[i] = 0
      BY DEF Init, Empty, Zeros
    <2>2. Using(i) = {} /\ ~Leased(i)
      BY <2>1 DEF Init, Using, Reads, Leased
    <2>3. LeaseOK(i)
      BY <2>1, <2>2, FS_EmptySet DEF LeaseOK
    <2>. QED
      BY <2>1, <2>3 DEF RecordOK, SameOK, SavedOK, PromiseOK
  <1>. QED
    BY <1>1, <1>2, <1>3 DEF IInv

-----------------------------------------------------------------------------
(***************************************************************************)
(* The budget                                                              *)
(***************************************************************************)

\* The stages that have a reservation, those that end a lease, and those that have no
\* file in the record.
Holding == {"create", "stream", "check", "commit", "saving", "discard", "undo", "undone"}
Gone == {"none", "expired"}
Bare == Early \cup {"observing", "undo", "undone"}
Place(id) == IF op[id] = None THEN "none" ELSE op[id].at

\* A job writes no more than MaxBytes, has taken its file back at its end, and works on
\* a record that has no file until it is committed, and after a failure.
BareOK(id) ==
  /\ op[id] # None => op[id].size <= MaxBytes
  /\ Place(id) = "undone" => files[id] = 0
  /\ Place(id) \in Bare \/ (id \in Attachments /\ Place(id) = "discard") =>
       id \notin Stored(recs)

\* A loop visits records, and writes when it is through.
TodoInv ==
  sweep # None =>
    /\ sweep.todo \subseteq Held(recs) /\ sweep.file \notin sweep.todo
    /\ sweep.writing => sweep.todo = {} /\ sweep.file = None

BareInv == TodoInv /\ \A id \in Ids : BareOK(id)

\* Where a job goes.
LEMMA GoesTo ==
  ASSUME Typed, NEW id \in Ids, op[id] # None, NEW s \in Stages, Goto(id, s)
  PROVE  /\ Place(id)' = s /\ Place(id) = op[id].at
         /\ op'[id] # None /\ op'[id].size = op[id].size /\ op'[id].exp = op[id].exp
  <1>1. /\ op'[id] = [at |-> s, exp |-> op[id].exp, size |-> op[id].size]
        /\ op'[id] # None
    BY Goes
  <1>2. op'[id].at = s /\ op'[id].size = op[id].size /\ op'[id].exp = op[id].exp
    BY <1>1
  <1>. QED
    BY <1>1, <1>2 DEF Place

\* A job that leaves is gone, or waits for a cleanup.
LEMMA LeavesTo ==
  ASSUME Typed, NEW id \in Ids, op[id] # None, Leave(id)
  PROVE  /\ Place(id)' \in Gone
         /\ op'[id] # None => op'[id].size = op[id].size
  <1>1. CASE End(id)
    BY <1>1, Ends DEF Place, Gone
  <1>2. CASE Goto(id, "expired")
    <2>1. "expired" \in Stages
      BY DEF Stages
    <2>. QED
      BY <1>2, <2>1, GoesTo DEF Gone
  <1>. QED
    BY <1>1, <1>2 DEF Leave

\* From where to where every step takes its job.
LEMMA Places ==
  ASSUME IInv, NEW id \in Ids
  PROVE  /\ Observe(id) => Place(id) = "none" /\ Place(id)' = "observe"
         /\ Get(id) \/ Stage(id) => Place(id) = "none" /\ Place(id)' = "slot"
         /\ Remember(id) => Place(id) = "observe" /\ Place(id)' = "observing"
         /\ Recognize(id) => Place(id) = "observe" /\ Place(id)' = "none"
         /\ Remembered(id) => Place(id) = "observing" /\ Place(id)' = "none"
         /\ FetchBegins(id) \/ StageBegins(id) =>
              Place(id) = "slot" /\ Place(id)' = "reserve"
         /\ Refused(id) => Place(id) = "slot" /\ Place(id)' = "none"
         /\ Reserve(id) => Place(id) = "reserve" /\ Place(id)' = "create"
         /\ GiveUp(id) => Place(id) = "reserve" /\ Place(id)' \in Gone
         /\ Create(id) => Place(id) = "create" /\ Place(id)' = "stream"
         /\ Streamed(id) => Place(id) = "stream" /\ Place(id)' = "check"
         /\ Broken(id) => Place(id) \in {"create", "stream"} /\ Place(id)' \in Gone
         /\ Checked(id) => Place(id) = "check" /\ Place(id)' = "commit"
         /\ Rejected(id) => Place(id) \in {"check", "commit"} /\ Place(id)' = "discard"
         /\ Commit(id) => Place(id) = "commit" /\ Place(id)' = "saving"
         /\ Saved(id) => Place(id) = "saving" /\ Place(id)' \in Gone
         /\ NotSaved(id) => Place(id) = "saving" /\ Place(id)' = "discard"
         /\ Discard(id) => Place(id) = "discard" /\ Place(id)' \in Gone
         /\ Undo(id) => Place(id) = "discard" /\ Place(id)' = "undo"
         /\ Unlinked(id) => Place(id) = "undo" /\ Place(id)' = "undone"
         /\ Undone(id) => Place(id) = "undone" /\ Place(id)' = "none"
  <1>1. Typed /\ op \in [Ids -> Job \cup {None}]
    BY DEF IInv, Typed
  <1>2. Observe(id) => Place(id) = "none" /\ Place(id)' = "observe"
    <2>. SUFFICES ASSUME Observe(id)
                  PROVE  Place(id) = "none" /\ Place(id)' = "observe"
      OBVIOUS
    <2>1. op[id] = None /\ op'[id] = [at |-> "observe", exp |-> 0, size |-> 0]
      BY <1>1 DEF Observe
    <2>2. [at |-> "observe", exp |-> 0, size |-> 0] \in Job
      BY DEF Job, Stages
    <2>. QED
      BY <2>1, <2>2, Values DEF Place
  <1>3. Get(id) => Place(id) = "none" /\ Place(id)' = "slot"
    <2>. SUFFICES ASSUME Get(id)
                  PROVE  Place(id) = "none" /\ Place(id)' = "slot"
      OBVIOUS
    <2>1. PICK e \in Nat : recs[id].exp = e
      BY <1>1 DEF Get, Typed, Record
    <2>2. op[id] = None /\ op'[id] = [at |-> "slot", exp |-> e, size |-> 0]
      BY <1>1, <2>1 DEF Get
    <2>3. [at |-> "slot", exp |-> e, size |-> 0] \in Job
      BY DEF Job, Stages
    <2>. QED
      BY <2>2, <2>3, Values DEF Place
  <1>4. Stage(id) => Place(id) = "none" /\ Place(id)' = "slot"
    <2>. SUFFICES ASSUME Stage(id)
                  PROVE  Place(id) = "none" /\ Place(id)' = "slot"
      OBVIOUS
    <2>1. op[id] = None /\ op'[id] = [at |-> "slot", exp |-> 0, size |-> 0]
      BY <1>1 DEF Stage
    <2>2. [at |-> "slot", exp |-> 0, size |-> 0] \in Job
      BY DEF Job, Stages
    <2>. QED
      BY <2>1, <2>2, Values DEF Place
  <1>5. StageBegins(id) => Place(id) = "slot" /\ Place(id)' = "reserve"
    <2>. SUFFICES ASSUME StageBegins(id)
                  PROVE  Place(id) = "slot" /\ Place(id)' = "reserve"
      OBVIOUS
    <2>1. PICK e \in Nat : now + Lifetime = e
      BY <1>1, Values DEF Typed
    <2>2. op[id] # None /\ op[id].at = "slot"
            /\ op'[id] = [at |-> "reserve", exp |-> e, size |-> 0]
      BY <1>1, <2>1 DEF StageBegins, At
    <2>3. [at |-> "reserve", exp |-> e, size |-> 0] \in Job
      BY DEF Job, Stages
    <2>. QED
      BY <2>2, <2>3, Values DEF Place
  <1>6. Create(id) => Place(id) = "create" /\ Place(id)' = "stream"
    <2>. SUFFICES ASSUME Create(id)
                  PROVE  Place(id) = "create" /\ Place(id)' = "stream"
      OBVIOUS
    <2>1. op[id] # None /\ op[id].at = "create" /\ op[id].exp \in Nat
      BY <1>1, JobFields DEF Create, At
    <2>2. PICK size \in Nat, e \in Nat :
            op'[id] = [at |-> "stream", exp |-> e, size |-> size]
      BY <1>1, <2>1, Values DEF Create
    <2>3. [at |-> "stream", exp |-> e, size |-> size] \in Job
      BY DEF Job, Stages
    <2>. QED
      BY <2>1, <2>2, <2>3, Values DEF Place
  <1>7. ASSUME NEW s \in Stages, Goto(id, s), op[id] # None
        PROVE  Place(id)' = s /\ Place(id) = op[id].at
    BY <1>1, <1>7, GoesTo
  <1>8. {"observing", "reserve", "create", "check", "commit", "discard", "saving", "undo",
         "undone"} \subseteq Stages
    BY DEF Stages
  <1>9. ASSUME op[id] # None, End(id)
        PROVE  Place(id)' = "none" /\ Place(id) = op[id].at
    BY <1>1, <1>9, Ends DEF Place
  <1>10. ASSUME op[id] # None, Leave(id)
         PROVE  Place(id)' \in Gone /\ Place(id) = op[id].at
    BY <1>1, <1>10, LeavesTo DEF Place
  <1>11. Remember(id) => Place(id) = "observe" /\ Place(id)' = "observing"
    BY <1>7, <1>8 DEF Remember, At
  <1>12. Recognize(id) => Place(id) = "observe" /\ Place(id)' = "none"
    BY <1>9 DEF Recognize, At
  <1>13. Remembered(id) => Place(id) = "observing" /\ Place(id)' = "none"
    BY <1>9 DEF Remembered, At
  <1>14. FetchBegins(id) => Place(id) = "slot" /\ Place(id)' = "reserve"
    BY <1>7, <1>8 DEF FetchBegins, At
  <1>15. Refused(id) => Place(id) = "slot" /\ Place(id)' = "none"
    BY <1>9 DEF Refused, At
  <1>16. Reserve(id) => Place(id) = "reserve" /\ Place(id)' = "create"
    BY <1>7, <1>8 DEF Reserve, At
  <1>17. GiveUp(id) => Place(id) = "reserve" /\ Place(id)' \in Gone
    BY <1>10 DEF GiveUp, At
  <1>18. Streamed(id) => Place(id) = "stream" /\ Place(id)' = "check"
    BY <1>7, <1>8 DEF Streamed, At
  <1>19. Broken(id) => Place(id) \in {"create", "stream"} /\ Place(id)' \in Gone
    BY <1>10 DEF Broken, At
  <1>20. Checked(id) => Place(id) = "check" /\ Place(id)' = "commit"
    BY <1>7, <1>8 DEF Checked, At
  <1>21. Rejected(id) => Place(id) \in {"check", "commit"} /\ Place(id)' = "discard"
    BY <1>7, <1>8 DEF Rejected, At
  <1>22. Commit(id) => Place(id) = "commit" /\ Place(id)' = "saving"
    BY <1>7, <1>8 DEF Commit, At
  <1>23. Saved(id) => Place(id) = "saving" /\ Place(id)' \in Gone
    BY <1>10 DEF Saved, At
  <1>24. NotSaved(id) => Place(id) = "saving" /\ Place(id)' = "discard"
    BY <1>7, <1>8 DEF NotSaved, At
  <1>25. Discard(id) => Place(id) = "discard" /\ Place(id)' \in Gone
    BY <1>10 DEF Discard, At
  <1>26. Undo(id) => Place(id) = "discard" /\ Place(id)' = "undo"
    BY <1>7, <1>8 DEF Undo, At
  <1>27. Unlinked(id) => Place(id) = "undo" /\ Place(id)' = "undone"
    BY <1>7, <1>8 DEF Unlinked, At
  <1>28. Undone(id) => Place(id) = "undone" /\ Place(id)' = "none"
    BY <1>9 DEF Undone, At
  <1>29. /\ Observe(id) => Place(id) = "none" /\ Place(id)' = "observe"
         /\ Get(id) \/ Stage(id) => Place(id) = "none" /\ Place(id)' = "slot"
         /\ FetchBegins(id) \/ StageBegins(id) =>
              Place(id) = "slot" /\ Place(id)' = "reserve"
    BY <1>2, <1>3, <1>4, <1>5, <1>14
  <1>. QED
    BY <1>6, <1>11, <1>12, <1>13, <1>15, <1>16, <1>17, <1>18, <1>19, <1>20, <1>21,
       <1>22, <1>23, <1>24, <1>25, <1>26, <1>27, <1>28, <1>29

\* What a job has written is no more than MaxBytes.
LEMMA JobSizes ==
  ASSUME IInv, NEW id \in Ids, BareOK(id),
         Observe(id) \/ Get(id) \/ Stage(id) \/ JobStep(id)
  PROVE  op'[id] # None => op'[id].size <= MaxBytes
  <1>1. Typed /\ op \in [Ids -> Job \cup {None}] /\ MaxBytes \in Nat
    BY Values DEF IInv, Typed
  <1>2. ASSUME op[id] # None, op'[id] # None => op'[id].size = op[id].size
        PROVE  op'[id] # None => op'[id].size <= MaxBytes
    BY <1>2 DEF BareOK
  <1>3. ASSUME NEW e, NEW s, op'[id] = [at |-> s, exp |-> e, size |-> 0]
        PROVE  op'[id] # None => op'[id].size <= MaxBytes
    <2>1. op'[id].size = 0
      BY <1>3
    <2>. QED
      BY <1>1, <2>1
  <1>4. CASE Observe(id)
    <2>1. op'[id] = [at |-> "observe", exp |-> 0, size |-> 0]
      BY <1>1, <1>4 DEF Observe
    <2>. QED
      BY <1>3, <2>1
  <1>5. CASE Get(id)
    <2>1. op'[id] = [at |-> "slot", exp |-> recs[id].exp, size |-> 0]
      BY <1>1, <1>5 DEF Get
    <2>. QED
      BY <1>3, <2>1
  <1>6. CASE Stage(id)
    <2>1. op'[id] = [at |-> "slot", exp |-> 0, size |-> 0]
      BY <1>1, <1>6 DEF Stage
    <2>. QED
      BY <1>3, <2>1
  <1>7. CASE StageBegins(id)
    <2>1. op'[id] = [at |-> "reserve", exp |-> now + Lifetime, size |-> 0]
      BY <1>1, <1>7 DEF StageBegins
    <2>. QED
      BY <1>3, <2>1
  <1>8. CASE Create(id)
    <2>1. PICK size \in 1 .. MaxBytes :
            op'[id] = [at |-> "stream", exp |-> op[id].exp, size |-> size]
      BY <1>1, <1>8 DEF Create
    <2>2. op'[id].size = size
      BY <2>1
    <2>. QED
      BY <1>1, <2>1, <2>2
  <1>9. {"observing", "reserve", "create", "check", "commit", "discard", "saving", "undo",
         "undone"} \subseteq Stages
    BY DEF Stages
  <1>10. ASSUME NEW s \in Stages, Goto(id, s), op[id] # None
         PROVE  op'[id] # None => op'[id].size <= MaxBytes
    BY <1>1, <1>2, <1>10, GoesTo
  <1>11. ASSUME Leave(id), op[id] # None
         PROVE  op'[id] # None => op'[id].size <= MaxBytes
    BY <1>1, <1>2, <1>11, LeavesTo
  <1>12. ASSUME End(id)
         PROVE  op'[id] # None => op'[id].size <= MaxBytes
    BY <1>1, <1>12, Ends
  <1>13. CASE Recognize(id) \/ Remembered(id) \/ Refused(id) \/ Undone(id)
    BY <1>12, <1>13 DEF Recognize, Remembered, Refused, Undone
  <1>14. CASE GiveUp(id) \/ Broken(id) \/ Saved(id) \/ Discard(id)
    BY <1>11, <1>14 DEF GiveUp, Broken, Saved, Discard, At
  <1>15. CASE Remember(id) \/ FetchBegins(id) \/ Reserve(id) \/ Streamed(id) \/ Checked(id)
    BY <1>9, <1>10, <1>15 DEF Remember, FetchBegins, Reserve, Streamed, Checked, At
  <1>16. CASE Rejected(id) \/ Commit(id) \/ NotSaved(id) \/ Undo(id) \/ Unlinked(id)
    BY <1>9, <1>10, <1>16 DEF Rejected, Commit, NotSaved, Undo, Unlinked, At
  <1>. QED
    BY <1>4, <1>5, <1>6, <1>7, <1>8, <1>13, <1>14, <1>15, <1>16 DEF JobStep

\* The steps that leave the records as they are.
Quietly(id) ==
  \/ Observe(id) \/ Get(id) \/ Stage(id) \/ Recognize(id) \/ FetchBegins(id)
  \/ StageBegins(id) \/ Refused(id) \/ Reserve(id) \/ GiveUp(id) \/ Create(id)
  \/ Streamed(id) \/ Broken(id) \/ Checked(id) \/ Rejected(id) \/ Saved(id)
  \/ Discard(id) \/ Unlinked(id) \/ Undone(id)

\* They do.
LEMMA QuietRecords ==
  ASSUME NEW id, Quietly(id)
  PROVE  recs' = recs
  BY DEF Quietly, Observe, Get, Stage, Recognize, FetchBegins, StageBegins, Refused,
         Reserve, GiveUp, Create, Streamed, Broken, Checked, Rejected, Saved, Discard,
         Unlinked, Undone, storeVars

\* What the other steps do to the record.
LEMMA JobRecord ==
  ASSUME IInv, NEW id \in Ids
  PROVE  /\ Remember(id) =>
              recs[id] = None /\ recs'[id] # None /\ recs'[id].size = 0
         /\ Remembered(id) => recs'[id] \in {recs[id], None}
         /\ Commit(id) => recs'[id] # None /\ recs'[id].size = op[id].size
         /\ NotSaved(id) =>
              /\ recs[id] # None
              /\ recs'[id] = recs[id] \/ (recs'[id] # None /\ recs'[id].size = 0)
              /\ id \in Attachments => recs'[id].size = 0
         /\ Undo(id) => recs'[id] = None
  <1>1. Typed /\ recs \in [Ids -> Record \cup {None}] /\ now + Lifetime \in Nat
    BY Values DEF IInv, Typed
  <1>2. Remember(id) => recs[id] = None /\ recs'[id] # None /\ recs'[id].size = 0
    <2>. SUFFICES ASSUME Remember(id)
                  PROVE  recs[id] = None /\ recs'[id] # None /\ recs'[id].size = 0
      OBVIOUS
    <2>1. PICK e \in Nat : e = now + Lifetime
      BY <1>1
    <2>2. recs[id] = None /\ recs'[id] = [exp |-> e, size |-> 0]
      BY <1>1, <2>1 DEF Remember
    <2>3. [exp |-> e, size |-> 0] \in Record
      BY DEF Record
    <2>4. recs'[id].size = 0
      BY <2>2
    <2>. QED
      BY <2>2, <2>3, <2>4, Values
  <1>3. Remembered(id) => recs'[id] \in {recs[id], None}
    BY <1>1 DEF Remembered
  <1>4. Commit(id) => recs'[id] # None /\ recs'[id].size = op[id].size
    <2>. SUFFICES ASSUME Commit(id)
                  PROVE  recs'[id] # None /\ recs'[id].size = op[id].size
      OBVIOUS
    <2>1. PICK e \in Nat, z \in Nat : e = op[id].exp /\ z = op[id].size
      BY <1>1, JobFields DEF Commit, At
    <2>2. recs'[id] = [exp |-> e, size |-> z]
      BY <1>1, <2>1 DEF Commit
    <2>3. [exp |-> e, size |-> z] \in Record
      BY DEF Record
    <2>4. recs'[id].size = z
      BY <2>2
    <2>. QED
      BY <2>1, <2>2, <2>3, <2>4, Values
  <1>5. NotSaved(id) =>
          /\ recs[id] # None
          /\ recs'[id] = recs[id] \/ (recs'[id] # None /\ recs'[id].size = 0)
          /\ id \in Attachments => recs'[id].size = 0
    <2>. SUFFICES ASSUME NotSaved(id)
                  PROVE  /\ recs[id] # None
                         /\ recs'[id] = recs[id] \/ (recs'[id] # None /\ recs'[id].size = 0)
                         /\ id \in Attachments => recs'[id].size = 0
      OBVIOUS
    <2>1. op[id] # None /\ op[id].at = "saving"
      BY DEF NotSaved, At
    <2>2. PICK e \in Nat, z \in Nat : recs[id] = [exp |-> e, size |-> z]
      BY <1>1, <2>1, Job1, JobFields DEF JobOK
    <2>3. [exp |-> e, size |-> z] \in Record /\ [exp |-> e, size |-> 0] \in Record
      BY DEF Record
    <2>4. CASE id \in Uploads
      BY <2>2, <2>3, <2>4, Values DEF NotSaved
    <2>5. CASE id \notin Uploads
      <3>1. recs'[id] = [recs[id] EXCEPT !.size = 0]
        BY <1>1, <2>5 DEF NotSaved
      <3>2. recs'[id] = [exp |-> e, size |-> 0]
        BY <2>2, <3>1
      <3>3. recs'[id].size = 0
        BY <3>2
      <3>. QED
        BY <2>2, <2>3, <3>2, <3>3, Values
    <2>. QED
      BY <2>4, <2>5
  <1>6. Undo(id) => recs'[id] = None
    BY <1>1 DEF Undo
  <1>. QED
    BY <1>2, <1>3, <1>4, <1>5, <1>6

\* Being stored is about the record.
LEMMA IsStored ==
  ASSUME NEW m, NEW id \in Ids
  PROVE  id \in Stored(m) <=> (m[id] # None /\ m[id].size > 0)
  BY DEF Stored, Held

\* A record that stays keeps its file.
LEMMA SameStored ==
  ASSUME NEW id \in Ids, recs'[id] = recs[id]
  PROVE  id \in Stored(recs)' <=> id \in Stored(recs)
  BY DEF Stored, Held

\* A step of a job keeps what is said of it.
LEMMA BareJob ==
  ASSUME IInv, NEW id \in Ids, BareOK(id),
         Observe(id) \/ Get(id) \/ Stage(id) \/ JobStep(id)
  PROVE  BareOK(id)'
  <1>1. op'[id] # None => op'[id].size <= MaxBytes
    BY JobSizes
  <1>2. Place(id)' = "undone" => files'[id] = 0
    <2>1. Place(id)' = "undone" => Unlinked(id)
      BY Places DEF JobStep, Gone
    <2>2. Unlinked(id) => files'[id] = 0
      BY DEF Unlinked, IInv, Typed
    <2>. QED
      BY <2>1, <2>2
  <1>3. ASSUME Place(id)' \in Bare \/ (id \in Attachments /\ Place(id)' = "discard")
        PROVE  id \notin Stored(recs)'
    <2>1. CASE Quietly(id)
      <3>1. id \in Stored(recs)' <=> id \in Stored(recs)
        BY <2>1, QuietRecords, SameStored
      <3>2. id \notin Stored(recs)
        <4>1. CASE Get(id)
          BY <4>1 DEF Get, Stored
        <4>2. CASE Stage(id)
          BY <4>2 DEF Stage, Stored, Held
        <4>3. CASE ~Get(id) /\ ~Stage(id)
          <5>1. Place(id) \in Bare
            BY <1>3, <2>1, <4>3, Places DEF Quietly, Bare, Early, Gone
          <5>. QED
            BY <5>1 DEF BareOK
        <4>. QED
          BY <4>1, <4>2, <4>3
      <3>. QED
        BY <3>1, <3>2
    <2>2. CASE Remember(id) \/ Undo(id)
      <3>1. recs'[id] = None \/ recs'[id].size = 0
        BY <2>2, JobRecord
      <3>. QED
        BY <3>1 DEF Stored, Held
    <2>3. CASE Remembered(id) \/ Commit(id)
      BY <1>3, <2>3, Places DEF Bare, Early
    <2>4. CASE NotSaved(id)
      <3>1. Place(id)' = "discard" /\ id \in Attachments
        BY <1>3, <2>4, Places DEF Bare, Early
      <3>2. recs'[id].size = 0
        BY <2>4, <3>1, JobRecord
      <3>. QED
        BY <3>2 DEF Stored, Held
    <2>. QED
      BY <2>1, <2>2, <2>3, <2>4 DEF JobStep, Quietly
  <1>. QED
    BY <1>1, <1>2, <1>3 DEF BareOK

\* What a step of a job leaves.
LEMMA JobLocal ==
  ASSUME IInv, NEW id \in Ids,
         (id \in Attachments /\ Observe(id)) \/ Get(id) \/ Stage(id) \/ JobStep(id)
  PROVE  phase = "up" /\ Keeps(id) /\ Local(id) /\ IInv'
  <1>1. phase = "up" /\ ~Removing
    BY Alone
  <1>2. Keeps(id)
    <2>1. CASE JobStep(id)
      BY <1>1, <2>1, RememberStep, RecognizeStep, RememberedStep, FetchBeginsStep,
         StageBeginsStep, RefusedStep, MovedStep, GiveUpStep, CreateStep, DroppedStep,
         CommitStep, SavedStep, NotSavedStep, UndoStep, UnlinkedStep, UndoneStep
         DEF JobStep
    <2>. QED
      BY <1>1, <2>1, ObserveStep, GetStep, StageStep
  <1>. QED
    BY <1>1, <1>2, LocalKeeps DEF Keeps

\* The other steps take no job further, and give no record of one a file.
Idle ==
  \A i \in Ids :
    \/ op'[i] = None
    \/ /\ op'[i] = op[i]
       /\ i \in Stored(recs)' => i \in Stored(recs) /\ recs'[i].size = recs[i].size
       /\ files'[i] \in {0, files[i]}

LEMMA IdleBare ==
  ASSUME \A id \in Ids : BareOK(id), Idle
  PROVE  \A id \in Ids : BareOK(id)'
  <1>. SUFFICES ASSUME NEW id \in Ids PROVE BareOK(id)'
    OBVIOUS
  <1>1. CASE op'[id] = None
    BY <1>1 DEF BareOK, Place, Bare, Early
  <1>2. CASE op'[id] # None
    <2>1. Place(id)' = Place(id)
      BY <1>2 DEF Place, Idle
    <2>. QED
      BY <1>2, <2>1 DEF BareOK, Idle
  <1>. QED
    BY <1>1, <1>2

\* A loop that is there takes files out of records only.
LEMMA VisitedStored ==
  ASSUME IInv, sweep # None, NEW set \in SUBSET Ids, \A i \in set : ~Awaits(i), NEW i \in Ids
  PROVE  i \in Stored(Visited(set)) <=> i \in Stored(recs)
  <1>1. \/ Visited(set)[i] = recs[i]
        \/ Visited(set)[i] = None /\ i \in set /\ (Removing \/ Swept(i))
    BY VisitedValue
  <1>2. CASE Visited(set)[i] = recs[i]
    BY <1>2, IsStored
  <1>3. CASE Visited(set)[i] = None /\ i \in set /\ (Removing \/ Swept(i))
    <2>1. Removing => sweep.kind = "remove"
      BY LoopThere DEF Removing, Kinds
    <2>2. recs[i].size = 0 \/ recs[i] = None
      <3>1. recs[i] # None => recs[i].size \in Nat
        BY DEF IInv, Typed, Record
      <3>. QED
        BY <1>3, <2>1, <3>1 DEF Awaits
    <2>. QED
      BY <1>3, <2>2, IsStored
  <1>. QED
    BY <1>1, <1>2, <1>3

\* A visit drops a record, or leaves it.
LEMMA VisitedSame ==
  ASSUME IInv, sweep # None, NEW set \in SUBSET Ids, NEW i \in Ids, Visited(set)[i] # None
  PROVE  Visited(set)[i] = recs[i]
  BY VisitedValue

\* Every step of a cleanup, action by action.
LEMMA VisitFileMoves ==
  ASSUME IInv, TodoInv, NEW id \in Ids, VisitFile(id)
  PROVE  /\ UNCHANGED <<files, index, leases, reservations, op, reader, phase, now, timer,
                        due, failures>>
         /\ sweep # None /\ sweep.file = None /\ id \in sweep.todo
         /\ sweep' # None /\ sweep'.file = id /\ ~sweep.writing /\ ~sweep'.writing
         /\ sweep'.kind = sweep.kind /\ sweep'.since = sweep.since
         /\ sweep'.todo \subseteq sweep.todo /\ id \notin sweep'.todo
         /\ id \in Stored(recs)
         /\ \A i \in Ids : i \in Stored(recs) /\ i # id => i \in Stored(recs)'
         /\ \A i \in Ids : recs'[i] # None =>
              recs[i] # None /\ recs'[i].exp = recs[i].exp
         /\ \A i \in Ids : i \in Stored(recs)' =>
              /\ i \in Stored(recs) /\ recs'[i] = recs[i]
              /\ i \in sweep.todo => i \in sweep'.todo \cup {id} \/ ~Swept(i)
         /\ \A i \in sweep'.todo : recs'[i] = recs[i]
         /\ sweep.kind = "clean" => id \notin Stored(recs)'
         /\ sweep.kind = "remove" =>
              \A i \in sweep.todo : recs'[i] # None => i \in sweep'.todo \cup {id}
  <1>1. sweep # None /\ sweep \in Loop /\ sweep.todo \in SUBSET Ids /\ id \in sweep.todo
    BY LoopThere DEF VisitFile
  <1>2. PICK before \in SUBSET (sweep.todo \ {id}) :
          /\ \A other \in before : ~Awaits(other)
          /\ recs' = IF sweep.kind = "remove" THEN Visited(before)
                     ELSE [Visited(before) EXCEPT ![id].size = 0]
          /\ sweep' = [sweep EXCEPT !.todo = @ \ (before \cup {id}), !.file = id]
    BY DEF VisitFile
  <1>3. before \in SUBSET Ids /\ id \notin before
    BY <1>1
  <1>4. ~sweep.writing
    BY <1>1 DEF TodoInv
  <1>5. /\ sweep' \in Loop /\ sweep'.file = id /\ ~sweep'.writing
        /\ sweep'.kind = sweep.kind /\ sweep'.since = sweep.since
        /\ sweep'.todo = sweep.todo \ (before \cup {id})
    <2>1. PICK k \in Kinds, t \in SUBSET Ids, f \in Ids \cup {None}, w \in BOOLEAN, s \in Nat :
            sweep = [kind |-> k, todo |-> t, file |-> f, writing |-> w, since |-> s]
      BY <1>1 DEF Loop
    <2>2. sweep' = [kind |-> k, todo |-> t \ (before \cup {id}), file |-> id,
                    writing |-> w, since |-> s]
      BY <1>2, <2>1
    <2>3. sweep' \in Loop
      BY <2>1, <2>2 DEF Loop
    <2>. QED
      BY <1>4, <2>1, <2>2, <2>3
  <1>6. \A i \in Ids : i \in Stored(Visited(before)) <=> i \in Stored(recs)
    BY <1>1, <1>2, <1>3, VisitedStored
  <1>7. Visited(before) \in [Ids -> Record \cup {None}] /\ Visited(before)[id] = recs[id]
    BY <1>1, <1>3, VisitedValue
  <1>8. \A i \in Ids : i # id => recs'[i] = Visited(before)[i]
    BY <1>2, <1>7
  <1>9. \A i \in Ids : Visited(before)[i] # None => Visited(before)[i] = recs[i]
    BY <1>1, <1>3, VisitedSame
  <1>10. \A i \in Ids : i \notin before => Visited(before)[i] = recs[i]
    BY <1>1, <1>3, VisitedValue
  <1>11. recs[id] # None /\ id \in Stored(recs)
    <2>1. recs[id] # None
      BY <1>1 DEF TodoInv, Held
    <2>. QED
      BY <2>1, IsStored DEF VisitFile, Awaits
  <1>12. /\ recs'[id] # None /\ recs'[id].exp = recs[id].exp
         /\ recs'[id] = recs[id] \/ recs'[id].size = 0
         /\ sweep.kind = "clean" => recs'[id].size = 0
    <2>1. CASE sweep.kind = "remove"
      BY <1>2, <1>7, <1>11, <2>1
    <2>2. CASE sweep.kind # "remove"
      <3>1. recs'[id] = [recs[id] EXCEPT !.size = 0]
        BY <1>2, <1>7, <2>2
      <3>2. PICK e \in Nat, z \in Nat : recs[id] = [exp |-> e, size |-> z]
        BY <1>11 DEF IInv, Typed, Record
      <3>3. recs'[id] = [exp |-> e, size |-> 0]
        BY <3>1, <3>2
      <3>4. [exp |-> e, size |-> 0] \in Record
        BY DEF Record
      <3>5. recs'[id].size = 0 /\ recs'[id].exp = e /\ recs[id].exp = e
        BY <3>2, <3>3
      <3>. QED
        BY <3>3, <3>4, <3>5, Values
    <2>. QED
      BY <2>1, <2>2
  <1>13. ASSUME NEW i \in Ids, i \in Stored(recs), i # id
         PROVE  i \in Stored(recs)'
    BY <1>6, <1>8, <1>13, IsStored
  <1>14. ASSUME NEW i \in Ids, recs'[i] # None
         PROVE  recs[i] # None /\ recs'[i].exp = recs[i].exp
    BY <1>8, <1>9, <1>11, <1>12, <1>14
  <1>15. ASSUME NEW i \in Ids, i \in Stored(recs)'
         PROVE  /\ i \in Stored(recs) /\ recs'[i] = recs[i]
                /\ i \in sweep.todo => i \in sweep'.todo \cup {id} \/ ~Swept(i)
    <2>1. i \in Stored(recs) /\ recs'[i] = recs[i]
      <3>1. CASE i = id
        BY <1>11, <1>12, <1>15, <3>1 DEF Stored, Held
      <3>2. CASE i # id
        <4>1. recs'[i] # None /\ recs'[i].size > 0
          BY <1>15 DEF Stored, Held
        <4>. QED
          BY <1>8, <1>9, <3>2, <4>1, IsStored
      <3>. QED
        BY <3>1, <3>2
    <2>2. i \in before => ~Swept(i)
      <3>1. recs[i].size > 0
        BY <2>1 DEF Stored
      <3>. QED
        BY <1>2, <3>1 DEF Awaits
    <2>. QED
      BY <1>5, <2>1, <2>2
  <1>16. \A i \in sweep'.todo : recs'[i] = recs[i]
    BY <1>1, <1>5, <1>8, <1>10
  <1>17. sweep.kind = "clean" => id \notin Stored(recs)'
    BY <1>12 DEF Stored
  <1>18. sweep.kind = "remove" =>
           \A i \in sweep.todo : recs'[i] # None => i \in sweep'.todo \cup {id}
    <2>. SUFFICES ASSUME sweep.kind = "remove", NEW i \in before PROVE recs'[i] = None
      BY <1>5
    <2>. QED
      BY <1>2, <1>3 DEF Visited
  <1>19. /\ UNCHANGED <<files, index, leases, reservations, op, reader, phase, now, timer,
                         due, failures>>
         /\ sweep.file = None
    BY DEF VisitFile, diskVars, taskVars, envVars
  <1>20. sweep'.todo \subseteq sweep.todo /\ id \notin sweep'.todo /\ sweep' # None
    BY <1>5, Values
  <1>. QED
    BY <1>1, <1>4, <1>5, <1>11, <1>13, <1>14, <1>15, <1>16, <1>17, <1>18, <1>19, <1>20

\* The loop unlinks the file.
LEMMA UnlinkFileMoves ==
  ASSUME IInv, TodoInv, UnlinkFile
  PROVE  /\ UNCHANGED <<index, leases, reservations, op, reader, phase, now, timer,
                        due, failures>>
         /\ sweep # None /\ sweep.file \in Ids /\ sweep.file # None
         /\ sweep' # None /\ sweep'.file = None /\ ~sweep.writing /\ ~sweep'.writing
         /\ sweep'.kind = sweep.kind /\ sweep'.since = sweep.since
         /\ sweep'.todo = sweep.todo
         /\ files' = [files EXCEPT ![sweep.file] = 0]
         /\ \A i \in Ids : i # sweep.file => recs'[i] = recs[i]
         /\ recs'[sweep.file] \in {recs[sweep.file], None}
         /\ sweep.kind = "remove" => recs'[sweep.file] = None
  <1>1. sweep # None /\ sweep \in Loop /\ sweep.file \in Ids /\ sweep.file # None
    BY LoopThere DEF UnlinkFile
  <1>2. ~sweep.writing
    BY <1>1 DEF TodoInv
  <1>3. /\ sweep' \in Loop /\ sweep'.file = None /\ ~sweep'.writing
        /\ sweep'.kind = sweep.kind /\ sweep'.since = sweep.since
        /\ sweep'.todo = sweep.todo
    <2>1. PICK k \in Kinds, t \in SUBSET Ids, f \in Ids \cup {None}, w \in BOOLEAN, s \in Nat :
            sweep = [kind |-> k, todo |-> t, file |-> f, writing |-> w, since |-> s]
      BY <1>1 DEF Loop
    <2>2. sweep' = [kind |-> k, todo |-> t, file |-> None, writing |-> w, since |-> s]
      BY <2>1 DEF UnlinkFile
    <2>3. sweep' \in Loop
      BY <2>1, <2>2 DEF Loop
    <2>. QED
      BY <1>2, <2>1, <2>2, <2>3
  <1>4. /\ \A i \in Ids : i # sweep.file => recs'[i] = recs[i]
        /\ recs'[sweep.file] \in {recs[sweep.file], None}
        /\ sweep.kind = "remove" => recs'[sweep.file] = None
    BY <1>1 DEF UnlinkFile, Visited
  <1>. QED
    BY <1>1, <1>2, <1>3, <1>4, Values DEF UnlinkFile, taskVars, envVars

\* The loop visits what is left.
LEMMA VisitRestMoves ==
  ASSUME IInv, TodoInv, VisitRest
  PROVE  /\ UNCHANGED <<files, index, leases, reservations, op, reader, phase, now, timer,
                        due, failures>>
         /\ sweep # None /\ sweep.file = None
         /\ sweep' # None /\ sweep'.file = None /\ ~sweep.writing /\ sweep'.writing
         /\ sweep'.kind = sweep.kind /\ sweep'.since = sweep.since
         /\ sweep'.todo = {}
         /\ \A i \in Ids : i \in Stored(recs)' <=> i \in Stored(recs)
         /\ \A i \in Ids : recs'[i] # None => recs'[i] = recs[i]
         /\ \A i \in sweep.todo : i \in Stored(recs)' => ~Swept(i)
         /\ sweep.kind = "remove" => \A i \in sweep.todo : recs'[i] = None
  <1>1. sweep # None /\ sweep \in Loop /\ sweep.todo \in SUBSET Ids
    BY LoopThere DEF VisitRest
  <1>2. /\ sweep' \in Loop /\ sweep'.file = None /\ sweep'.writing
        /\ sweep'.kind = sweep.kind /\ sweep'.since = sweep.since
        /\ sweep'.todo = {}
    <2>1. PICK k \in Kinds, t \in SUBSET Ids, f \in Ids \cup {None}, w \in BOOLEAN, s \in Nat :
            sweep = [kind |-> k, todo |-> t, file |-> f, writing |-> w, since |-> s]
      BY <1>1 DEF Loop
    <2>2. sweep' = [kind |-> k, todo |-> {}, file |-> f, writing |-> TRUE, since |-> s]
      BY <2>1 DEF VisitRest
    <2>3. f = None
      BY <2>1 DEF VisitRest
    <2>4. sweep' \in Loop
      BY <2>1, <2>2 DEF Loop
    <2>. QED
      BY <2>1, <2>2, <2>3, <2>4
  <1>3. recs' = Visited(sweep.todo) /\ \A i \in sweep.todo : ~Awaits(i)
    BY DEF VisitRest
  <1>4. \A i \in Ids : i \in Stored(recs)' <=> i \in Stored(recs)
    <2>1. Stored(recs)' = Stored(recs')
      BY DEF Stored, Held
    <2>2. \A i \in Ids : i \in Stored(Visited(sweep.todo)) <=> i \in Stored(recs)
      BY <1>1, <1>3, VisitedStored
    <2>. QED
      BY <1>3, <2>1, <2>2
  <1>5. \A i \in Ids : recs'[i] # None => recs'[i] = recs[i]
    BY <1>1, <1>3, VisitedSame
  <1>6. ASSUME NEW i \in sweep.todo, i \in Stored(recs)'
        PROVE  ~Swept(i)
    <2>1. recs[i].size > 0
      BY <1>1, <1>4, <1>6 DEF Stored
    <2>. QED
      BY <1>3, <1>6, <2>1 DEF Awaits
  <1>7. sweep.kind = "remove" => \A i \in sweep.todo : recs'[i] = None
    BY <1>1, <1>3 DEF Visited
  <1>. QED
    BY <1>1, <1>2, <1>4, <1>5, <1>6, <1>7, Values DEF VisitRest, diskVars, taskVars, envVars

\* Steps of a job leave the loop and its records.
LEMMA JobTodo ==
  ASSUME IInv, TodoInv, NEW id \in Ids, Local(id)
  PROVE  TodoInv'
  <1>1. sweep' = sweep
    BY DEF Local
  <1>2. sweep # None => recs' = recs
    BY LoopThere, Values DEF Local
  <1>. QED
    BY <1>1, <1>2 DEF TodoInv, Held

\* The loop keeps what is said of the jobs and of itself.
LEMMA BareLoop ==
  ASSUME IInv, BareInv, SweepStep
  PROVE  BareInv'
  <1>1. TodoInv /\ \A i \in Ids : BareOK(i)
    BY DEF BareInv
  <1>2. ASSUME NEW id \in Ids, VisitFile(id)
        PROVE  BareInv'
    <2>1. Idle
      BY <1>1, <1>2, VisitFileMoves DEF Idle
    <2>2. \A i \in sweep'.todo : i \in sweep.todo /\ i \in Held(recs) /\ recs'[i] = recs[i]
      BY <1>1, <1>2, VisitFileMoves DEF TodoInv
    <2>3. TodoInv'
      BY <1>1, <1>2, <2>2, VisitFileMoves DEF TodoInv, Held
    <2>. QED
      BY <1>1, <2>1, <2>3, IdleBare DEF BareInv
  <1>3. CASE UnlinkFile
    <2>1. sweep' # None /\ sweep'.todo = sweep.todo /\ ~sweep'.writing
            /\ sweep # None
      BY <1>1, <1>3, UnlinkFileMoves
    <2>2. Idle
      <3>1. PICK f \in Ids : f = sweep.file
        BY <1>1, <1>3, UnlinkFileMoves
      <3>2. /\ op' = op /\ files' = [files EXCEPT ![f] = 0]
            /\ \A i \in Ids : i # f => recs'[i] = recs[i]
            /\ recs'[f] \in {recs[f], None}
        BY <1>1, <1>3, <3>1, UnlinkFileMoves
      <3>3. \A i \in Ids : recs'[i] = recs[i] \/ recs'[i] = None
        BY <3>2
      <3>4. \A i \in Ids : files'[i] \in {0, files[i]}
        BY <3>2 DEF IInv, Typed
      <3>. QED
        BY <3>2, <3>3, <3>4 DEF Idle, Stored, Held
    <2>3. TodoInv'
      <3>1. sweep'.todo \subseteq Held(recs)'
        <4>1. ASSUME NEW i \in sweep.todo
              PROVE  i \in Ids /\ recs'[i] # None
          <5>1. i \in Ids /\ recs[i] # None /\ sweep.file # i
            BY <1>1, <2>1 DEF TodoInv, Held
          <5>. QED
            BY <1>1, <1>3, <5>1, UnlinkFileMoves
        <4>. QED
          BY <2>1, <4>1 DEF Held
      <3>. QED
        BY <1>1, <1>3, <3>1, UnlinkFileMoves, Values DEF TodoInv, Held
    <2>. QED
      BY <1>1, <2>2, <2>3, IdleBare DEF BareInv
  <1>4. CASE VisitRest
    <2>1. Idle
      <3>1. ASSUME NEW i \in Ids, i \in Stored(recs)'
            PROVE  i \in Stored(recs) /\ recs'[i].size = recs[i].size
        <4>1. recs'[i] # None
          BY <3>1 DEF Stored, Held
        <4>. QED
          BY <1>1, <1>4, <3>1, <4>1, VisitRestMoves
      <3>2. op' = op /\ files' = files
        BY <1>1, <1>4, VisitRestMoves
      <3>. QED
        BY <3>1, <3>2 DEF Idle
    <2>2. TodoInv'
      BY <1>1, <1>4, VisitRestMoves DEF TodoInv
    <2>. QED
      BY <1>1, <2>1, <2>2, IdleBare DEF BareInv
  <1>5. CASE EndSweep
    <2>1. sweep' = None /\ UNCHANGED <<files, recs, op>>
      BY <1>5 DEF EndSweep, taskVars
    <2>2. Idle
      BY <2>1 DEF Idle, Stored, Held
    <2>. QED
      BY <1>1, <2>1, <2>2, IdleBare DEF BareInv, TodoInv
  <1>. QED
    BY <1>2, <1>3, <1>4, <1>5 DEF SweepStep

\* The steps that neither belong to a job nor to a loop.
LEMMA BareOther ==
  ASSUME IInv, BareInv,
         \/ \E r \in Readers : (\E id \in Ids : Open(r, id)) \/ Verified(r) \/ Close(r)
         \/ \E x \in Ids \cup Readers \cup {"timer"} : BeginSweep(x)
         \/ (\E id \in Attachments : Answer(id)) \/ UNCHANGED vars
         \/ Start \/ Stop \/ Remove \/ Crash \/ Load \/ Loaded \/ Tick
  PROVE  BareInv'
  <1>1. TodoInv /\ \A i \in Ids : BareOK(i)
    BY DEF BareInv
  <1>2. ASSUME UNCHANGED <<files, recs, op, sweep>>
        PROVE  BareInv'
    <2>1. Idle /\ TodoInv'
      BY <1>1, <1>2 DEF Idle, TodoInv, Stored, Held
    <2>. QED
      BY <1>1, <2>1, IdleBare DEF BareInv
  <1>3. ASSUME sweep' = [kind |-> sweep'.kind, todo |-> Held(recs), file |-> None,
                         writing |-> FALSE, since |-> now],
               UNCHANGED <<files, recs>>,
               \A i \in Ids : op'[i] \in {op[i], None}
        PROVE  BareInv'
    <2>1. Idle
      BY <1>3 DEF Idle, Stored, Held
    <2>2. sweep'.todo = Held(recs) /\ sweep'.file = None /\ sweep'.writing = FALSE
      BY <1>3
    <2>3. TodoInv'
      BY <1>3, <2>2, Values DEF TodoInv, Held
    <2>. QED
      BY <1>1, <2>1, <2>3, IdleBare DEF BareInv
  <1>4. ASSUME sweep' = None, op' = Empty
        PROVE  BareInv'
    <2>1. Idle
      BY <1>4 DEF Idle, Empty
    <2>. QED
      BY <1>1, <1>4, <2>1, IdleBare DEF BareInv, TodoInv
  <1>5. ASSUME NEW r \in Readers, (\E id \in Ids : Open(r, id)) \/ Verified(r) \/ Close(r)
        PROVE  BareInv'
    BY <1>2, <1>5 DEF Open, Verified, Close, diskVars, storeVars, sweepVars
  <1>6. ASSUME NEW x \in Ids \cup Readers \cup {"timer"}, BeginSweep(x)
        PROVE  BareInv'
    <2>1. sweep' = NewLoop("clean") /\ UNCHANGED <<files, recs>>
      BY <1>6 DEF BeginSweep, diskVars
    <2>2. \A i \in Ids : op'[i] \in {op[i], None}
      BY <1>6, Ends DEF BeginSweep, taskVars, At, IInv
    <2>. QED
      BY <1>3, <2>1, <2>2 DEF NewLoop
  <1>7. CASE Start \/ Stop \/ Tick
    BY <1>2, <1>7 DEF Start, Stop, Tick, diskVars, storeVars, taskVars, sweepVars
  <1>8. CASE Remove
    <2>1. sweep' = NewLoop("remove") /\ UNCHANGED <<files, recs, op>>
      BY <1>8 DEF Remove, diskVars, taskVars
    <2>. QED
      BY <1>3, <2>1 DEF NewLoop
  <1>9. CASE Crash
    BY <1>4, <1>9 DEF Crash
  <1>10. CASE Load
    BY <1>4, <1>10, Quiet DEF Load, taskVars, sweepVars
  <1>11. CASE Loaded
    BY <1>4, <1>11, Quiet DEF Loaded, taskVars
  <1>12. CASE UNCHANGED vars \/ \E id \in Attachments : Answer(id)
    BY <1>2, <1>12 DEF Answer, vars, diskVars, storeVars, taskVars, sweepVars
  <1>. QED
    BY <1>5, <1>6, <1>7, <1>8, <1>9, <1>10, <1>11, <1>12

\* Every step does.
LEMMA BareKept ==
  ASSUME IInv, BareInv, [Next]_vars
  PROVE  BareInv'
  <1>1. TodoInv /\ \A i \in Ids : BareOK(i)
    BY DEF BareInv
  <1>2. ASSUME NEW id \in Ids,
               (id \in Attachments /\ Observe(id)) \/ Get(id) \/ Stage(id) \/ JobStep(id)
        PROVE  BareInv'
    <2>1. Local(id) /\ BareOK(id)' /\ TodoInv'
      BY <1>1, <1>2, JobLocal, BareJob, JobTodo
    <2>2. ASSUME NEW i \in Ids, i # id
          PROVE  BareOK(i)'
      <3>1. op'[i] = op[i] /\ recs'[i] = recs[i] /\ files'[i] = files[i] /\ BareOK(i)
        BY <1>1, <2>1, <2>2 DEF Local
      <3>2. Place(i)' = Place(i) /\ (i \in Stored(recs)' <=> i \in Stored(recs))
        BY <3>1, SameStored DEF Place
      <3>. QED
        BY <3>1, <3>2 DEF BareOK
    <2>. QED
      BY <2>1, <2>2 DEF BareInv
  <1>3. \A id \in Attachments : id \in Ids
    BY Values
  <1>. QED
    BY <1>2, <1>3, BareLoop, BareOther DEF Next

-----------------------------------------------------------------------------
(***************************************************************************)
(* Answers and readers                                                     *)
(***************************************************************************)

\* A file was saved as it is on disk, unless somebody works on it.
Filed(id) ==
  (/\ phase # "down" /\ id \in Stored(recs) /\ ~Expired(recs[id])
   /\ Place(id) \in {"none", "observe", "expired"}) =>
    /\ index[id] # None /\ index[id].exp = recs[id].exp
    /\ index[id].size = recs[id].size /\ files[id] = recs[id].size

FiledInv == \A id \in Ids : Filed(id)

\* What a transfer saves is what it wrote.
LEMMA SavingFile ==
  ASSUME IInv, NEW id \in Ids, At(id, "saving")
  PROVE  recs[id] # None /\ files[id] > 0 /\ recs[id].size = files[id]
  <1>1. op[id] # None /\ op[id].at = "saving" /\ JobOK(id, op[id])
    BY Job1 DEF At
  <1>2. PICK e \in Nat, z \in Nat :
          z > 0 /\ files[id] = z /\ recs[id] = [exp |-> e, size |-> z]
    BY <1>1, JobFields DEF JobOK, Filled, IInv
  <1>3. recs[id] # None
    <2>1. [exp |-> e, size |-> z] \in Record
      BY DEF Record
    <2>. QED
      BY <1>2, <2>1, Values
  <1>. QED
    BY <1>2, <1>3

\* A step of a job.
LEMMA FiledJob ==
  ASSUME IInv, NEW id \in Ids, BareOK(id), Filed(id), phase = "up",
         Observe(id) \/ Get(id) \/ Stage(id) \/ JobStep(id), Local(id)
  PROVE  Filed(id)'
  <1>. SUFFICES ASSUME id \in Stored(recs)', ~Expired(recs[id])',
                       Place(id)' \in {"none", "observe", "expired"}
                PROVE  /\ index'[id] # None /\ index'[id].exp = recs'[id].exp
                       /\ index'[id].size = recs'[id].size /\ files'[id] = recs'[id].size
    BY DEF Filed
  <1>1. CASE Observe(id) \/ Recognize(id)
    <2>1. UNCHANGED <<recs, index, files>> /\ Place(id) \in {"none", "observe"}
      BY <1>1, Places DEF Observe, Recognize, diskVars, storeVars
    <2>2. id \in Stored(recs) /\ ~Expired(recs[id])
      BY <2>1, SameStored DEF Local, Expired
    <2>. QED
      BY <2>1, <2>2 DEF Filed
  <1>2. CASE Remembered(id)
    <2>1. id \notin Stored(recs)
      BY <1>2, Places DEF BareOK, Bare
    <2>2. recs'[id] = recs[id] /\ recs'[id] # None
      BY <1>2, JobRecord DEF Stored, Held
    <2>. QED
      BY <2>1, <2>2, SameStored
  <1>3. CASE Saved(id)
    <2>1. recs[id].size = files[id]
      BY <1>3, SavingFile DEF Saved
    <2>2. UNCHANGED <<recs, files>> /\ index' = recs
      BY <1>3 DEF Saved, Persist
    <2>3. id \in Stored(recs)
      BY <2>2, SameStored
    <2>. QED
      BY <2>1, <2>2, <2>3 DEF Stored, Held
  <1>4. CASE Refused(id) \/ GiveUp(id) \/ Broken(id) \/ Discard(id) \/ Undone(id)
    <2>1. Place(id) \in Bare \/ (id \in Attachments /\ Place(id) = "discard")
      BY <1>4, Places DEF Bare, Early, Discard
    <2>2. recs' = recs
      BY <1>4, QuietRecords DEF Quietly
    <2>. QED
      BY <2>1, <2>2, SameStored DEF BareOK
  <1>5. ~Get(id) /\ ~Stage(id) /\ ~Remember(id) /\ ~FetchBegins(id) /\ ~StageBegins(id)
          /\ ~Reserve(id) /\ ~Create(id) /\ ~Streamed(id) /\ ~Checked(id) /\ ~Rejected(id)
          /\ ~Commit(id) /\ ~NotSaved(id) /\ ~Undo(id) /\ ~Unlinked(id)
    BY Places
  <1>. QED
    BY <1>1, <1>2, <1>3, <1>4, <1>5 DEF JobStep

\* A step that gives no record a file, and no file other bytes.
LEMMA FiledSame ==
  ASSUME Typed, Typed', FiledInv, phase' # "down" => phase # "down", now <= now',
         \A i \in Ids : op'[i] = op[i] \/ (op'[i] = None /\ Place(i) = "expired"),
         \A i \in Ids : index'[i] \in {index[i], recs[i]},
         \A i \in Ids : i \in Stored(recs)' => recs'[i] = recs[i] /\ files'[i] = files[i]
  PROVE  FiledInv'
  <1>. SUFFICES ASSUME NEW i \in Ids, phase' # "down", i \in Stored(recs)',
                       ~Expired(recs[i])', Place(i)' \in {"none", "observe", "expired"}
                PROVE  /\ index'[i] # None /\ index'[i].exp = recs'[i].exp
                       /\ index'[i].size = recs'[i].size /\ files'[i] = recs'[i].size
    BY DEF FiledInv, Filed
  <1>1. i \in Stored(recs) /\ recs'[i] = recs[i] /\ files'[i] = files[i] /\ recs[i] # None
    BY SameStored DEF Stored, Held
  <1>2. ~Expired(recs[i])
    <2>1. PICK e \in Nat : e = recs[i].exp
      BY <1>1 DEF Typed, Record
    <2>2. now \in Nat /\ now' \in Nat /\ ~(e <= now')
      BY <1>1, <2>1 DEF Typed, Expired
    <2>. QED
      BY <2>1, <2>2 DEF Expired
  <1>3. Place(i) \in {"none", "observe", "expired"}
    BY DEF Place
  <1>4. /\ index[i] # None /\ index[i].exp = recs[i].exp
        /\ index[i].size = recs[i].size /\ files[i] = recs[i].size
    BY <1>1, <1>2, <1>3 DEF FiledInv, Filed
  <1>. QED
    BY <1>1, <1>4

\* Every step keeps files saved.
LEMMA FiledStep ==
  ASSUME IInv, BareInv, FiledInv, Typed', [Next]_vars
  PROVE  FiledInv'
  <1>1. Typed /\ now \in Nat /\ TodoInv
    BY DEF IInv, Typed, BareInv
  <1>2. ASSUME NEW id \in Ids,
               (id \in Attachments /\ Observe(id)) \/ Get(id) \/ Stage(id) \/ JobStep(id)
        PROVE  FiledInv'
    <2>1. phase = "up" /\ Local(id)
      BY <1>2, JobLocal
    <2>2. Filed(id)'
      BY <1>2, <2>1, FiledJob DEF BareInv, FiledInv
    <2>3. ASSUME NEW i \in Ids, i # id
          PROVE  Filed(i)'
      <3>1. /\ op'[i] = op[i] /\ recs'[i] = recs[i] /\ files'[i] = files[i] /\ Filed(i)
            /\ index'[i] \in {index[i], recs[i]} /\ now' = now /\ phase' = phase
        BY <2>1, <2>3 DEF Local, FiledInv
      <3>2. Place(i)' = Place(i) /\ (i \in Stored(recs)' <=> i \in Stored(recs))
        BY <3>1, SameStored DEF Place
      <3>. QED
        BY <3>1, <3>2 DEF Filed, Expired, Stored, Held
    <2>. QED
      BY <2>2, <2>3 DEF FiledInv
  <1>3. ASSUME UNCHANGED <<recs, files, index>>, phase' # "down" => phase # "down",
               now' \in {now, now + 1},
               \A i \in Ids : op'[i] = op[i] \/ (op'[i] = None /\ Place(i) = "expired")
        PROVE  FiledInv'
    <2>1. now <= now'
      BY <1>1, <1>3
    <2>. QED
      BY <1>1, <1>3, <2>1, FiledSame
  <1>4. ASSUME NEW r \in Readers, (\E id \in Ids : Open(r, id)) \/ Verified(r) \/ Close(r)
        PROVE  FiledInv'
    BY <1>3, <1>4 DEF Open, Verified, Close, diskVars, storeVars, envVars
  <1>5. ASSUME NEW x \in Ids \cup Readers \cup {"timer"}, BeginSweep(x)
        PROVE  FiledInv'
    <2>1. UNCHANGED <<recs, files, index, phase, now>>
      BY <1>5 DEF BeginSweep, diskVars, envVars
    <2>2. \A i \in Ids : op'[i] = op[i] \/ (op'[i] = None /\ Place(i) = "expired")
      BY <1>1, <1>5, Ends DEF BeginSweep, taskVars, At, Place
    <2>. QED
      BY <1>3, <2>1, <2>2
  <1>6. ASSUME NEW id \in Ids, VisitFile(id)
        PROVE  FiledInv'
    <2>1. /\ UNCHANGED <<files, index, op, phase, now>>
          /\ \A i \in Ids : i \in Stored(recs)' => recs'[i] = recs[i]
      BY <1>1, <1>6, VisitFileMoves
    <2>. QED
      BY <1>1, <2>1, FiledSame
  <1>7. CASE UnlinkFile
    <2>1. PICK f \in Ids : f = sweep.file
      BY <1>1, <1>7, UnlinkFileMoves
    <2>2. /\ UNCHANGED <<index, op, phase, now>> /\ files' = [files EXCEPT ![f] = 0]
          /\ \A i \in Ids : i # f => recs'[i] = recs[i]
          /\ recs'[f] \in {recs[f], None}
          /\ sweep.kind = "remove" => recs'[f] = None
      BY <1>1, <1>7, <2>1, UnlinkFileMoves
    <2>3. f \notin Stored(recs)'
      <3>1. sweep # None /\ sweep.kind \in {"clean", "remove"}
        BY <1>7, LoopThere DEF UnlinkFile, Kinds
      <3>2. sweep.kind = "clean" => recs[f].size = 0
        BY <2>1, <3>1 DEF IInv, SweepInv, Unlinks
      <3>. QED
        BY <2>2, <3>1, <3>2 DEF Stored, Held
    <2>4. \A i \in Ids : i # f => files'[i] = files[i]
      BY <1>1, <2>2 DEF Typed
    <2>. QED
      BY <1>1, <2>2, <2>3, <2>4, FiledSame
  <1>8. CASE VisitRest
    <2>1. /\ UNCHANGED <<files, index, op, phase, now>>
          /\ \A i \in Ids : recs'[i] # None => recs'[i] = recs[i]
      BY <1>1, <1>8, VisitRestMoves
    <2>2. \A i \in Ids : i \in Stored(recs)' => recs'[i] = recs[i]
      BY <2>1 DEF Stored, Held
    <2>. QED
      BY <1>1, <2>1, <2>2, FiledSame
  <1>9. CASE EndSweep
    <2>1. UNCHANGED <<files, recs, op, phase, now>> /\ index' \in {index, recs}
      BY <1>9 DEF EndSweep, Persist, taskVars, envVars
    <2>. QED
      BY <1>1, <2>1, FiledSame
  <1>10. CASE Start \/ Stop \/ Remove \/ Tick \/ (\E id \in Attachments : Answer(id))
              \/ UNCHANGED vars
    BY <1>3, <1>10
       DEF Start, Stop, Remove, Tick, Answer, vars, diskVars, storeVars, taskVars, envVars
  <1>11. CASE Crash
    <2>1. phase' = "down"
      BY <1>11 DEF Crash
    <2>. QED
      BY <2>1 DEF FiledInv, Filed
  <1>12. CASE Load
    <2>. SUFFICES ASSUME NEW i \in Ids, i \in Stored(recs)', ~Expired(recs[i])'
                  PROVE  /\ index'[i] # None /\ index'[i].exp = recs'[i].exp
                         /\ index'[i].size = recs'[i].size /\ files'[i] = recs'[i].size
      BY DEF FiledInv, Filed
    <2>1. recs'[i] # None /\ recs'[i].size > 0 /\ index' = index
      BY <1>12 DEF Stored, Held, Load
    <2>2. index[i] # None /\ ~Over(index[i])
      BY <1>12, <2>1 DEF Load
    <2>3. recs'[i] = index[i] /\ files[i] = index[i].size
      <3>1. PICK e \in Nat, z \in Nat : index[i] = [exp |-> e, size |-> z]
        BY <1>1, <2>2 DEF Typed, Record
      <3>2. [index[i] EXCEPT !.size = 0].size = 0
        BY <3>1
      <3>3. recs'[i] = IF ~Expired(index[i]) /\ files[i] = index[i].size THEN index[i]
                       ELSE [index[i] EXCEPT !.size = 0]
        BY <1>12, <2>2 DEF Load
      <3>. QED
        BY <2>1, <3>2, <3>3
    <2>4. files'[i] = files[i]
      <3>1. Stored(recs)' = Stored(recs')
        BY DEF Stored, Held
      <3>2. i \in Stored(recs')
        BY <3>1
      <3>. QED
        BY <1>12, <3>2 DEF Load
    <2>. QED
      BY <2>1, <2>2, <2>3, <2>4
  <1>13. CASE Loaded
    <2>1. UNCHANGED <<files, op, now>> /\ phase = "loading" /\ index' \in {index, recs}
      BY <1>13 DEF Loaded, Persist, taskVars, envVars
    <2>2. CASE phase' = "down"
      BY <2>2 DEF FiledInv, Filed
    <2>3. CASE recs' = recs
      BY <1>1, <2>1, <2>3, FiledSame
    <2>. QED
      BY <1>13, <2>2, <2>3 DEF Loaded
  <1>14. \A id \in Attachments : id \in Ids
    BY Values
  <1>. QED
    BY <1>2, <1>4, <1>5, <1>6, <1>7, <1>8, <1>9, <1>10, <1>11, <1>12, <1>13, <1>14
       DEF Next, SweepStep

\* Whoever asks for a file is told of one that was saved, or of one that is being saved.
LEMMA AnswerStep ==
  ASSUME IInv, BareInv, FiledInv, NEW id \in Attachments, Answer(id)
  PROVE  IInv'
  <1>1. /\ UNCHANGED <<files, index, recs, leases, lock, op, reader, sweep, timer, due, phase,
                       enabled, now>>
        /\ enabled /\ recs[id] # None /\ ~Expired(recs[id]) /\ recs[id].size > 0
        /\ told' = IF At(id, "saving") THEN told
                   ELSE [told EXCEPT ![id] = [exp |-> recs[id].exp, file |-> TRUE]]
    BY DEF Answer, diskVars, storeVars, taskVars, sweepVars
  <1>2. Typed /\ id \in Ids /\ phase = "up" /\ ~Removing /\ id \in Stored(recs)
    BY <1>1, Up, Values, IsStored DEF IInv, RemoveInv
  <1>3. PICK e \in Nat : e = recs[id].exp
    BY <1>1, <1>2 DEF Typed, Record
  <1>4. [exp |-> e, file |-> TRUE] \in Promise /\ [exp |-> e, file |-> TRUE] # None
    <2>1. [exp |-> e, file |-> TRUE] \in Promise
      BY DEF Promise
    <2>. QED
      BY <2>1, Values
  <1>5. Typed'
    <2>1. told' \in [Ids -> Promise \cup {None}]
      BY <1>1, <1>2, <1>3, <1>4 DEF Typed
    <2>. QED
      BY <1>1, <1>2, <2>1 DEF Typed
  <1>6. StartInv' /\ LockInv' /\ RemoveInv' /\ SweepInv'
    BY <1>1, <1>2
       DEF IInv, StartInv, LockInv, RemoveInv, Removing, SweepInv, Unlinks, Expired, Leased
  <1>7. \A i \in Ids : LeaseOK(i)'
    BY <1>1, SameLease DEF Leased
  <1>8. CASE At(id, "saving")
    <2>1. ReadInv'
      BY <1>1, <1>8 DEF IInv, ReadInv, Reads, Whole
    <2>2. IdInv'
      BY <1>1, <1>7, <1>8, SameIds DEF IdInv
    <2>. QED
      BY <1>5, <1>6, <2>1, <2>2 DEF IInv
  <1>9. CASE ~At(id, "saving")
    <2>1. /\ told'[id] # None /\ told'[id].exp = recs[id].exp /\ told'[id].file = TRUE
          /\ \A i \in Ids : i # id => told'[i] = told[i]
      <3>1. told' = [told EXCEPT ![id] = [exp |-> e, file |-> TRUE]]
        BY <1>1, <1>3, <1>9
      <3>2. told'[id] = [exp |-> e, file |-> TRUE]
        BY <1>2, <3>1 DEF Typed
      <3>3. told'[id].exp = e /\ told'[id].file = TRUE
        BY <3>2
      <3>4. \A i \in Ids : i # id => told'[i] = told[i]
        BY <1>2, <3>1 DEF Typed
      <3>. QED
        BY <1>3, <1>4, <3>2, <3>3, <3>4
    <2>2. op[id] # None => op[id].at \in {"observe", "expired"}
      <3>. SUFFICES ASSUME op[id] # None PROVE op[id].at \in {"observe", "expired"}
        OBVIOUS
      <3>1. Place(id) = op[id].at /\ JobOK(id, op[id]) /\ BareOK(id)
        BY <1>2, Job1 DEF Place, BareInv
      <3>2. op[id].at \notin Bare \cup {"discard", "saving"}
        BY <1>2, <1>9, <3>1 DEF BareOK, At
      <3>. QED
        BY <3>1, <3>2 DEF JobOK, Observing, Moving, Leasing, Bare, Early
    <2>3. /\ index[id] # None /\ index[id].exp = recs[id].exp
          /\ index[id].size = recs[id].size /\ files[id] = recs[id].size
      <3>1. Place(id) \in {"none", "observe", "expired"}
        BY <2>2 DEF Place
      <3>. QED
        BY <1>1, <1>2, <3>1 DEF FiledInv, Filed
    <2>4. Whole(id)'
      BY <1>1, <2>3 DEF Whole
    <2>5. RecordOK(id)' /\ (op'[id] # None => JobOK(id, op[id])')
      <3>1. RecordOK(id)'
        BY <1>1, <2>1, <2>3, <1>2
           DEF RecordOK, SameOK, SavedOK, PromiseOK, At, Expired, IInv, IdInv
      <3>2. op'[id] # None => JobOK(id, op[id])'
        <4>. SUFFICES ASSUME op[id] # None PROVE JobOK(id, op[id])'
          BY <1>1
        <4>1. JobOK(id, op[id]) /\ op[id].at \in {"observe", "expired"}
          BY <1>2, <2>2, Job1
        <4>2. id \notin Uploads
          BY Values
        <4>. QED
          BY <1>1, <4>1, <4>2
             DEF JobOK, Observing, Moving, Leasing, Early, Filled, Locking, Expired
      <3>. QED
        BY <3>1, <3>2
    <2>6. ASSUME NEW i \in Ids, i # id
          PROVE  RecordOK(i)' /\ (op'[i] # None => JobOK(i, op[i])') /\ (Whole(i)' <=> Whole(i))
      <3>1. RecordOK(i) /\ (op[i] # None => JobOK(i, op[i])) /\ told'[i] = told[i]
        BY <2>1, <2>6 DEF IInv, IdInv
      <3>2. SameOK(i)' /\ SavedOK(i)' /\ PromiseOK(i)'
        <4>1. SameOK(i)'
          BY <1>1, <3>1 DEF RecordOK, SameOK, At
        <4>2. SavedOK(i)'
          BY <1>1, <3>1 DEF RecordOK, SavedOK, At
        <4>3. PromiseOK(i)'
          BY <1>1, <3>1 DEF RecordOK, PromiseOK, At, Expired
        <4>. QED
          BY <4>1, <4>2, <4>3
      <3>3. op'[i] # None => JobOK(i, op[i])'
        BY <1>1, <3>1
           DEF JobOK, Observing, Moving, Leasing, Early, Filled, Locking, Expired
      <3>4. Whole(i)' <=> Whole(i)
        BY <1>1, <3>1 DEF Whole
      <3>. QED
        BY <3>2, <3>3, <3>4 DEF RecordOK
    <2>7. ReadInv'
      BY <1>1, <2>4, <2>6 DEF IInv, ReadInv, Reads
    <2>8. IdInv'
      BY <1>7, <2>5, <2>6 DEF IdInv
    <2>. QED
      BY <1>5, <1>6, <2>7, <2>8 DEF IInv
  <1>. QED
    BY <1>8, <1>9

\* Every step keeps the invariant.
LEMMA StepKeeps ==
  ASSUME IInv, BareInv, FiledInv, [Next]_vars
  PROVE  IInv'
  <1>1. ASSUME NEW id \in Ids, Get(id) \/ Stage(id) \/ JobStep(id)
        PROVE  IInv'
    BY <1>1, JobsKeep
  <1>2. ASSUME NEW id \in Attachments, Observe(id)
        PROVE  IInv'
    <2>1. id \in Ids
      BY Values
    <2>. QED
      BY <1>2, <2>1, JobsKeep
  <1>3. ASSUME NEW r \in Readers, (\E id \in Ids : Open(r, id)) \/ Verified(r) \/ Close(r)
        PROVE  IInv'
    BY <1>3, OpenStep, VerifiedStep, CloseStep
  <1>4. ASSUME NEW x \in Ids \cup Readers \cup {"timer"}, BeginSweep(x)
        PROVE  IInv'
    BY <1>4, BeginSweepStep
  <1>5. CASE SweepStep
    BY <1>5, VisitFileStep, UnlinkFileStep, VisitRestStep, EndSweepStep DEF SweepStep
  <1>6. CASE UNCHANGED vars
    <2>1. UNCHANGED <<files, index, recs, leases, lock, op, reader, sweep, timer, due, phase,
                      enabled, told, now>>
      BY <1>6 DEF vars, diskVars, storeVars, taskVars, sweepVars, envVars
    <2>2. Typed' /\ StartInv' /\ LockInv' /\ RemoveInv'
      BY <2>1 DEF IInv, Typed, StartInv, LockInv, RemoveInv, Removing, Drained
    <2>3. SweepInv' /\ ReadInv'
      BY <2>1 DEF IInv, SweepInv, Unlinks, Expired, Leased, ReadInv, Reads, Whole
    <2>4. IdInv'
      <3>1. \A i \in Ids : LeaseOK(i)'
        BY <2>1, SameLease DEF Leased
      <3>. QED
        BY <2>1, <3>1, SameIds DEF IdInv
    <2>. QED
      BY <2>2, <2>3, <2>4 DEF IInv
  <1>. QED
    BY <1>1, <1>2, <1>3, <1>4, <1>5, <1>6, SwitchStep, RemoveStep, CrashStep, LoadStep,
       LoadedStep, TickStep, AnswerStep DEF Next

\* The inductive invariant: jobs, leases, records and promises of every id agree, over
\* answers, saves that fail, expiries, removals, crashes and starts.
THEOREM InvariantHolds == Spec => [](IInv /\ BareInv /\ FiledInv)
  <1>1. Init => IInv
    BY InitHolds
  <1>2. Init => BareInv
    BY DEF Init, Empty, Zeros, BareInv, TodoInv, BareOK, Place, Bare, Early, Stored, Held
  <1>3. Init => FiledInv
    BY DEF Init, FiledInv, Filed
  <1>4. IInv /\ BareInv /\ FiledInv /\ [Next]_vars => IInv'
    BY StepKeeps
  <1>5. IInv /\ BareInv /\ [Next]_vars => BareInv'
    BY BareKept
  <1>6. IInv /\ BareInv /\ FiledInv /\ [Next]_vars => FiledInv'
    <2>. SUFFICES ASSUME IInv, BareInv, FiledInv, [Next]_vars PROVE FiledInv'
      OBVIOUS
    <2>1. Typed'
      BY StepKeeps DEF IInv
    <2>. QED
      BY <2>1, FiledStep
  <1>. QED
    BY <1>1, <1>2, <1>3, <1>4, <1>5, <1>6, PTL DEF Spec

\* What was called retrievable or ready is in the index, and its file on disk, until it
\* expires.
THEOREM ToldIsDurableHolds == Spec => []ToldIsDurable
  <1>1. IInv => ToldIsDurable
    <2>. SUFFICES ASSUME IInv, NEW id \in Ids, told[id] # None, told[id].exp > now
                  PROVE  /\ index[id] # None /\ index[id].exp = told[id].exp
                         /\ told[id].file => (index[id].size > 0 /\ files[id] = index[id].size)
      BY DEF ToldIsDurable
    <2>1. told[id].exp \in Nat /\ now \in Nat
      BY DEF IInv, Typed, Promise
    <2>2. ~Expired(told[id])
      BY <2>1 DEF Expired
    <2>. QED
      BY <2>2 DEF IInv, IdInv, RecordOK, SameOK, PromiseOK
  <1>. QED
    BY <1>1, InvariantHolds, PTL

-----------------------------------------------------------------------------
(***************************************************************************)
(* Readers                                                                 *)
(***************************************************************************)

\* The file of id is whole, and no upload is at work on it.
Intact(id) ==
  /\ recs[id] # None /\ files[id] > 0 /\ recs[id].size = files[id]
  /\ id \in Uploads => op[id] = None

KeepInv ==
  \A r \in Readers, id \in Ids : Reads(r, id) /\ r \notin withdrawn => Intact(id)

\* Whoever reads has a lease.
LEMMA ReadsUnswept ==
  ASSUME IInv, NEW r \in Readers, NEW id \in Ids, Reads(r, id)
  PROVE  phase = "up" /\ ~Removing /\ ~Swept(id)
  BY ReaderThere, SweptFree DEF Reads

\* A job leaves a whole file, unless it cannot save it.
LEMMA KeepJob ==
  ASSUME IInv, NEW id \in Ids, BareOK(id), Intact(id), ~NotSaved(id),
         (id \in Attachments /\ Observe(id)) \/ Get(id) \/ Stage(id) \/ JobStep(id)
  PROVE  Intact(id)'
  <1>1. id \in Stored(recs) /\ recs[id] # None /\ recs[id].size > 0
    BY IsStored DEF Intact
  <1>2. Place(id) \notin Bare /\ (id \in Attachments => Place(id) # "discard")
    BY <1>1 DEF BareOK
  <1>3. ~Get(id) /\ ~Stage(id) /\ ~Remember(id)
    BY <1>1 DEF Get, Stage, Remember
  <1>4. Place(id) \in {"none", "observe", "saving", "discard"}
    BY <1>2, <1>3, Places DEF JobStep, Bare, Early
  <1>5. id \in Attachments /\ id \notin Uploads /\ Place(id) # "discard"
    <2>1. CASE id \in Uploads
      <3>1. Place(id) = "none"
        BY <2>1 DEF Intact, Place
      <3>. QED
        BY <1>3, <2>1, <3>1, Places, Values DEF JobStep
    <2>. QED
      BY <1>2, <2>1, Values
  <1>6. Observe(id) \/ Recognize(id) \/ Saved(id)
    BY <1>2, <1>3, <1>4, <1>5, Places DEF JobStep, Bare, Early
  <1>7. UNCHANGED <<recs, files>>
    BY <1>6 DEF Observe, Recognize, Saved, diskVars, storeVars
  <1>. QED
    BY <1>5, <1>7 DEF Intact

\* Every step leaves what is read, or knows whose file it took.
LEMMA KeepStep ==
  ASSUME IInv, BareInv, FiledInv, KeepInv, [Next]_vars
  PROVE  KeepInv'
  <1>1. Typed /\ TodoInv /\ \A id \in Ids : BareOK(id)
    BY DEF IInv, BareInv
  <1>2. ASSUME NEW id \in Ids,
               (id \in Attachments /\ Observe(id)) \/ Get(id) \/ Stage(id) \/ JobStep(id)
        PROVE  KeepInv'
    <2>. SUFFICES ASSUME NEW r \in Readers, NEW i \in Ids, Reads(r, i)', r \notin withdrawn'
                  PROVE  Intact(i)'
      BY DEF KeepInv
    <2>1. Local(id) /\ Reads(r, i)
      BY <1>2, JobLocal DEF Local, Reads
    <2>2. withdrawn' = withdrawn \/ (NotSaved(id) /\ withdrawn' = withdrawn \cup Using(id))
      BY <1>2
         DEF Observe, Get, Stage, JobStep, Remember, Recognize, Remembered, FetchBegins,
             StageBegins, Refused, Reserve, GiveUp, Create, Streamed, Broken, Checked,
             Rejected, Commit, Saved, NotSaved, Discard, Undo, Unlinked, Undone, envVars
    <2>3. Intact(i)
      BY <2>1, <2>2 DEF KeepInv
    <2>4. CASE i # id
      BY <2>1, <2>3, <2>4 DEF Local, Intact
    <2>5. CASE i = id
      <3>1. ~NotSaved(id)
        <4>1. NotSaved(id) => withdrawn' = withdrawn \cup Using(id)
          BY DEF NotSaved
        <4>. QED
          BY <2>1, <2>5, <4>1 DEF Using
      <3>. QED
        BY <1>1, <1>2, <2>3, <2>5, <3>1, KeepJob
    <2>. QED
      BY <2>4, <2>5
  <1>3. ASSUME NEW r \in Readers, NEW id \in Ids, Open(r, id)
        PROVE  KeepInv'
    <2>. SUFFICES ASSUME NEW s \in Readers, NEW i \in Ids, Reads(s, i)', s \notin withdrawn'
                  PROVE  Intact(i)'
      BY DEF KeepInv
    <2>1. /\ UNCHANGED <<files, recs, op>> /\ withdrawn' = withdrawn \ {r}
          /\ reader' = [reader EXCEPT ![r] = [id |-> id, at |-> "verify"]]
          /\ recs[id] # None /\ ~Expired(recs[id]) /\ recs[id].size > 0
          /\ id \in Uploads => op[id] = None
      BY <1>3 DEF Open, diskVars
    <2>2. CASE s # r
      <3>1. reader'[s] = reader[s] /\ s \notin withdrawn
        BY <1>1, <2>1, <2>2 DEF Typed
      <3>2. Reads(s, i)
        BY <3>1 DEF Reads
      <3>. QED
        BY <2>1, <3>1, <3>2 DEF KeepInv, Intact
    <2>3. CASE s = r
      <3>1. i = id
        <4>1. reader'[s] = [id |-> id, at |-> "verify"]
          BY <1>1, <2>1, <2>3 DEF Typed
        <4>2. reader'[s].id = id
          BY <4>1
        <4>. QED
          BY <4>2 DEF Reads
      <3>2. files[id] > 0 /\ recs[id].size = files[id]
        <4>1. CASE At(id, "saving")
          BY <4>1, SavingFile
        <4>2. CASE ~At(id, "saving")
          <5>1. id \in Stored(recs) /\ phase = "up"
            BY <1>3, <2>1, IsStored, Up DEF Open
          <5>2. Place(id) \in {"none", "observe", "expired"}
            <6>1. CASE op[id] = None
              BY <6>1 DEF Place
            <6>2. CASE op[id] # None
              <7>1. Place(id) = op[id].at /\ JobOK(id, op[id]) /\ id \in Attachments
                BY <2>1, <6>2, Job1, Values DEF Place
              <7>2. op[id].at \notin Bare \cup {"discard", "saving"}
                BY <1>1, <4>2, <5>1, <6>2, <7>1 DEF BareOK, At
              <7>. QED
                BY <7>1, <7>2 DEF JobOK, Observing, Moving, Leasing, Bare, Early
            <6>. QED
              BY <6>1, <6>2
          <5>. QED
            BY <2>1, <5>1, <5>2 DEF FiledInv, Filed
        <4>. QED
          BY <4>1, <4>2
      <3>. QED
        BY <2>1, <3>1, <3>2 DEF Intact
    <2>. QED
      BY <2>2, <2>3
  <1>4. ASSUME NEW r \in Readers, Verified(r) \/ Close(r)
        PROVE  KeepInv'
    <2>1. UNCHANGED <<files, recs, op, withdrawn>>
      BY <1>4 DEF Verified, Close, diskVars, storeVars, envVars
    <2>2. ASSUME NEW s \in Readers, NEW i \in Ids, Reads(s, i)'
          PROVE  Reads(s, i)
      <3>1. CASE s # r
        <4>1. reader'[s] = reader[s]
          BY <1>1, <1>4, <3>1 DEF Verified, Close, Typed
        <4>. QED
          BY <2>2, <4>1 DEF Reads
      <3>2. CASE s = r
        <4>1. PICK k \in Ids, a \in ReaderStages : reader[r] = [id |-> k, at |-> a]
          BY <1>1, <1>4 DEF Verified, Close, Typed, Reading
        <4>2. reader'[r] \in {[id |-> k, at |-> "open"], [id |-> k, at |-> "expired"], None}
          BY <1>1, <1>4, <4>1 DEF Verified, Close, Typed
        <4>3. k = i
          BY <2>2, <3>2, <4>2 DEF Reads
        <4>. QED
          BY <1>4, <3>2, <4>1, <4>3 DEF Verified, Close, Reads
      <3>. QED
        BY <3>1, <3>2
    <2>. QED
      BY <2>1, <2>2 DEF KeepInv, Intact
  <1>5. ASSUME UNCHANGED <<files, recs, withdrawn>>, \A i \in Ids : op'[i] \in {op[i], None},
               \A r \in Readers : reader'[r] \in {reader[r], None}
        PROVE  KeepInv'
    <2>. SUFFICES ASSUME NEW s \in Readers, NEW i \in Ids, Reads(s, i)', s \notin withdrawn
                  PROVE  Intact(i)'
      BY <1>5 DEF KeepInv
    <2>1. Reads(s, i)
      BY <1>5 DEF Reads
    <2>2. Intact(i)
      BY <2>1 DEF KeepInv
    <2>. QED
      BY <1>5, <2>2 DEF Intact
  <1>6. ASSUME NEW x \in Ids \cup Readers \cup {"timer"}, BeginSweep(x)
        PROVE  KeepInv'
    <2>1. UNCHANGED <<files, recs, withdrawn>>
      BY <1>6 DEF BeginSweep, diskVars, envVars
    <2>2. \A i \in Ids : op'[i] \in {op[i], None}
      BY <1>1, <1>6, Ends DEF BeginSweep, taskVars, At
    <2>3. \A r \in Readers : reader'[r] \in {reader[r], None}
      BY <1>1, <1>6 DEF BeginSweep, taskVars, Typed
    <2>. QED
      BY <1>5, <2>1, <2>2, <2>3
  <1>7. ASSUME sweep # None, UNCHANGED <<op, reader, withdrawn>>,
               \A i \in Ids : \/ recs'[i] = recs[i]
                              \/ Removing \/ Swept(i),
               \A i \in Ids : files'[i] = files[i] \/ Removing \/ Unlinks(i)
        PROVE  KeepInv'
    <2>. SUFFICES ASSUME NEW s \in Readers, NEW i \in Ids, Reads(s, i), s \notin withdrawn
                  PROVE  Intact(i)'
      BY <1>7 DEF KeepInv, Reads
    <2>1. Intact(i) /\ ~Removing /\ ~Swept(i)
      BY ReadsUnswept DEF KeepInv
    <2>2. ~Unlinks(i)
      BY <2>1 DEF IInv, SweepInv, Intact
    <2>. QED
      BY <1>7, <2>1, <2>2 DEF Intact
  <1>8. ASSUME NEW id \in Ids, VisitFile(id)
        PROVE  KeepInv'
    <2>1. UNCHANGED <<files, op, reader>> /\ sweep # None /\ withdrawn' = withdrawn
      BY <1>1, <1>8, VisitFileMoves DEF VisitFile, envVars
    <2>2. ASSUME NEW i \in Ids
          PROVE  recs'[i] = recs[i] \/ Removing \/ Swept(i)
      <3>1. PICK before \in SUBSET (sweep.todo \ {id}) :
              recs' = IF sweep.kind = "remove" THEN Visited(before)
                      ELSE [Visited(before) EXCEPT ![id].size = 0]
        BY <1>8 DEF VisitFile
      <3>2. before \in SUBSET Ids
        BY <2>1, <3>1, LoopThere
      <3>3. Visited(before)[i] = recs[i] \/ Removing \/ Swept(i)
        BY <2>1, <3>2, VisitedValue
      <3>4. i # id => recs'[i] = Visited(before)[i]
        BY <3>1 DEF Visited
      <3>5. i = id => Removing \/ Swept(i)
        BY <1>8, <2>1, LoopThere DEF VisitFile, Awaits, Removing
      <3>. QED
        BY <3>3, <3>4, <3>5
    <2>. QED
      BY <1>7, <2>1, <2>2
  <1>9. CASE UnlinkFile
    <2>1. PICK f \in Ids : f = sweep.file
      BY <1>1, <1>9, UnlinkFileMoves
    <2>2. /\ UNCHANGED <<op, reader>> /\ sweep # None /\ files' = [files EXCEPT ![f] = 0]
          /\ \A i \in Ids : i # f => recs'[i] = recs[i]
      BY <1>1, <1>9, <2>1, UnlinkFileMoves
    <2>3. withdrawn' = withdrawn
      BY <1>9 DEF UnlinkFile, envVars
    <2>4. \A i \in Ids : i # f => files'[i] = files[i]
      BY <1>1, <2>2 DEF Typed
    <2>5. Removing \/ Unlinks(f)
      BY <2>1, <2>2 DEF Removing, Unlinks
    <2>6. recs'[f] = recs[f] \/ Removing \/ Swept(f)
      <3>1. {f} \in SUBSET Ids /\ recs' = Visited({f})
        BY <1>9, <2>1 DEF UnlinkFile
      <3>. QED
        BY <2>2, <3>1, VisitedValue
    <2>. QED
      BY <1>7, <2>2, <2>3, <2>4, <2>5, <2>6
  <1>10. CASE VisitRest
    <2>1. UNCHANGED <<files, op, reader>> /\ sweep # None
      BY <1>1, <1>10, VisitRestMoves
    <2>2. withdrawn' = withdrawn
      BY <1>10 DEF VisitRest, envVars
    <2>3. \A i \in Ids : recs'[i] = recs[i] \/ Removing \/ Swept(i)
      <3>1. sweep.todo \in SUBSET Ids /\ recs' = Visited(sweep.todo)
        BY <1>10, LoopThere DEF VisitRest
      <3>. QED
        BY <2>1, <3>1, VisitedValue
    <2>. QED
      BY <1>7, <2>1, <2>2, <2>3
  <1>11. CASE \/ EndSweep \/ Start \/ Stop \/ Remove \/ Tick
              \/ (\E id \in Attachments : Answer(id)) \/ UNCHANGED vars
    <2>1. UNCHANGED <<files, recs, op, reader, withdrawn>>
      BY <1>11 DEF EndSweep, Start, Stop, Remove, Tick, Answer, vars, diskVars, storeVars,
                   taskVars, envVars
    <2>. QED
      BY <1>5, <2>1
  <1>12. CASE Crash \/ Load \/ Loaded
    <2>1. \A s \in Readers : reader'[s] = None
      <3>1. CASE Crash
        BY <3>1 DEF Crash
      <3>2. CASE Load \/ Loaded
        <4>1. phase # "up" /\ reader' = reader
          BY <3>2 DEF Load, Loaded, taskVars
        <4>. QED
          BY <4>1, Quiet
      <3>. QED
        BY <1>12, <3>1, <3>2
    <2>. QED
      BY <2>1 DEF KeepInv, Reads
  <1>13. \A id \in Attachments : id \in Ids
    BY Values
  <1>. QED
    BY <1>2, <1>3, <1>4, <1>6, <1>8, <1>9, <1>10, <1>11, <1>12, <1>13
       DEF Next, SweepStep

\* A file that is open stays whole on disk until it is closed, over cleanups, expiries,
\* failing saves and starts; only the failed save of its own download takes it back.
THEOREM ReadersKeepFilesHolds == Spec => []ReadersKeepFiles
  <1>1. Init => KeepInv
    BY DEF Init, KeepInv, Reads
  <1>2. IInv /\ BareInv /\ FiledInv /\ KeepInv /\ [Next]_vars => KeepInv'
    BY KeepStep
  <1>3. KeepInv => ReadersKeepFiles
    BY DEF KeepInv, Intact, ReadersKeepFiles
  <1>. QED
    BY <1>1, <1>2, <1>3, InvariantHolds, PTL DEF Spec
-----------------------------------------------------------------------------
(***************************************************************************)
(* Reservations, records and bytes                                         *)
(***************************************************************************)

\* Every reservation is that of a job that may have a file: none is lost, none is given
\* back twice.
ReservedInv == reservations = Cardinality(Reserving)

\* Who has a reservation.
LEMMA Reserves ==
  /\ Reserving = {i \in Ids : Place(i) \in Holding}
  /\ IsFiniteSet(Ids) /\ IsFiniteSet(Reserving) /\ Cardinality(Reserving) \in Nat
  <1>1. Reserving = {i \in Ids : Place(i) \in Holding}
    BY DEF Reserving, Place, Holding
  <1>2. IsFiniteSet(Ids)
    BY MediaIdsAssumption DEF Ids
  <1>3. IsFiniteSet(Reserving)
    <2>1. Reserving \subseteq Ids
      BY DEF Reserving
    <2>. QED
      BY <1>2, <2>1, FS_Subset
  <1>. QED
    BY <1>1, <1>2, <1>3, FS_CardinalityType

\* Jobs that go on keep their reservation.
LEMMA ReservedSame ==
  ASSUME ReservedInv, reservations' = reservations,
         \A i \in Ids : Place(i)' \in Holding <=> Place(i) \in Holding
  PROVE  ReservedInv'
  <1>1. Reserving' = {i \in Ids : Place(i)' \in Holding}
    BY DEF Reserving, Place, Holding
  <1>2. Reserving' = Reserving
    BY <1>1, Reserves
  <1>. QED
    BY <1>2 DEF ReservedInv

\* A job takes a reservation once and gives it back once.
LEMMA ReservedJob ==
  ASSUME IInv, ReservedInv, NEW id \in Ids, Local(id),
         Observe(id) \/ Get(id) \/ Stage(id) \/ JobStep(id)
  PROVE  ReservedInv'
  <1>1. \A i \in Ids : i # id => Place(i)' = Place(i)
    BY DEF Local, Place
  <1>2. Reserving = {i \in Ids : Place(i) \in Holding}
          /\ Reserving' = {i \in Ids : Place(i)' \in Holding}
          /\ IsFiniteSet(Reserving) /\ Cardinality(Reserving) \in Nat
    <2>1. Reserving' = {i \in Ids : Place(i)' \in Holding}
      BY DEF Reserving, Place, Holding
    <2>. QED
      BY <2>1, Reserves
  <1>3. CASE Reserve(id)
    <2>1. id \notin Reserving /\ Reserving' = Reserving \cup {id}
      BY <1>1, <1>2, <1>3, Places DEF Holding
    <2>2. reservations' = reservations + 1
      BY <1>3 DEF Reserve
    <2>. QED
      BY <1>2, <2>1, <2>2, FS_AddElement DEF ReservedInv
  <1>4. CASE Broken(id) \/ Saved(id) \/ Discard(id) \/ Undone(id)
    <2>1. id \in Reserving /\ Reserving' = Reserving \ {id}
      BY <1>1, <1>2, <1>4, Places DEF Holding, Gone
    <2>2. reservations' = reservations - 1
      BY <1>4 DEF Broken, Saved, Discard, Undone
    <2>. QED
      BY <1>2, <2>1, <2>2, FS_RemoveElement DEF ReservedInv
  <1>5. CASE \/ Observe(id) \/ Get(id) \/ Stage(id) \/ Remember(id) \/ Recognize(id)
             \/ Remembered(id) \/ FetchBegins(id) \/ StageBegins(id) \/ Refused(id)
             \/ GiveUp(id)
    <2>1. Place(id) \notin Holding /\ Place(id)' \notin Holding
      BY <1>5, Places DEF Holding, Gone
    <2>2. reservations' = reservations
      BY <1>5 DEF Observe, Get, Stage, Remember, Recognize, Remembered, FetchBegins,
                  StageBegins, Refused, GiveUp, storeVars
    <2>. QED
      BY <1>1, <2>1, <2>2, ReservedSame
  <1>6. CASE \/ Create(id) \/ Streamed(id) \/ Checked(id) \/ Rejected(id) \/ Commit(id)
             \/ NotSaved(id) \/ Undo(id) \/ Unlinked(id)
    <2>1. Place(id) \in Holding /\ Place(id)' \in Holding
      BY <1>6, Places DEF Holding
    <2>2. reservations' = reservations
      BY <1>6 DEF Create, Streamed, Checked, Rejected, Commit, NotSaved, Undo, Unlinked,
                  storeVars
    <2>. QED
      BY <1>1, <2>1, <2>2, ReservedSame
  <1>. QED
    BY <1>3, <1>4, <1>5, <1>6 DEF JobStep

\* No other step takes a reservation, and a crash forgets them all.
LEMMA ReservedOther ==
  ASSUME IInv, TodoInv, ReservedInv,
         \/ \E r \in Readers : (\E id \in Ids : Open(r, id)) \/ Verified(r) \/ Close(r)
         \/ \E x \in Ids \cup Readers \cup {"timer"} : BeginSweep(x)
         \/ SweepStep
         \/ (\E id \in Attachments : Answer(id)) \/ UNCHANGED vars
         \/ Start \/ Stop \/ Remove \/ Crash \/ Load \/ Loaded \/ Tick
  PROVE  ReservedInv'
  <1>1. ASSUME UNCHANGED <<op, reservations>>
        PROVE  ReservedInv'
    BY <1>1, ReservedSame DEF Place
  <1>2. ASSUME NEW r \in Readers, (\E id \in Ids : Open(r, id)) \/ Verified(r) \/ Close(r)
        PROVE  ReservedInv'
    BY <1>1, <1>2 DEF Open, Verified, Close, storeVars
  <1>3. ASSUME NEW x \in Ids \cup Readers \cup {"timer"}, BeginSweep(x)
        PROVE  ReservedInv'
    <2>1. reservations' = reservations
      BY <1>3 DEF BeginSweep
    <2>2. \A i \in Ids : op'[i] = op[i] \/ (op'[i] = None /\ Place(i) = "expired")
      BY <1>3, Ends DEF BeginSweep, taskVars, At, Place, IInv
    <2>3. \A i \in Ids : Place(i)' \in Holding <=> Place(i) \in Holding
      BY <2>2 DEF Place, Holding
    <2>. QED
      BY <2>1, <2>3, ReservedSame
  <1>4. CASE SweepStep
    <2>1. UNCHANGED <<op, reservations>>
      BY <1>4, VisitFileMoves, UnlinkFileMoves, VisitRestMoves
         DEF SweepStep, EndSweep, taskVars
    <2>. QED
      BY <1>1, <2>1
  <1>5. CASE Crash
    <2>1. \A i \in Ids : Place(i)' = "none"
      BY <1>5 DEF Crash, Empty, Place
    <2>2. Reserving' = {i \in Ids : Place(i)' \in Holding}
      BY DEF Reserving, Place, Holding
    <2>3. Reserving' = {}
      BY <2>1, <2>2 DEF Holding
    <2>. QED
      BY <1>5, <2>3, FS_EmptySet DEF Crash, ReservedInv
  <1>6. CASE Start \/ Stop \/ Remove \/ Load \/ Loaded \/ Tick \/ UNCHANGED vars
    BY <1>1, <1>6 DEF Start, Stop, Remove, Load, Loaded, Tick, vars, storeVars, taskVars
  <1>7. CASE \E id \in Attachments : Answer(id)
    BY <1>1, <1>7 DEF Answer, storeVars, taskVars
  <1>. QED
    BY <1>2, <1>3, <1>4, <1>5, <1>6, <1>7

\* A start accepts as many records as there are.
ItemsInv == Cardinality(Held(recs)) <= MaxItems /\ Cardinality(Held(index)) <= MaxItems

\* Fewer records are within the limit.
LEMMA Counted ==
  ASSUME NEW m, NEW n, Held(n) \subseteq Held(m), Cardinality(Held(m)) <= MaxItems
  PROVE  Cardinality(Held(n)) <= MaxItems
  <1>1. IsFiniteSet(Held(m)) /\ IsFiniteSet(Held(n))
    BY Reserves, FS_Subset DEF Held
  <1>2. Cardinality(Held(m)) \in Nat /\ Cardinality(Held(n)) \in Nat
    BY <1>1, FS_CardinalityType
  <1>3. Cardinality(Held(n)) <= Cardinality(Held(m))
    BY <1>1, FS_Subset
  <1>. QED
    BY <1>2, <1>3, MediaBoundsAssumption

\* One more record than fewer than the limit is within it.
LEMMA CountedOne ==
  ASSUME NEW m, NEW n, NEW id, Held(n) \subseteq Held(m) \cup {id},
         Cardinality(Held(m)) < MaxItems
  PROVE  Cardinality(Held(n)) <= MaxItems
  <1>1. IsFiniteSet(Held(m)) /\ IsFiniteSet(Held(n))
    BY Reserves, FS_Subset DEF Held
  <1>2. Cardinality(Held(m)) \in Nat /\ Cardinality(Held(n)) \in Nat
    BY <1>1, FS_CardinalityType
  <1>3. /\ IsFiniteSet(Held(m) \cup {id})
        /\ Cardinality(Held(m) \cup {id}) \in {Cardinality(Held(m)), Cardinality(Held(m)) + 1}
    BY <1>1, FS_AddElement
  <1>4. Cardinality(Held(n)) <= Cardinality(Held(m) \cup {id})
    BY <1>3, FS_Subset
  <1>. QED
    BY <1>2, <1>3, <1>4, MediaBoundsAssumption

\* A step that writes the index at most, and adds no record.
LEMMA ItemsFewer ==
  ASSUME ItemsInv, index' \in {index, recs}, Held(recs') \subseteq Held(recs)
  PROVE  ItemsInv'
  <1>1. Cardinality(Held(recs')) <= MaxItems /\ Cardinality(Held(index')) <= MaxItems
    BY Counted DEF ItemsInv
  <1>2. Held(recs)' = Held(recs') /\ Held(index)' = Held(index')
    BY DEF Held
  <1>. QED
    BY <1>1, <1>2 DEF ItemsInv

\* Steps that add one where there is room for it.
LEMMA ItemsMore ==
  ASSUME ItemsInv, index' \in {index, recs}, NEW id, Held(recs') \subseteq Held(recs) \cup {id},
         Cardinality(Held(recs)) < MaxItems
  PROVE  ItemsInv'
  <1>1. Cardinality(Held(recs')) <= MaxItems
    BY CountedOne
  <1>2. Cardinality(Held(index')) <= MaxItems
    BY Counted DEF ItemsInv
  <1>3. Held(recs)' = Held(recs') /\ Held(index)' = Held(index')
    BY DEF Held
  <1>. QED
    BY <1>1, <1>2, <1>3 DEF ItemsInv

\* A job adds a record only where there is room.
LEMMA ItemsJob ==
  ASSUME IInv, ItemsInv, NEW id \in Ids, Local(id),
         Observe(id) \/ Get(id) \/ Stage(id) \/ JobStep(id)
  PROVE  ItemsInv'
  <1>1. index' \in {index, recs} /\ \A i \in Ids : i # id => recs'[i] = recs[i]
    BY DEF Local
  <1>2. Held(recs') \subseteq Held(recs) \cup {id}
    BY <1>1 DEF Held
  <1>3. CASE Quietly(id)
    <2>1. recs' = recs
      BY <1>3, QuietRecords
    <2>. QED
      BY <1>1, <2>1, ItemsFewer
  <1>4. CASE Remember(id)
    <2>1. Cardinality(Held(recs)) < MaxItems
      BY <1>4 DEF Remember
    <2>. QED
      BY <1>1, <1>2, <2>1, ItemsMore
  <1>5. CASE Commit(id) /\ id \in Uploads
    <2>1. Cardinality(Held(recs)) < MaxItems
      BY <1>5 DEF Commit
    <2>. QED
      BY <1>1, <1>2, <2>1, ItemsMore
  <1>6. CASE Commit(id) /\ id \in Attachments
    <2>1. recs[id] # None
      BY <1>6, Job1 DEF Commit, At, JobOK, Leasing
    <2>2. Held(recs') \subseteq Held(recs)
      BY <1>1, <2>1 DEF Held
    <2>. QED
      BY <1>1, <2>2, ItemsFewer
  <1>7. CASE Remembered(id) \/ NotSaved(id) \/ Undo(id)
    <2>1. recs'[id] # None => recs[id] # None
      BY <1>7, JobRecord
    <2>2. Held(recs') \subseteq Held(recs)
      BY <1>1, <2>1 DEF Held
    <2>. QED
      BY <1>1, <2>2, ItemsFewer
  <1>. QED
    BY <1>3, <1>4, <1>5, <1>6, <1>7, Values DEF JobStep, Quietly

\* The other steps add no record.
LEMMA ItemsOther ==
  ASSUME IInv, TodoInv, ItemsInv,
         \/ \E r \in Readers : (\E id \in Ids : Open(r, id)) \/ Verified(r) \/ Close(r)
         \/ \E x \in Ids \cup Readers \cup {"timer"} : BeginSweep(x)
         \/ SweepStep
         \/ (\E id \in Attachments : Answer(id)) \/ UNCHANGED vars
         \/ Start \/ Stop \/ Remove \/ Crash \/ Load \/ Loaded \/ Tick
  PROVE  ItemsInv'
  <1>1. ASSUME index' \in {index, recs}, recs' = recs
        PROVE  ItemsInv'
    BY <1>1, ItemsFewer
  <1>2. ASSUME index' \in {index, recs}, \A i \in Ids : recs'[i] # None => recs[i] # None
        PROVE  ItemsInv'
    <2>1. Held(recs') \subseteq Held(recs)
      BY <1>2 DEF Held
    <2>. QED
      BY <1>2, <2>1, ItemsFewer
  <1>3. ASSUME NEW r \in Readers, (\E id \in Ids : Open(r, id)) \/ Verified(r) \/ Close(r)
        PROVE  ItemsInv'
    BY <1>1, <1>3 DEF Open, Verified, Close, storeVars, diskVars
  <1>4. ASSUME NEW x \in Ids \cup Readers \cup {"timer"}, BeginSweep(x)
        PROVE  ItemsInv'
    BY <1>1, <1>4 DEF BeginSweep, diskVars
  <1>5. ASSUME NEW id \in Ids, VisitFile(id)
        PROVE  ItemsInv'
    BY <1>2, <1>5, VisitFileMoves
  <1>6. CASE UnlinkFile
    <2>1. PICK f \in Ids : f = sweep.file
      BY <1>6, UnlinkFileMoves
    <2>2. \A i \in Ids : recs'[i] \in {recs[i], None}
      BY <1>6, <2>1, UnlinkFileMoves
    <2>3. index' = index
      BY <1>6, UnlinkFileMoves
    <2>. QED
      BY <1>2, <2>2, <2>3
  <1>7. CASE VisitRest
    <2>1. index' = index /\ \A i \in Ids : recs'[i] # None => recs'[i] = recs[i]
      BY <1>7, VisitRestMoves
    <2>. QED
      BY <1>2, <2>1
  <1>8. CASE EndSweep
    BY <1>1, <1>8 DEF EndSweep, Persist
  <1>9. CASE Crash
    <2>1. index' \in {index, recs} /\ \A i \in Ids : recs'[i] = None
      BY <1>9 DEF Crash, Empty
    <2>. QED
      BY <1>2, <2>1
  <1>10. CASE Load
    <2>1. Held(recs') \subseteq Held(index)
      BY <1>10 DEF Load, Held
    <2>2. Cardinality(Held(recs')) <= MaxItems
      BY <2>1, Counted DEF ItemsInv
    <2>3. Held(recs)' = Held(recs') /\ Held(index)' = Held(index)
      BY <1>10 DEF Held, Load
    <2>. QED
      BY <2>2, <2>3 DEF ItemsInv
  <1>11. CASE Loaded
    <2>1. index' \in {index, recs} /\ (recs' = recs \/ recs' = Empty)
      BY <1>11 DEF Loaded, Persist
    <2>2. \A i \in Ids : recs'[i] # None => recs[i] # None
      BY <2>1 DEF Empty
    <2>. QED
      BY <1>2, <2>1, <2>2
  <1>12. CASE Start \/ Stop \/ Remove \/ Tick \/ UNCHANGED vars
    BY <1>1, <1>12 DEF Start, Stop, Remove, Tick, vars, storeVars, diskVars
  <1>13. CASE \E id \in Attachments : Answer(id)
    BY <1>1, <1>13 DEF Answer, storeVars, diskVars
  <1>. QED
    BY <1>3, <1>4, <1>5, <1>6, <1>7, <1>8, <1>9, <1>10, <1>11, <1>12, <1>13 DEF SweepStep

\* What an id may take on disk: a transfer a largest file, a record its file, and the
\* file that a loop unlinks what it has.
Claim(i) ==
  IF phase = "down" THEN files[i]
  ELSE IF Place(i) \in Holding THEN MaxBytes
  ELSE IF i \in Stored(recs) THEN recs[i].size
  ELSE IF sweep # None /\ sweep.file = i THEN files[i] ELSE 0

Claims == [i \in Ids |-> Claim(i)]
Claiming == {i \in Ids : Claim(i) > 0}
ClaimsNat == \A i \in Ids : Claim(i) \in Nat

\* No file is larger than what its id may take, and all of that is within the budget.
ClaimsInv ==
  /\ \A i \in Ids : files[i] <= Claim(i)
  /\ Cardinality(Claiming) <= MaxFiles
  /\ SumFunctionOnSet(Claims, Ids) <= CacheBytes

\* What an id may take is a number of bytes.
LEMMA ClaimsAreNat == Typed => ClaimsNat
  <1>. SUFFICES ASSUME Typed, NEW i \in Ids PROVE Claim(i) \in Nat
    BY DEF ClaimsNat
  <1>1. files[i] \in Nat /\ MaxBytes \in Nat
    BY Values DEF Typed
  <1>2. i \in Stored(recs) => recs[i].size \in Nat
    BY DEF Stored, Held, Typed, Record
  <1>. QED
    BY <1>1, <1>2 DEF Claim

\* Steps that claim no more stay within the budget.
LEMMA Lighter ==
  ASSUME Typed, Typed', ClaimsInv,
         \A i \in Ids : Claim(i)' <= Claim(i) /\ files'[i] <= Claim(i)'
  PROVE  ClaimsInv'
  <1>1. ClaimsNat /\ ClaimsNat'
    BY ClaimsAreNat, PTL
  <1>2. \A i \in Ids : /\ Claims[i] = Claim(i) /\ Claims'[i] = Claim(i)'
                       /\ Claim(i) \in Nat /\ Claim(i)' \in Nat
    BY <1>1 DEF Claims, ClaimsNat
  <1>3. Cardinality(Claiming') <= MaxFiles
    <2>1. Claiming' \subseteq Claiming /\ Claiming \subseteq Ids
      BY <1>2 DEF Claiming
    <2>2. IsFiniteSet(Claiming) /\ IsFiniteSet(Claiming')
      BY <2>1, Reserves, FS_Subset
    <2>3. Cardinality(Claiming') <= Cardinality(Claiming)
      BY <2>1, <2>2, FS_Subset
    <2>4. Cardinality(Claiming') \in Nat /\ Cardinality(Claiming) \in Nat
      BY <2>2, FS_CardinalityType
    <2>. QED
      BY <2>3, <2>4, MediaBoundsAssumption DEF ClaimsInv
  <1>4. SumFunctionOnSet(Claims', Ids) <= CacheBytes
    <2>1. PICK f : f = Claims
      OBVIOUS
    <2>2. PICK g : g = Claims'
      OBVIOUS
    <2>3. \A i \in Ids : f[i] \in Nat /\ g[i] \in Nat /\ g[i] <= f[i]
      BY <1>2, <2>1, <2>2
    <2>4. IsFiniteSet(Ids)
      BY Reserves
    <2>5. SumFunctionOnSet(g, Ids) <= SumFunctionOnSet(f, Ids)
      BY <2>3, <2>4, SumMonotone
    <2>6. SumFunctionOnSet(g, Ids) \in Nat /\ SumFunctionOnSet(f, Ids) \in Nat
      BY <2>3, <2>4, SumNat
    <2>. QED
      BY <2>1, <2>2, <2>5, <2>6, MediaBoundsAssumption DEF ClaimsInv
  <1>. QED
    BY <1>3, <1>4 DEF ClaimsInv

\* A reservation is made when there is room for it.
LEMMA Heavier ==
  ASSUME IInv, Typed', ClaimsInv, ReservedInv, NEW id \in Ids, phase = "up", sweep = None,
         Room,
         \A i \in Ids : /\ files'[i] = files[i]
                        /\ i # id => Claim(i)' = Claim(i),
         Claim(id)' = MaxBytes, Place(id) \notin Holding, Claim(id) <= MaxBytes
  PROVE  ClaimsInv'
  <1>1. ClaimsNat /\ ClaimsNat' /\ Typed
    BY ClaimsAreNat, PTL DEF IInv
  <1>2. \A i \in Ids : /\ Claims[i] = Claim(i) /\ Claims'[i] = Claim(i)'
                       /\ Claim(i) \in Nat /\ Claim(i)' \in Nat
    BY <1>1 DEF Claims, ClaimsNat
  <1>3. /\ IsFiniteSet(Ids) /\ IsFiniteSet(Reserving) /\ IsFiniteSet(Stored(recs))
        /\ Cardinality(Reserving) \in Nat /\ Cardinality(Stored(recs)) \in Nat
    <2>1. Stored(recs) \subseteq Ids
      BY DEF Stored, Held
    <2>2. IsFiniteSet(Stored(recs))
      BY <2>1, Reserves, FS_Subset
    <2>. QED
      BY <2>2, Reserves, FS_CardinalityType
  <1>4. \A i \in Ids : i \notin Reserving /\ i \notin Stored(recs) => Claim(i) = 0
    BY Reserves DEF Claim
  <1>5. \A i \in Ids : files'[i] <= Claim(i)'
    <2>1. files[id] \in Nat /\ Claim(id) \in Nat /\ files[id] <= Claim(id) /\ MaxBytes \in Nat
      BY <1>1, <1>2, Values DEF ClaimsInv, Typed
    <2>. QED
      BY <2>1 DEF ClaimsInv
  <1>6. Cardinality(Claiming') <= MaxFiles
    <2>. DEFINE U == Stored(recs) \cup Reserving
    <2>1. Claiming' \subseteq U \cup {id}
      BY <1>4 DEF Claiming
    <2>2. IsFiniteSet(U) /\ Cardinality(U) <= Cardinality(Stored(recs)) + Cardinality(Reserving)
            /\ Cardinality(U) \in Nat
      <3>1. IsFiniteSet(Stored(recs) \cap Reserving)
        BY <1>3, FS_Subset
      <3>2. Cardinality(Stored(recs) \cap Reserving) \in Nat
        BY <3>1, FS_CardinalityType
      <3>3. IsFiniteSet(U) /\ Cardinality(U) = Cardinality(Stored(recs)) + Cardinality(Reserving)
                                   - Cardinality(Stored(recs) \cap Reserving)
        BY <1>3, FS_Union
      <3>4. Cardinality(U) \in Nat
        BY <3>3, FS_CardinalityType
      <3>. QED
        BY <1>3, <3>2, <3>3, <3>4
    <2>3. /\ IsFiniteSet(U \cup {id})
          /\ Cardinality(U \cup {id}) \in {Cardinality(U), Cardinality(U) + 1}
      BY <2>2, FS_AddElement
    <2>4. IsFiniteSet(Claiming') /\ Cardinality(Claiming') <= Cardinality(U \cup {id})
      BY <2>1, <2>3, FS_Subset
    <2>5. Cardinality(Claiming') \in Nat
      BY <2>4, FS_CardinalityType
    <2>6. Cardinality(Stored(recs)) + Cardinality(Reserving) < MaxFiles
      BY DEF Room, ReservedInv
    <2>. HIDE DEF U
    <2>. QED
      BY <1>3, <2>2, <2>3, <2>4, <2>5, <2>6, MediaBoundsAssumption
  <1>7. SumFunctionOnSet(Claims', Ids) <= CacheBytes
    <2>1. PICK g : g = Claims'
      OBVIOUS
    <2>. DEFINE S == Stored(recs)
                B == Reserving \cup {id}
    <2>2. PICK h : h = [i \in S |-> recs[i].size]
      OBVIOUS
    <2>3. \A i \in S : h[i] = recs[i].size /\ h[i] \in Nat /\ i \in Ids
      BY <1>1, <2>2 DEF Stored, Held, Typed, Record
    <2>4. \A i \in Ids : g[i] <= (IF i \in S THEN h[i] ELSE 0) + (IF i \in B THEN MaxBytes ELSE 0)
      <3>. SUFFICES ASSUME NEW i \in Ids
                    PROVE  g[i] <= (IF i \in S THEN h[i] ELSE 0)
                                     + (IF i \in B THEN MaxBytes ELSE 0)
        OBVIOUS
      <3>1. g[i] = Claim(i)' /\ MaxBytes \in Nat
        BY <1>2, <2>1, Values
      <3>2. CASE i \in B
        <4>1. g[i] = MaxBytes
          BY <3>1, <3>2, Reserves DEF Claim
        <4>. QED
          BY <2>3, <3>1, <3>2, <4>1
      <3>3. CASE i \notin B
        <4>1. g[i] = IF i \in S THEN recs[i].size ELSE 0
          BY <3>1, <3>3, Reserves DEF Claim
        <4>. QED
          BY <2>3, <3>1, <3>3, <4>1
      <3>. QED
        BY <3>2, <3>3
    <2>5. \A i \in Ids : g[i] \in Nat /\ (i \in S => h[i] \in Nat)
      BY <1>2, <2>1, <2>3
    <2>6. S \cap Ids = S /\ B \cap Ids = B
      BY Reserves DEF Stored, Held
    <2>7. SumFunctionOnSet(g, Ids) <= SumFunctionOnSet(h, S) + Cardinality(B) * MaxBytes
      <3>1. MaxBytes \in Nat /\ IsFiniteSet(Ids)
        BY Values, Reserves
      <3>2. SumFunctionOnSet(g, Ids) <=
              SumFunctionOnSet(h, S \cap Ids) + Cardinality(B \cap Ids) * MaxBytes
        <4>. HIDE DEF S, B
        <4>. QED
          BY <2>4, <2>5, <3>1, SumBelow
      <3>. QED
        BY <2>6, <3>2
    <2>8. Cardinality(B) = reservations + 1
      <3>1. id \notin Reserving
        BY Reserves
      <3>. QED
        BY <1>3, <3>1, FS_AddElement DEF ReservedInv
    <2>9. SumFunctionOnSet(h, S) = Bytes(recs)
      <3>1. DOMAIN h = S
        BY <2>2
      <3>. QED
        BY <2>2, <3>1 DEF Bytes, SumFunction
    <2>10. Bytes(recs) + (reservations + 1) * MaxBytes <= CacheBytes
      BY DEF Room
    <2>11. PICK a \in Nat : a = SumFunctionOnSet(g, Ids)
      BY <2>5, Reserves, SumNat
    <2>12. PICK b \in Nat : b = Bytes(recs)
      <3>1. IsFiniteSet(S)
        BY <1>3
      <3>. HIDE DEF S
      <3>. QED
        BY <2>3, <2>9, <3>1, SumNat
    <2>13. PICK c \in Nat : c = (reservations + 1) * MaxBytes
      <3>1. reservations \in Nat /\ MaxBytes \in Nat
        BY <1>3, Values DEF ReservedInv
      <3>2. reservations + 1 \in Nat
        BY <3>1
      <3>. QED
        BY <3>1, <3>2, OneMore
    <2>14. a <= b + c /\ b + c <= CacheBytes
      <3>. HIDE DEF S, B
      <3>. QED
        BY <2>7, <2>8, <2>9, <2>10, <2>11, <2>12, <2>13
    <2>15. SumFunctionOnSet(g, Ids) <= CacheBytes
      BY <2>11, <2>12, <2>13, <2>14, MediaBoundsAssumption
    <2>. QED
      BY <2>1, <2>15
  <1>. QED
    BY <1>5, <1>6, <1>7 DEF ClaimsInv

\* A job takes its share when it reserves it, and no more later.
LEMMA ClaimsJob ==
  ASSUME IInv, IInv', BareInv, ReservedInv, ClaimsInv, NEW id \in Ids, Local(id), phase = "up",
         Observe(id) \/ Get(id) \/ Stage(id) \/ JobStep(id)
  PROVE  ClaimsInv'
  <1>1. Typed /\ Typed' /\ BareOK(id) /\ phase' = "up" /\ sweep' = sweep /\ MaxBytes \in Nat
    BY Values DEF IInv, BareInv, Local
  <1>2. /\ files[id] <= Claim(id) /\ files[id] \in Nat /\ Claim(id) \in Nat
    <2>1. ClaimsNat
      BY <1>1, ClaimsAreNat
    <2>. QED
      BY <1>1, <2>1 DEF ClaimsInv, Typed, ClaimsNat
  <1>3. \A i \in Ids : i # id => Claim(i)' = Claim(i) /\ files'[i] = files[i]
    <2>. SUFFICES ASSUME NEW i \in Ids, i # id
                  PROVE  Claim(i)' = Claim(i) /\ files'[i] = files[i]
      OBVIOUS
    <2>1. op'[i] = op[i] /\ recs'[i] = recs[i] /\ files'[i] = files[i]
      BY DEF Local
    <2>2. Place(i)' = Place(i) /\ (i \in Stored(recs)' <=> i \in Stored(recs))
      BY <2>1, SameStored DEF Place
    <2>. QED
      BY <1>1, <2>1, <2>2 DEF Claim
  <1>4. ASSUME Claim(id)' <= Claim(id), files'[id] <= Claim(id)'
        PROVE  ClaimsInv'
    <2>1. ClaimsNat
      BY <1>1, ClaimsAreNat
    <2>2. \A i \in Ids : Claim(i)' <= Claim(i) /\ files'[i] <= Claim(i)'
      <3>. SUFFICES ASSUME NEW i \in Ids, i # id
                    PROVE  Claim(i)' <= Claim(i) /\ files'[i] <= Claim(i)'
        BY <1>4
      <3>1. Claim(i) \in Nat /\ files[i] <= Claim(i)
        BY <2>1 DEF ClaimsNat, ClaimsInv
      <3>. QED
        BY <1>3, <3>1
    <2>. QED
      BY <1>1, <2>2, Lighter
  <1>5. ASSUME Place(id) \notin Holding, Place(id)' \notin Holding, files'[id] = files[id],
               id \in Stored(recs)' <=> id \in Stored(recs),
               id \in Stored(recs) => recs'[id] = recs[id]
        PROVE  ClaimsInv'
    <2>1. Claim(id)' = Claim(id)
      BY <1>1, <1>5 DEF Claim
    <2>. QED
      BY <1>2, <1>4, <1>5, <2>1
  <1>6. ASSUME Place(id) \in Holding, Place(id)' \in Holding, files'[id] <= MaxBytes
        PROVE  ClaimsInv'
    <2>1. Claim(id) = MaxBytes /\ Claim(id)' = MaxBytes
      BY <1>1, <1>6 DEF Claim
    <2>. QED
      BY <1>1, <1>4, <1>6, <2>1
  <1>7. ASSUME Place(id)' \notin Holding, files'[id] = 0, recs' = recs, id \notin Stored(recs)
        PROVE  ClaimsInv'
    <2>1. Claim(id)' = 0
      BY <1>1, <1>7, SameStored DEF Claim
    <2>. QED
      BY <1>2, <1>4, <1>7, <2>1
  <1>8. CASE \/ Observe(id) \/ Get(id) \/ Stage(id) \/ Recognize(id) \/ FetchBegins(id)
             \/ StageBegins(id) \/ Refused(id) \/ GiveUp(id)
    <2>1. recs' = recs
      BY <1>8, QuietRecords DEF Quietly
    <2>2. files' = files
      BY <1>8 DEF Observe, Get, Stage, Recognize, FetchBegins, StageBegins, Refused, GiveUp,
                  diskVars
    <2>3. Place(id) \notin Holding /\ Place(id)' \notin Holding
      BY <1>8, Places DEF Holding, Gone
    <2>. QED
      BY <1>5, <2>1, <2>2, <2>3, SameStored
  <1>9. CASE Remember(id) \/ Remembered(id)
    <2>1. Place(id) \notin Holding /\ Place(id)' \notin Holding /\ files' = files
      BY <1>9, Places DEF Holding, Remember, Remembered, diskVars
    <2>2. id \notin Stored(recs)
      <3>1. CASE Remember(id)
        BY <3>1 DEF Remember, Stored, Held
      <3>2. CASE Remembered(id)
        <4>1. Place(id) \in Bare
          BY <3>2, Places DEF Bare
        <4>. QED
          BY <1>1, <4>1 DEF BareOK
      <3>. QED
        BY <1>9, <3>1, <3>2
    <2>3. id \notin Stored(recs)'
      <3>1. CASE Remember(id)
        <4>1. recs'[id].size = 0
          BY <3>1, JobRecord
        <4>. QED
          BY <4>1 DEF Stored
      <3>2. CASE Remembered(id)
        <4>1. recs'[id] = recs[id] \/ recs'[id] = None
          BY <3>2, JobRecord
        <4>. QED
          BY <2>2, <4>1 DEF Stored, Held
      <3>. QED
        BY <1>9, <3>1, <3>2
    <2>. QED
      BY <1>5, <2>1, <2>2, <2>3
  <1>10. CASE Reserve(id)
    <2>1. lock = None /\ Room /\ recs' = recs /\ files' = files
      BY <1>10 DEF Reserve, Free, diskVars
    <2>2. sweep = None
      BY <2>1, Values DEF IInv, LockInv
    <2>3. Place(id) = "reserve" /\ Place(id)' = "create"
      BY <1>10, Places
    <2>4. Place(id) \notin Holding /\ Place(id)' \in Holding /\ Place(id) \in Bare
      BY <2>3 DEF Holding, Bare, Early
    <2>5. id \notin Stored(recs)
      BY <1>1, <2>4 DEF BareOK
    <2>6. Claim(id)' = MaxBytes /\ Claim(id) = 0
      BY <1>1, <2>2, <2>4, <2>5 DEF Claim
    <2>. QED
      BY <1>1, <1>3, <2>1, <2>2, <2>4, <2>6, Heavier
  <1>11. CASE \/ Create(id) \/ Streamed(id) \/ Checked(id) \/ Rejected(id) \/ Commit(id)
              \/ NotSaved(id) \/ Undo(id) \/ Unlinked(id)
    <2>1. Place(id) \in Holding /\ Place(id)' \in Holding
      BY <1>11, Places DEF Holding
    <2>2. files'[id] <= MaxBytes
      <3>1. files[id] <= MaxBytes
        BY <1>1, <1>2, <2>1 DEF Claim
      <3>2. files \in [Ids -> Nat]
        BY <1>1 DEF Typed
      <3>3. CASE Create(id)
        <4>1. PICK size \in 1 .. MaxBytes : files' = [files EXCEPT ![id] = size]
          BY <3>3 DEF Create
        <4>. QED
          BY <1>1, <3>2, <4>1
      <3>4. CASE Unlinked(id)
        BY <1>1, <3>2, <3>4 DEF Unlinked
      <3>5. CASE \/ Streamed(id) \/ Checked(id) \/ Rejected(id) \/ Commit(id)
                 \/ NotSaved(id) \/ Undo(id)
        BY <3>1, <3>5 DEF Streamed, Checked, Rejected, Commit, NotSaved, Undo, diskVars
      <3>. QED
        BY <1>11, <3>3, <3>4, <3>5
    <2>. QED
      BY <1>6, <2>1, <2>2
  <1>12. CASE Broken(id) \/ Discard(id) \/ Undone(id)
    <2>1. recs' = recs
      BY <1>12, QuietRecords DEF Quietly
    <2>2. Place(id)' \notin Holding
      BY <1>12, Places DEF Holding, Gone
    <2>3. id \notin Stored(recs)
      <3>1. Place(id) \in Bare \/ (id \in Attachments /\ Place(id) = "discard")
        BY <1>12, Places DEF Bare, Early, Discard
      <3>. QED
        BY <1>1, <3>1 DEF BareOK
    <2>4. files'[id] = 0
      <3>1. CASE Broken(id) \/ Discard(id)
        BY <1>1, <3>1 DEF Broken, Discard, Typed
      <3>2. CASE Undone(id)
        <4>1. files' = files /\ Place(id) = "undone"
          BY <3>2, Places DEF Undone
        <4>. QED
          BY <1>1, <4>1 DEF BareOK
      <3>. QED
        BY <1>12, <3>1, <3>2
    <2>. QED
      BY <1>7, <2>1, <2>2, <2>3, <2>4
  <1>13. CASE Saved(id)
    <2>1. recs' = recs /\ files' = files
      BY <1>13, QuietRecords DEF Quietly, Saved
    <2>2. Place(id) = "saving" /\ Place(id)' \notin Holding /\ Place(id) \in Holding
      BY <1>13, Places DEF Holding, Gone
    <2>3. op[id] # None /\ op[id].at = "saving" /\ JobOK(id, op[id])
      BY <1>13, Job1 DEF Saved, At
    <2>4. recs[id] = [exp |-> op[id].exp, size |-> op[id].size]
            /\ files[id] = op[id].size /\ op[id].size > 0
      BY <2>3 DEF JobOK, Filled
    <2>5. recs[id].size = op[id].size
      BY <2>4
    <2>6. recs[id] # None
      <3>1. PICK e \in Nat, z \in Nat : e = op[id].exp /\ z = op[id].size
        BY <1>1, <2>3, JobFields
      <3>2. recs[id] = [exp |-> e, size |-> z]
        BY <2>4, <3>1
      <3>3. [exp |-> e, size |-> z] \in Record
        BY DEF Record
      <3>. QED
        BY <3>2, <3>3, Values
    <2>7. id \in Stored(recs)'
      BY <2>1, <2>4, <2>5, <2>6 DEF Stored, Held
    <2>8. Claim(id)' = op[id].size /\ Claim(id) = MaxBytes
      BY <1>1, <2>1, <2>2, <2>5, <2>7 DEF Claim
    <2>9. op[id].size <= MaxBytes /\ op[id].size \in Nat
      BY <1>1, <2>3, JobFields DEF BareOK
    <2>. QED
      BY <1>4, <2>1, <2>4, <2>8, <2>9
  <1>. QED
    BY <1>8, <1>9, <1>10, <1>11, <1>12, <1>13 DEF JobStep

\* Steps that leave the jobs that have a reservation, and give no record a file.
LEMMA ClaimsOther ==
  ASSUME IInv, IInv', BareInv, ClaimsInv,
         \/ \E r \in Readers : (\E id \in Ids : Open(r, id)) \/ Verified(r) \/ Close(r)
         \/ \E x \in Ids \cup Readers \cup {"timer"} : BeginSweep(x)
         \/ SweepStep
         \/ (\E id \in Attachments : Answer(id)) \/ UNCHANGED vars
         \/ Start \/ Stop \/ Remove \/ Crash \/ Load \/ Loaded \/ Tick
  PROVE  ClaimsInv'
  <1>1. Typed /\ Typed' /\ TodoInv /\ ClaimsNat /\ ClaimsNat'
    BY ClaimsAreNat, PTL DEF IInv, BareInv
  <1>2. \A i \in Ids : files[i] <= Claim(i) /\ files[i] \in Nat /\ Claim(i) \in Nat
    BY <1>1 DEF ClaimsInv, Typed, ClaimsNat
  <1>3. ASSUME \A i \in Ids : Claim(i)' = Claim(i), files' = files
        PROVE  ClaimsInv'
    BY <1>1, <1>2, <1>3, Lighter
  <1>4. ASSUME UNCHANGED <<files, recs, phase>>,
               sweep # None => sweep.file = None, sweep' # None => sweep'.file = None,
               \A i \in Ids : Place(i)' \in Holding <=> Place(i) \in Holding
        PROVE  ClaimsInv'
    <2>1. ASSUME NEW i \in Ids
          PROVE  Claim(i)' = Claim(i)
      <3>1. i # None
        BY Values
      <3>2. i \in Stored(recs)' <=> i \in Stored(recs)
        BY <1>4, SameStored
      <3>. QED
        BY <1>4, <3>1, <3>2 DEF Claim
    <2>. QED
      BY <1>3, <1>4, <2>1
  <1>5. ASSUME UNCHANGED <<files, recs, phase, op, sweep>>
        PROVE  ClaimsInv'
    <2>1. ASSUME NEW i \in Ids
          PROVE  Claim(i)' = Claim(i)
      BY <1>5, SameStored DEF Claim, Place
    <2>. QED
      BY <1>3, <1>5, <2>1
  <1>6. ASSUME phase' = "down", files' = files
        PROVE  ClaimsInv'
    <2>1. \A i \in Ids : Claim(i)' = files[i]
      BY <1>6 DEF Claim
    <2>. QED
      BY <1>1, <1>2, <1>6, <2>1, Lighter
  <1>7. ASSUME NEW r \in Readers, (\E id \in Ids : Open(r, id)) \/ Verified(r) \/ Close(r)
        PROVE  ClaimsInv'
    BY <1>5, <1>7 DEF Open, Verified, Close, storeVars, diskVars, sweepVars
  <1>8. ASSUME NEW x \in Ids \cup Readers \cup {"timer"}, BeginSweep(x)
        PROVE  ClaimsInv'
    <2>1. sweep = None
      BY <1>8, Values DEF BeginSweep, Free, IInv, LockInv
    <2>2. UNCHANGED <<files, recs, phase>> /\ sweep' = NewLoop("clean")
      BY <1>8 DEF BeginSweep, diskVars
    <2>3. sweep'.file = None
      BY <2>2 DEF NewLoop
    <2>4. \A i \in Ids : op'[i] = op[i] \/ (op'[i] = None /\ Place(i) = "expired")
      BY <1>1, <1>8, Ends DEF BeginSweep, taskVars, At, Place
    <2>5. \A i \in Ids : Place(i)' \in Holding <=> Place(i) \in Holding
      BY <2>4 DEF Place, Holding
    <2>. QED
      BY <1>4, <2>1, <2>2, <2>3, <2>5
  <1>9. ASSUME NEW id \in Ids, VisitFile(id)
        PROVE  ClaimsInv'
    <2>1. /\ UNCHANGED <<files, op, phase>> /\ sweep # None /\ sweep.file = None
          /\ sweep' # None /\ sweep'.file = id /\ id \in Stored(recs)
          /\ \A i \in Ids : i \in Stored(recs) /\ i # id => i \in Stored(recs)'
          /\ \A i \in Ids : i \in Stored(recs)' => i \in Stored(recs) /\ recs'[i] = recs[i]
      BY <1>1, <1>9, VisitFileMoves
    <2>2. ASSUME NEW i \in Ids
          PROVE  Claim(i)' <= Claim(i) /\ files'[i] <= Claim(i)'
      <3>1. Place(i)' = Place(i) /\ i # None
        BY <2>1, Values DEF Place
      <3>2. CASE i # id
        <4>1. Claim(i)' = Claim(i)
          BY <2>1, <3>1, <3>2 DEF Claim
        <4>. QED
          BY <1>2, <2>1, <4>1
      <3>3. CASE i = id
        <4>1. \/ Claim(i)' = Claim(i)
              \/ Claim(i)' = files[i]
          BY <2>1, <3>1, <3>3 DEF Claim
        <4>. QED
          BY <1>2, <2>1, <4>1
      <3>. QED
        BY <3>2, <3>3
    <2>. QED
      BY <1>1, <2>2, Lighter
  <1>10. CASE UnlinkFile
    <2>1. PICK f \in Ids : f = sweep.file
      BY <1>1, <1>10, UnlinkFileMoves
    <2>2. /\ UNCHANGED <<op, phase>> /\ sweep # None
          /\ sweep' # None /\ sweep'.file = None
          /\ files' = [files EXCEPT ![f] = 0]
          /\ \A i \in Ids : i # f => recs'[i] = recs[i]
          /\ recs'[f] \in {recs[f], None}
      BY <1>1, <1>10, <2>1, UnlinkFileMoves
    <2>3. ASSUME NEW i \in Ids
          PROVE  Claim(i)' <= Claim(i) /\ files'[i] <= Claim(i)'
      <3>1. Place(i)' = Place(i) /\ i # None
        BY <2>2, Values DEF Place
      <3>2. CASE i # f
        <4>1. files'[i] = files[i] /\ (i \in Stored(recs)' <=> i \in Stored(recs))
          BY <1>1, <2>2, <3>2, SameStored DEF Typed
        <4>2. Claim(i)' = Claim(i)
          BY <2>1, <2>2, <3>1, <3>2, <4>1 DEF Claim
        <4>. QED
          BY <1>2, <4>1, <4>2
      <3>3. CASE i = f
        <4>1. files'[i] = 0
          BY <1>1, <2>2, <3>3 DEF Typed
        <4>2. i \in Stored(recs)' => i \in Stored(recs) /\ recs'[i] = recs[i]
          BY <2>2, <3>3 DEF Stored, Held
        <4>3. Claim(i)' = Claim(i) \/ Claim(i)' = 0
          <5>1. CASE phase = "down"
            BY <2>2, <4>1, <5>1 DEF Claim
          <5>2. CASE phase # "down"
            BY <2>2, <3>1, <4>2, <5>2 DEF Claim
          <5>. QED
            BY <5>1, <5>2
        <4>. QED
          BY <1>2, <4>1, <4>3
      <3>. QED
        BY <3>2, <3>3
    <2>. QED
      BY <1>1, <2>3, Lighter
  <1>11. CASE VisitRest
    <2>1. /\ UNCHANGED <<files, op, phase>> /\ sweep # None /\ sweep.file = None
          /\ sweep' # None /\ sweep'.file = None
          /\ \A i \in Ids : i \in Stored(recs)' <=> i \in Stored(recs)
          /\ \A i \in Ids : recs'[i] # None => recs'[i] = recs[i]
      BY <1>1, <1>11, VisitRestMoves
    <2>2. ASSUME NEW i \in Ids
          PROVE  Claim(i)' = Claim(i)
      <3>1. Place(i)' = Place(i) /\ i # None
        BY <2>1, Values DEF Place
      <3>2. i \in Stored(recs)' => recs'[i] = recs[i]
        BY <2>1 DEF Stored, Held
      <3>. QED
        BY <2>1, <3>1, <3>2 DEF Claim
    <2>. QED
      BY <1>3, <2>1, <2>2
  <1>12. CASE EndSweep
    <2>1. UNCHANGED <<files, recs, op, phase>> /\ sweep' = None
      BY <1>12 DEF EndSweep, taskVars
    <2>2. sweep # None => sweep.file = None
      BY <1>1, <1>12 DEF EndSweep, TodoInv
    <2>. QED
      BY <1>4, <2>1, <2>2 DEF Place
  <1>13. CASE Remove
    <2>1. sweep = None /\ sweep' = NewLoop("remove")
      BY <1>13, Values DEF Remove, Free, IInv, LockInv
    <2>2. sweep'.file = None
      BY <2>1 DEF NewLoop
    <2>. QED
      BY <1>4, <1>13, <2>1, <2>2 DEF Remove, diskVars, taskVars, Place
  <1>14. CASE Crash
    BY <1>6, <1>14 DEF Crash
  <1>15. CASE Load
    <2>1. op = Empty /\ sweep = None /\ op' = op /\ sweep' = sweep /\ phase = "down"
            /\ phase' = "loading"
      BY <1>15, Quiet DEF Load, taskVars, sweepVars
    <2>2. ASSUME NEW i \in Ids
          PROVE  Claim(i)' <= Claim(i) /\ files'[i] <= Claim(i)'
      <3>1. Claim(i) = files[i]
        BY <2>1 DEF Claim
      <3>2. Place(i)' \notin Holding
        BY <2>1 DEF Empty, Place, Holding
      <3>3. CASE i \in Stored(recs)'
        <4>1. Claim(i)' = recs'[i].size
          BY <2>1, <3>2, <3>3 DEF Claim
        <4>2. recs'[i].size > 0 /\ recs'[i] # None
          BY <3>3 DEF Stored, Held
        <4>3. recs'[i].size = files[i]
          <5>1. index[i] # None /\ ~Over(index[i])
            BY <1>15, <4>2 DEF Load
          <5>2. PICK e \in Nat, z \in Nat : index[i] = [exp |-> e, size |-> z]
            BY <1>1, <5>1 DEF Typed, Record
          <5>3. recs'[i] = IF ~Expired(index[i]) /\ files[i] = index[i].size
                           THEN index[i] ELSE [index[i] EXCEPT !.size = 0]
            BY <1>15, <5>1 DEF Load
          <5>4. [index[i] EXCEPT !.size = 0].size = 0
            BY <5>2
          <5>. QED
            BY <4>2, <5>3, <5>4
        <4>4. files'[i] = files[i]
          <5>1. files'[i] \in {files[i], 0}
            BY <1>15 DEF Load
          <5>2. Stored(recs)' = Stored(recs')
            BY DEF Stored, Held
          <5>3. i \in Stored(recs')
            BY <3>3, <5>2
          <5>. QED
            BY <1>15, <5>3 DEF Load
        <4>. QED
          BY <1>2, <3>1, <4>1, <4>3, <4>4
      <3>4. CASE i \notin Stored(recs)'
        <4>1. Claim(i)' = 0
          BY <2>1, <3>2, <3>4 DEF Claim
        <4>2. files'[i] = 0
          <5>1. Stored(recs)' = Stored(recs')
            BY DEF Stored, Held
          <5>2. i \notin Stored(recs')
            BY <3>4, <5>1
          <5>. QED
            BY <1>15, <5>2 DEF Load
        <4>. QED
          BY <1>2, <4>1, <4>2
      <3>. QED
        BY <3>3, <3>4
    <2>. QED
      BY <1>1, <2>2, Lighter
  <1>16. CASE Loaded
    <2>1. op = Empty /\ sweep = None /\ op' = op /\ sweep' = sweep /\ phase = "loading"
            /\ files' = files
      BY <1>16, Quiet DEF Loaded, taskVars
    <2>2. CASE phase' = "down"
      BY <1>6, <2>1, <2>2
    <2>3. CASE phase' = "up" /\ recs' = recs
      <3>1. ASSUME NEW i \in Ids
            PROVE  Claim(i)' = Claim(i)
        BY <2>1, <2>3, SameStored DEF Claim, Place
      <3>. QED
        BY <1>3, <2>1, <3>1
    <2>. QED
      BY <1>16, <2>2, <2>3 DEF Loaded
  <1>17. CASE Start \/ Stop \/ Tick \/ UNCHANGED vars
    BY <1>5, <1>17 DEF Start, Stop, Tick, vars, storeVars, diskVars, taskVars, sweepVars
  <1>18. CASE \E id \in Attachments : Answer(id)
    BY <1>5, <1>18 DEF Answer, storeVars, diskVars, taskVars, sweepVars
  <1>. QED
    BY <1>7, <1>8, <1>9, <1>10, <1>11, <1>12, <1>13, <1>14, <1>15, <1>16, <1>17, <1>18
       DEF SweepStep

\* The inductive invariant of the budget, beside IInv.
BudgetInv == BareInv /\ ReservedInv /\ ItemsInv /\ ClaimsInv

\* Nothing is there when the store begins.
LEMMA BudgetInit ==
  ASSUME Init
  PROVE  BudgetInv
  <1>1. /\ files = [i \in Ids |-> 0] /\ index = [i \in Ids |-> None]
        /\ recs = [i \in Ids |-> None] /\ op = [i \in Ids |-> None]
        /\ sweep = None /\ phase = "down" /\ reservations = 0
    BY DEF Init, Empty, Zeros
  <1>2. IsFiniteSet(Ids)
    BY Reserves
  <1>3. BareInv
    BY <1>1 DEF BareInv, TodoInv, BareOK, Place, Bare, Early, Stored, Held
  <1>4. ReservedInv
    <2>1. Reserving = {}
      BY <1>1 DEF Reserving
    <2>. QED
      BY <1>1, <2>1, FS_EmptySet DEF ReservedInv
  <1>5. ItemsInv
    <2>1. Held(recs) = {} /\ Held(index) = {}
      BY <1>1 DEF Held
    <2>2. Cardinality(Held(recs)) = 0 /\ Cardinality(Held(index)) = 0
      BY <2>1, FS_EmptySet
    <2>. QED
      BY <2>2, MediaBoundsAssumption DEF ItemsInv
  <1>6. ClaimsInv
    <2>1. \A i \in Ids : Claim(i) = 0 /\ files[i] = 0 /\ Claims[i] = 0
      BY <1>1 DEF Claim, Claims
    <2>2. Claiming = {}
      BY <2>1 DEF Claiming
    <2>3. Cardinality(Claiming) = 0
      BY <2>2, FS_EmptySet
    <2>4. SumFunctionOnSet(Claims, Ids) = 0
      <3>1. PICK f : f = Claims
        OBVIOUS
      <3>2. \A i \in Ids : f[i] = 0
        BY <2>1, <3>1
      <3>. QED
        BY <1>2, <3>1, <3>2, SumZero
    <2>. QED
      BY <2>1, <2>3, <2>4, MediaBoundsAssumption DEF ClaimsInv
  <1>. QED
    BY <1>3, <1>4, <1>5, <1>6 DEF BudgetInv

\* Every step keeps the budget.
LEMMA BudgetStep ==
  ASSUME IInv, FiledInv, BudgetInv, [Next]_vars
  PROVE  BudgetInv'
  <1>1. IInv'
    BY StepKeeps DEF BudgetInv
  <1>2. BareInv'
    BY BareKept DEF BudgetInv
  <1>3. BareInv /\ TodoInv /\ ReservedInv /\ ItemsInv /\ ClaimsInv
    BY DEF BudgetInv, BareInv
  <1>4. ASSUME NEW id \in Ids,
               (id \in Attachments /\ Observe(id)) \/ Get(id) \/ Stage(id) \/ JobStep(id)
        PROVE  BudgetInv'
    <2>1. phase = "up" /\ Local(id)
      BY <1>3, <1>4, JobLocal
    <2>2. Observe(id) \/ Get(id) \/ Stage(id) \/ JobStep(id)
      BY <1>4
    <2>3. ReservedInv'
      BY <1>3, <2>1, <2>2, ReservedJob
    <2>4. ItemsInv'
      BY <1>3, <2>1, <2>2, ItemsJob
    <2>5. ClaimsInv'
      BY <1>1, <1>3, <2>1, <2>2, ClaimsJob
    <2>. QED
      BY <1>2, <2>3, <2>4, <2>5 DEF BudgetInv
  <1>5. ASSUME
         \/ \E r \in Readers : (\E id \in Ids : Open(r, id)) \/ Verified(r) \/ Close(r)
         \/ \E x \in Ids \cup Readers \cup {"timer"} : BeginSweep(x)
         \/ SweepStep
         \/ (\E id \in Attachments : Answer(id)) \/ UNCHANGED vars
         \/ Start \/ Stop \/ Remove \/ Crash \/ Load \/ Loaded \/ Tick
        PROVE  BudgetInv'
    <2>1. ReservedInv'
      BY <1>3, <1>5, ReservedOther
    <2>2. ItemsInv'
      BY <1>3, <1>5, ItemsOther
    <2>3. ClaimsInv'
      BY <1>1, <1>3, <1>5, ClaimsOther
    <2>. QED
      BY <1>2, <2>1, <2>2, <2>3 DEF BudgetInv
  <1>6. \A id \in Attachments : id \in Ids
    BY Values
  <1>. QED
    BY <1>4, <1>5, <1>6 DEF Next

\* What is on disk is no more than what is claimed, and what a start would keep is on
\* disk.
LEMMA BudgetImplies ==
  ASSUME IInv, BudgetInv
  PROVE  BudgetKept
  <1>1. Typed /\ ReservedInv /\ ItemsInv /\ ClaimsInv /\ IsFiniteSet(Ids)
    BY Reserves DEF IInv, BudgetInv
  <1>2. \A i \in Ids : files[i] \in Nat /\ Claim(i) \in Nat /\ files[i] <= Claim(i)
    BY <1>1, ClaimsAreNat DEF Typed, ClaimsNat, ClaimsInv
  <1>3. ASSUME NEW T \in SUBSET {i \in Ids : files[i] > 0}
        PROVE  Cardinality(T) <= MaxFiles
    <2>1. T \subseteq Claiming /\ Claiming \subseteq Ids
      BY <1>2 DEF Claiming
    <2>2. IsFiniteSet(Claiming)
      BY <1>1, <2>1, FS_Subset
    <2>3. Cardinality(T) <= Cardinality(Claiming) /\ IsFiniteSet(T)
      BY <2>1, <2>2, FS_Subset
    <2>4. Cardinality(T) \in Nat /\ Cardinality(Claiming) \in Nat
      BY <2>2, <2>3, FS_CardinalityType
    <2>. QED
      BY <1>1, <2>3, <2>4, MediaBoundsAssumption DEF ClaimsInv
  <1>4. SumFunctionOnSet(files, Ids) <= CacheBytes /\ SumFunctionOnSet(files, Ids) \in Nat
    <2>1. PICK f : f = Claims
      OBVIOUS
    <2>2. \A i \in Ids : files[i] \in Nat /\ f[i] \in Nat /\ files[i] <= f[i]
      BY <1>2, <2>1 DEF Claims
    <2>3. SumFunctionOnSet(files, Ids) <= SumFunctionOnSet(f, Ids)
      BY <1>1, <2>2, SumMonotone
    <2>4. SumFunctionOnSet(files, Ids) \in Nat /\ SumFunctionOnSet(f, Ids) \in Nat
      BY <1>1, <2>2, SumNat
    <2>. QED
      BY <1>1, <2>1, <2>3, <2>4, MediaBoundsAssumption DEF ClaimsInv
  <1>5. SumFunction(files) <= CacheBytes
    <2>1. DOMAIN files = Ids
      BY <1>1 DEF Typed
    <2>. QED
      BY <1>4, <2>1 DEF SumFunction
  <1>6. WithinBudget(index)
    <2>. DEFINE kept == {i \in Stored(index) : ~Expired(index[i]) /\ files[i] = index[i].size}
                sizes == [i \in kept |-> index[i].size]
    <2>1. kept \in SUBSET {i \in Ids : files[i] > 0} /\ kept \in SUBSET Ids
      BY DEF Stored, Held
    <2>2. \A i \in kept : files[i] = sizes[i]
      OBVIOUS
    <2>3. DOMAIN sizes = kept
      OBVIOUS
    <2>4. SumFunction(sizes) = SumFunctionOnSet(sizes, kept)
      BY <2>3 DEF SumFunction
    <2>5. IsFiniteSet(kept)
      BY <1>1, <2>1, FS_Subset
    <2>6. SumFunctionOnSet(files, kept) <= SumFunctionOnSet(files, Ids)
      <3>. HIDE DEF kept
      <3>. QED
        BY <1>1, <1>2, <2>1, SumSubset
    <2>7. SumFunctionOnSet(files, kept) = SumFunctionOnSet(sizes, kept)
      <3>. HIDE DEF kept, sizes
      <3>. QED
        BY <2>2, <2>5, SumSame
    <2>8. SumFunctionOnSet(files, kept) \in Nat
      <3>. HIDE DEF kept
      <3>. QED
        BY <1>2, <2>1, <2>5, SumNat
    <2>9. SumFunction(sizes) <= CacheBytes
      <3>. HIDE DEF kept, sizes
      <3>. QED
        BY <1>4, <2>4, <2>6, <2>7, <2>8, MediaBoundsAssumption
    <2>10. Cardinality(kept) <= MaxFiles
      <3>. HIDE DEF kept
      <3>. QED
        BY <1>3, <2>1
    <2>. QED
      BY <1>1, <2>9, <2>10 DEF WithinBudget, ItemsInv
  <1>7. Cardinality({i \in Ids : files[i] > 0}) <= MaxFiles
    BY <1>3
  <1>. QED
    BY <1>1, <1>5, <1>6, <1>7 DEF BudgetKept, ReservedInv

\* Over concurrent transfers, failures, cleanups, crashes and starts the files on disk
\* stay within the budget, every reservation is given back exactly once, and the index
\* is one that the next start accepts.
THEOREM BudgetKeptHolds == Spec => []BudgetKept
  <1>1. Init => BudgetInv
    BY BudgetInit
  <1>2. IInv /\ FiledInv /\ BudgetInv /\ [Next]_vars => BudgetInv'
    BY BudgetStep
  <1>3. IInv /\ BudgetInv => BudgetKept
    BY BudgetImplies
  <1>. QED
    BY <1>1, <1>2, <1>3, InvariantHolds, PTL DEF Spec
-----------------------------------------------------------------------------
(***************************************************************************)
(* The timer                                                               *)
(***************************************************************************)

\* Min finds the least of a set of numbers.
LEMMA Least ==
  ASSUME NEW S \in SUBSET Nat, S # {}
  PROVE  Min(S) \in S /\ \A d \in S : Min(S) <= d
  BY LeastNumber DEF Min

\* The timer is set to a time to come, no later than any that is to come.
LEMMA DeadlineValue ==
  ASSUME now \in Nat, NEW m \in [Ids -> Record \cup {None}]
  PROVE  /\ Deadline(m) \in Nat \cup {None}
         /\ \A i \in Held(m), d \in Nat :
              (d = m[i].exp \/ d = m[i].exp + Lifetime) /\ d > now =>
                Deadline(m) # None /\ now < Deadline(m) /\ Deadline(m) <= d
  <1>. DEFINE ahead == {d \in {m[i].exp : i \in Held(m)} \cup
                              {m[i].exp + Lifetime : i \in Held(m)} : d > now}
  <1>1. Deadline(m) = IF ahead = {} THEN None ELSE Min(ahead)
    BY DEF Deadline
  <1>2. \A i \in Held(m) : m[i].exp \in Nat /\ m[i].exp + Lifetime \in Nat
    BY Values DEF Held, Record
  <1>3. ahead \in SUBSET Nat
    BY <1>2
  <1>4. \A d \in ahead : d > now
    OBVIOUS
  <1>5. \A i \in Held(m), d \in Nat :
          (d = m[i].exp \/ d = m[i].exp + Lifetime) /\ d > now => d \in ahead
    OBVIOUS
  <1>. HIDE DEF ahead
  <1>6. ahead # {} => /\ Min(ahead) \in ahead /\ Min(ahead) \in Nat
                      /\ \A d \in ahead : Min(ahead) <= d
    BY <1>3, Least
  <1>. QED
    BY <1>1, <1>3, <1>4, <1>5, <1>6, Values

\* A cleanup runs, or somebody waits for the lock to run one.
Late ==
  \/ \E i \in Ids : Place(i) = "expired"
  \/ \E r \in Readers : reader[r] # None /\ reader[r].at = "expired"
Coming == due \/ sweep # None \/ Late

\* What a cleanup would do something about when its time comes.
Resting(id) == Place(id) \in {"none", "observe"} /\ (leases[id] = 0 \/ ~Expired(recs[id]))
NextTime(id) == IF Expired(recs[id]) THEN recs[id].exp + Lifetime ELSE recs[id].exp
Covered(id) == timer # None /\ now < timer /\ timer <= NextTime(id)

\* A record is not older than its tombstone may be when it comes into the records.
RecentInv ==
  /\ \A id \in Ids : Place(id) \in {"commit", "saving"} => now < op[id].exp + Lifetime
  /\ phase = "loading" => \A id \in Held(recs) : now < recs[id].exp + Lifetime

\* A loop visits every file that had expired when it began, except the file of a reader
\* or of a failed upload: who has it when it ends cleans up again.
LoopInv ==
  sweep # None =>
    /\ sweep.since <= now /\ now <= sweep.since + SweepTime
    /\ sweep.kind = "remove" => Held(recs) \subseteq sweep.todo \cup {sweep.file}
    /\ sweep.kind = "clean" =>
         \A id \in Stored(recs) :
           \/ id \in sweep.todo \/ recs[id].exp > sweep.since \/ leases[id] > 0
           \/ Late \/ Place(id) = "discard"

TimerInv ==
  (phase = "up" /\ failures = 0 /\ ~Coming) =>
    \A id \in Stored(recs) : Resting(id) => Covered(id)

TimeTyped == failures \in Nat /\ timer \in Nat \cup {None}

FileInv == TimeTyped /\ RecentInv /\ LoopInv /\ TimerInv

\* The records of the files.
LEMMA StoredFields ==
  ASSUME Typed, NEW id \in Stored(recs)
  PROVE  /\ id \in Ids /\ id \in Held(recs) /\ recs[id] # None
         /\ recs[id].exp \in Nat /\ recs[id].size \in Nat /\ recs[id].size > 0
  <1>1. recs[id] \in Record
    BY DEF Stored, Held, Typed
  <1>. QED
    BY <1>1 DEF Stored, Held, Record

\* A job that has a file in the record.
LEMMA StoredJob ==
  ASSUME BareInv, IInv, NEW id \in Stored(recs)
  PROVE  /\ Place(id) \in {"none", "observe", "saving", "discard", "expired"}
         /\ Place(id) = "discard" => id \in Uploads
  <1>1. id \in Ids /\ BareOK(id)
    BY DEF BareInv, Stored, Held
  <1>2. Place(id) \in Stages \cup {"none"}
    BY <1>1, JobFields DEF Place, IInv
  <1>. QED
    BY <1>1, <1>2, Values DEF BareOK, Bare, Early, Stages

\* A timer that is not touched stays right while nothing comes under its care.
LEMMA TimerSame ==
  ASSUME Typed, Typed', TimeTyped, TimerInv,
         UNCHANGED <<timer, now, phase, due, sweep>>, failures' = 0 => failures = 0,
         Late => Late',
         ~Late' => \A i \in Ids : i \in Stored(recs)' /\ Resting(i)' =>
           i \in Stored(recs) /\ recs'[i].exp = recs[i].exp /\ Resting(i)
  PROVE  TimerInv'
  <1>. SUFFICES ASSUME phase' = "up", failures' = 0, ~Coming', NEW id \in Stored(recs)',
                       Resting(id)'
                PROVE  Covered(id)'
    BY DEF TimerInv
  <1>1. ~Late' /\ ~Coming /\ phase = "up" /\ failures = 0
    BY DEF Coming
  <1>2. id \in Ids
    BY DEF Stored, Held
  <1>3. id \in Stored(recs) /\ recs'[id].exp = recs[id].exp /\ Resting(id)
    BY <1>1, <1>2
  <1>4. Covered(id)
    BY <1>1, <1>3 DEF TimerInv
  <1>. QED
    BY <1>3, <1>4 DEF Covered, NextTime, Expired

\* A timer that is set anew is right for what is not over.
LEMMA TimerSet ==
  ASSUME Typed, Typed', timer' = Deadline(recs), UNCHANGED <<recs, now>>,
         (phase' = "up" /\ failures' = 0 /\ ~Coming') =>
           \A i \in Stored(recs) : Resting(i)' => now < NextTime(i)
  PROVE  TimerInv'
  <1>. SUFFICES ASSUME phase' = "up", failures' = 0, ~Coming', NEW id \in Stored(recs)', Resting(id)'
                PROVE  Covered(id)'
    BY DEF TimerInv
  <1>1. id \in Stored(recs)
    BY DEF Stored, Held
  <1>2. now < NextTime(id)
    BY <1>1
  <1>3. recs[id].exp \in Nat /\ id \in Held(recs)
    BY <1>1, StoredFields
  <1>4. NextTime(id)' = NextTime(id)
    BY DEF NextTime, Expired
  <1>5. /\ NextTime(id) \in Nat
        /\ NextTime(id) = recs[id].exp \/ NextTime(id) = recs[id].exp + Lifetime
    BY <1>3, Values DEF NextTime
  <1>6. now \in Nat /\ recs \in [Ids -> Record \cup {None}]
    BY DEF Typed
  <1>7. Deadline(recs) # None /\ now < Deadline(recs) /\ Deadline(recs) <= NextTime(id)
    BY <1>2, <1>3, <1>5, <1>6, DeadlineValue
  <1>. QED
    BY <1>4, <1>7 DEF Covered

\* A job that waits to clean up is not the one that takes a step.
LEMMA LateJob ==
  ASSUME IInv, NEW id \in Ids, Local(id), Late,
         Observe(id) \/ Get(id) \/ Stage(id) \/ JobStep(id)
  PROVE  Late'
  <1>1. Place(id) # "expired"
    BY Places DEF JobStep
  <1>2. \A i \in Ids : i # id => Place(i)' = Place(i)
    BY DEF Local, Place
  <1>. QED
    BY <1>1, <1>2 DEF Late, Local

\* The steps that write the index and have set the timer.
Sets(id) == Remembered(id) \/ Saved(id) \/ Undone(id)

\* How a job treats the timer.
LEMMA JobTimer ==
  ASSUME IInv, TimeTyped, NEW id \in Ids,
         Observe(id) \/ Get(id) \/ Stage(id) \/ JobStep(id)
  PROVE  /\ TimeTyped' /\ (failures' = 0 => failures = 0)
         /\ timer' # timer => timer' = Deadline(recs) /\ recs' = recs /\ Sets(id)
  <1>1. now \in Nat /\ recs \in [Ids -> Record \cup {None}] /\ failures \in Nat
    BY DEF IInv, Typed, TimeTyped
  <1>2. Deadline(recs) \in Nat \cup {None}
    BY <1>1, DeadlineValue
  <1>3. ASSUME UNCHANGED <<timer, failures>>
        PROVE  /\ TimeTyped' /\ (failures' = 0 => failures = 0)
               /\ timer' # timer => timer' = Deadline(recs) /\ recs' = recs /\ Sets(id)
    BY <1>3 DEF TimeTyped
  <1>4. ASSUME \E result \in {"ok", "cancelled", "failed"} :
                 Persist(recs, result) /\ (result = "ok" => recs' = recs /\ Sets(id))
        PROVE  /\ TimeTyped' /\ (failures' = 0 => failures = 0)
               /\ timer' # timer => timer' = Deadline(recs) /\ recs' = recs /\ Sets(id)
    <2>1. \/ timer' = Deadline(recs) /\ failures' = failures /\ recs' = recs /\ Sets(id)
          \/ timer' = timer /\ failures' \in {failures, failures + 1}
      BY <1>4 DEF Persist
    <2>. QED
      BY <1>1, <1>2, <2>1 DEF TimeTyped
  <1>5. CASE Remembered(id)
    BY <1>4, <1>5 DEF Remembered, Sets
  <1>6. CASE Saved(id)
    BY <1>4, <1>6 DEF Saved, Sets
  <1>7. CASE NotSaved(id)
    BY <1>4, <1>7 DEF NotSaved
  <1>8. CASE Undone(id)
    BY <1>4, <1>8 DEF Undone, Sets
  <1>9. CASE \/ Observe(id) \/ Get(id) \/ Stage(id) \/ Remember(id) \/ Recognize(id)
             \/ FetchBegins(id) \/ StageBegins(id) \/ Refused(id) \/ Reserve(id)
             \/ GiveUp(id) \/ Create(id) \/ Streamed(id) \/ Broken(id) \/ Checked(id)
             \/ Rejected(id) \/ Commit(id) \/ Discard(id) \/ Undo(id) \/ Unlinked(id)
    BY <1>3, <1>9 DEF Observe, Get, Stage, Remember, Recognize, FetchBegins, StageBegins,
       Refused, Reserve, GiveUp, Create, Streamed, Broken, Checked, Rejected, Commit,
       Discard, Undo, Unlinked, sweepVars
  <1>. QED
    BY <1>5, <1>6, <1>7, <1>8, <1>9 DEF JobStep

\* A file that is left to a cleanup by a job was there before, or was just saved.
LEMMA JobRests ==
  ASSUME IInv, BareInv, NEW id \in Ids,
         Observe(id) \/ Get(id) \/ Stage(id) \/ JobStep(id),
         id \in Stored(recs)', Resting(id)', ~Saved(id)
  PROVE  id \in Stored(recs) /\ recs'[id].exp = recs[id].exp /\ Resting(id)
  <1>1. Place(id)' \in {"none", "observe"}
    BY DEF Resting
  <1>2. BareOK(id)
    BY DEF BareInv
  <1>3. CASE Observe(id) \/ Recognize(id)
    <2>1. UNCHANGED <<recs, leases, now>>
      BY <1>3 DEF Observe, Recognize, storeVars, envVars
    <2>2. Place(id) \in {"none", "observe"}
      BY <1>3, Places
    <2>. QED
      BY <2>1, <2>2, SameStored DEF Resting, Expired
  <1>4. CASE \/ Remembered(id) \/ Refused(id) \/ GiveUp(id) \/ Broken(id) \/ Discard(id)
             \/ Undone(id)
    <2>1. id \notin Stored(recs)
      <3>1. Place(id) \in Bare \/ (id \in Attachments /\ Place(id) = "discard")
        BY <1>4, Places DEF Bare, Early, Discard
      <3>. QED
        BY <1>2, <3>1 DEF BareOK
    <2>2. recs'[id] \in {recs[id], None}
      BY <1>4, QuietRecords, JobRecord DEF Quietly
    <2>3. id \notin Stored(recs)'
      BY <2>1, <2>2 DEF Stored, Held
    <2>. QED
      BY <2>3
  <1>5. CASE \/ Get(id) \/ Stage(id) \/ Remember(id) \/ FetchBegins(id) \/ StageBegins(id)
             \/ Reserve(id) \/ Create(id) \/ Streamed(id) \/ Checked(id) \/ Rejected(id)
             \/ Commit(id) \/ NotSaved(id) \/ Undo(id) \/ Unlinked(id)
    BY <1>1, <1>5, Places
  <1>. QED
    BY <1>3, <1>4, <1>5 DEF JobStep

\* The timer after the step of a job.
LEMMA TimerJob ==
  ASSUME IInv, IInv', BareInv, TimeTyped, RecentInv, TimerInv, NEW id \in Ids, Local(id),
         Observe(id) \/ Get(id) \/ Stage(id) \/ JobStep(id)
  PROVE  TimerInv'
  <1>1. Typed /\ Typed' /\ (Late => Late')
    BY LateJob DEF IInv
  <1>2. UNCHANGED <<now, phase, due, sweep>> /\ (failures' = 0 => failures = 0)
    BY JobTimer DEF Local
  <1>3. \A i \in Ids : i # id /\ i \in Stored(recs)' /\ Resting(i)' =>
          i \in Stored(recs) /\ recs'[i] = recs[i] /\ Resting(i)
    <2>. SUFFICES ASSUME NEW i \in Ids, i # id, i \in Stored(recs)', Resting(i)'
                  PROVE  i \in Stored(recs) /\ recs'[i] = recs[i] /\ Resting(i)
      OBVIOUS
    <2>1. /\ recs'[i] = recs[i] /\ leases'[i] = leases[i] /\ Place(i)' = Place(i)
          /\ now' = now
      BY DEF Local, Place
    <2>. QED
      BY <2>1, SameStored DEF Resting, Expired
  <1>4. CASE timer' = timer /\ ~Saved(id)
    <2>1. \A i \in Ids : i \in Stored(recs)' /\ Resting(i)' =>
            i \in Stored(recs) /\ recs'[i].exp = recs[i].exp /\ Resting(i)
      BY <1>3, <1>4, JobRests
    <2>. QED
      BY <1>1, <1>2, <1>4, <2>1, TimerSame
  <1>5. CASE timer' = Deadline(recs) /\ recs' = recs /\ Sets(id)
    <2>1. ASSUME phase' = "up", failures' = 0, ~Coming', NEW i \in Stored(recs), Resting(i)'
          PROVE  now < NextTime(i)
      <3>1. ~Coming /\ phase = "up" /\ failures = 0
        BY <1>1, <1>2, <2>1 DEF Coming
      <3>2. i \in Ids /\ i \in Stored(recs)' /\ recs[i].exp \in Nat /\ now \in Nat
        BY <1>1, <1>5, StoredFields DEF Stored, Held, Typed
      <3>3. CASE i = id /\ Saved(id)
        <4>1. Place(id) = "saving" /\ op[id] # None /\ op[id].at = "saving"
          BY <3>3, Places DEF Place, Saved, At
        <4>2. recs[id] = [exp |-> op[id].exp, size |-> op[id].size]
          BY <4>1, Job1 DEF JobOK
        <4>3. recs[id].exp = op[id].exp
          BY <4>2
        <4>4. now < recs[id].exp + Lifetime
          BY <4>1, <4>3 DEF RecentInv
        <4>. QED
          BY <3>2, <3>3, <4>4 DEF NextTime, Expired
      <3>4. CASE ~(i = id /\ Saved(id))
        <4>1. Resting(i)
          BY <1>3, <2>1, <3>2, <3>4, JobRests
        <4>2. Covered(i)
          BY <3>1, <4>1 DEF TimerInv
        <4>3. NextTime(i) \in Nat /\ timer \in Nat
          BY <3>2, <4>2, Values DEF Covered, TimeTyped, NextTime
        <4>. QED
          BY <3>2, <4>2, <4>3 DEF Covered
      <3>. QED
        BY <3>3, <3>4
    <2>. QED
      BY <1>1, <1>2, <1>5, <2>1, TimerSet
  <1>6. Saved(id) => timer' = Deadline(recs) /\ recs' = recs
    BY DEF Saved, Persist
  <1>. QED
    BY <1>4, <1>5, <1>6, JobTimer DEF Sets

\* A job saves a record before the time of its tombstone is over.
LEMMA RecentJob ==
  ASSUME IInv, RecentInv, NEW id \in Ids, Local(id), phase = "up",
         Observe(id) \/ Get(id) \/ Stage(id) \/ JobStep(id)
  PROVE  RecentInv'
  <1>1. Typed /\ phase' = "up" /\ now' = now /\ now \in Nat
    BY DEF IInv, Typed, Local
  <1>2. ASSUME NEW i \in Ids, i # id, Place(i)' \in {"commit", "saving"}
        PROVE  now' < op'[i].exp + Lifetime
    <2>1. op'[i] = op[i]
      BY <1>2 DEF Local
    <2>2. Place(i)' = Place(i)
      BY <2>1 DEF Place
    <2>. QED
      BY <1>1, <1>2, <2>1, <2>2 DEF RecentInv
  <1>3. ASSUME Place(id)' \in {"commit", "saving"}
        PROVE  now' < op'[id].exp + Lifetime
    <2>1. Checked(id) \/ Commit(id)
      BY <1>3, Places DEF JobStep, Gone
    <2>2. op[id] # None /\ "commit" \in Stages /\ "saving" \in Stages
      BY <2>1 DEF Checked, Commit, At, Stages
    <2>3. op'[id].exp = op[id].exp /\ op[id].exp \in Nat
      BY <1>1, <2>1, <2>2, GoesTo, JobFields DEF Checked, Commit
    <2>4. CASE Checked(id)
      BY <1>1, <2>3, <2>4, Values DEF Checked, Expired
    <2>5. CASE Commit(id)
      BY <1>1, <2>3, <2>5, Places DEF RecentInv
    <2>. QED
      BY <2>1, <2>4, <2>5
  <1>4. \A i \in Ids : Place(i)' \in {"commit", "saving"} => now' < op'[i].exp + Lifetime
    BY <1>2, <1>3
  <1>. QED
    BY <1>1, <1>4 DEF RecentInv

\* Who ends the last lease of an expired file cleans up.
LEMMA JobLeases ==
  ASSUME IInv, NEW id \in Ids, Observe(id) \/ Get(id) \/ Stage(id) \/ JobStep(id),
         recs[id] # None, leases[id] > 0
  PROVE  leases'[id] > 0 \/ Place(id)' = "expired" \/ ~Expired(recs[id])
  <1>1. Typed /\ leases \in [Ids -> Nat]
    BY DEF IInv, Typed
  <1>2. ASSUME op[id] # None, Leave(id)
        PROVE  leases'[id] > 0 \/ Place(id)' = "expired" \/ ~Expired(recs[id])
    <2>1. CASE id \in Uploads
      <3>1. leases' = leases
        BY <1>2, <2>1 DEF Leave
      <3>. QED
        BY <3>1
    <2>2. CASE id \notin Uploads /\ Expired(recs[id])
      <3>1. Goto(id, "expired") /\ "expired" \in Stages
        BY <1>2, <2>2 DEF Leave, Stages
      <3>2. Place(id)' = "expired"
        BY <1>1, <1>2, <3>1, GoesTo
      <3>. QED
        BY <3>2
    <2>. QED
      BY <2>1, <2>2
  <1>3. CASE GiveUp(id) \/ Broken(id) \/ Saved(id) \/ Discard(id)
    BY <1>2, <1>3 DEF GiveUp, Broken, Saved, Discard, At
  <1>4. CASE FetchBegins(id)
    <2>1. leases' = [leases EXCEPT ![id] = @ + 1]
      BY <1>4 DEF FetchBegins
    <2>2. leases'[id] = leases[id] + 1
      BY <1>1, <2>1
    <2>. QED
      BY <1>1, <2>2
  <1>5. CASE \/ Observe(id) \/ Get(id) \/ Stage(id) \/ Remember(id) \/ Recognize(id)
             \/ Remembered(id) \/ StageBegins(id) \/ Refused(id) \/ Reserve(id)
             \/ Create(id) \/ Streamed(id) \/ Checked(id) \/ Rejected(id) \/ Commit(id)
             \/ NotSaved(id) \/ Undo(id) \/ Unlinked(id) \/ Undone(id)
    <2>1. leases' = leases
      BY <1>5 DEF Observe, Get, Stage, Remember, Recognize, Remembered, StageBegins,
         Refused, Reserve, Create, Streamed, Checked, Rejected, Commit, NotSaved, Undo,
         Unlinked, Undone, storeVars
    <2>. QED
      BY <2>1
  <1>. QED
    BY <1>3, <1>4, <1>5 DEF JobStep

\* A job that runs beside a loop.
LEMMA LoopJob ==
  ASSUME IInv, BareInv, LoopInv, NEW id \in Ids, Local(id),
         Observe(id) \/ Get(id) \/ Stage(id) \/ JobStep(id)
  PROVE  LoopInv'
  <1>. SUFFICES ASSUME sweep # None
                PROVE  LoopInv'
    BY DEF LoopInv, Local
  <1>1. lock = "sweep" /\ lock # id /\ lock # None
    BY LoopThere, Values
  <1>2. sweep' = sweep /\ recs' = recs /\ now' = now /\ now \in Nat /\ sweep.since \in Nat
    BY <1>1, LoopThere DEF Local, Loop, IInv, Typed
  <1>3. Late => Late'
    BY LateJob
  <1>4. Stored(recs)' = Stored(recs) /\ Held(recs)' = Held(recs)
    BY <1>2
  <1>5. ASSUME sweep.kind = "clean", NEW i \in Stored(recs)
        PROVE  \/ i \in sweep.todo \/ recs[i].exp > sweep.since \/ leases'[i] > 0
               \/ Late' \/ Place(i)' = "discard"
    <2>1. \/ i \in sweep.todo \/ recs[i].exp > sweep.since \/ leases[i] > 0
          \/ Late \/ Place(i) = "discard"
      BY <1>5 DEF LoopInv
    <2>2. i \in Ids /\ recs[i] # None /\ recs[i].exp \in Nat
      BY StoredFields DEF IInv
    <2>3. CASE i # id
      <3>1. leases'[i] = leases[i] /\ Place(i)' = Place(i)
        BY <2>2, <2>3 DEF Local, Place
      <3>. QED
        BY <1>3, <2>1, <3>1
    <2>4. CASE i = id /\ leases[i] > 0
      <3>1. leases'[id] > 0 \/ Place(id)' = "expired" \/ ~Expired(recs[id])
        BY <2>2, <2>4, JobLeases
      <3>2. Place(id)' = "expired" => Late'
        BY DEF Late
      <3>3. ~Expired(recs[id]) => recs[id].exp > sweep.since
        <4>1. sweep.since <= now
          BY DEF LoopInv
        <4>. QED
          BY <1>2, <2>2, <2>4, <4>1 DEF Expired
      <3>. QED
        BY <2>4, <3>1, <3>2, <3>3
    <2>5. CASE i = id /\ Place(i) = "discard"
      <3>1. id \in Uploads /\ id \notin Attachments
        BY <2>5, StoredJob, Values
      <3>2. FALSE
        <4>1. Discard(id) \/ Undo(id)
          BY <2>5, Places DEF JobStep
        <4>. QED
          BY <1>1, <3>1, <4>1 DEF Discard, Undo, Free
      <3>. QED
        BY <3>2
    <2>. QED
      BY <1>3, <2>1, <2>3, <2>4, <2>5
  <1>6. LoopInv'
    BY <1>2, <1>4, <1>5 DEF LoopInv
  <1>. QED
    BY <1>6

\* Steps of readers, and of nobody: who ends the last lease of an expired file cleans up.
LEMMA FileReader ==
  ASSUME IInv, IInv', FileInv,
         UNCHANGED <<recs, op, sweep, timer, due, phase, now, failures>>,
         Late => Late',
         \A i \in Ids : recs[i] # None /\ Expired(recs[i]) /\ leases[i] > 0 =>
           leases'[i] > 0 \/ Late'
  PROVE  FileInv'
  <1>1. /\ Typed /\ Typed' /\ TimeTyped /\ RecentInv /\ LoopInv /\ TimerInv
        /\ leases \in [Ids -> Nat] /\ leases' \in [Ids -> Nat] /\ now \in Nat
    BY DEF IInv, FileInv, Typed
  <1>2. \A i \in Ids : Place(i)' = Place(i)
    BY DEF Place
  <1>3. TimeTyped' /\ RecentInv'
    BY <1>1, <1>2 DEF TimeTyped, RecentInv, Held
  <1>4. TimerInv'
    <2>1. ASSUME ~Late', NEW i \in Ids, i \in Stored(recs)', Resting(i)'
          PROVE  i \in Stored(recs) /\ recs'[i].exp = recs[i].exp /\ Resting(i)
      <3>1. i \in Stored(recs) /\ recs[i] # None
        BY <2>1 DEF Stored, Held
      <3>2. leases[i] = 0 \/ ~Expired(recs[i])
        BY <1>1, <2>1, <3>1 DEF Resting, Expired
      <3>. QED
        BY <1>2, <2>1, <3>1, <3>2 DEF Resting
    <2>. QED
      BY <1>1, <2>1, TimerSame
  <1>5. LoopInv'
    <2>. SUFFICES ASSUME sweep # None
                  PROVE  LoopInv'
      BY DEF LoopInv
    <2>1. sweep.since \in Nat /\ sweep.since <= now
      BY <1>1, LoopThere DEF LoopInv, Loop
    <2>2. ASSUME sweep.kind = "clean", NEW i \in Stored(recs)
          PROVE  \/ i \in sweep.todo \/ recs[i].exp > sweep.since \/ leases'[i] > 0
                 \/ Late' \/ Place(i)' = "discard"
      <3>1. \/ i \in sweep.todo \/ recs[i].exp > sweep.since \/ leases[i] > 0
            \/ Late \/ Place(i) = "discard"
        BY <1>1, <2>2 DEF LoopInv
      <3>2. i \in Ids /\ recs[i] # None /\ recs[i].exp \in Nat
        BY <1>1, <2>2, StoredFields
      <3>3. ~Expired(recs[i]) => recs[i].exp > sweep.since
        BY <1>1, <2>1, <3>2 DEF Expired
      <3>. QED
        BY <1>2, <3>1, <3>2, <3>3
    <2>3. Held(recs') = Held(recs) /\ Stored(recs') = Stored(recs)
      OBVIOUS
    <2>. QED
      BY <1>1, <2>2, <2>3 DEF LoopInv
  <1>. QED
    BY <1>3, <1>4, <1>5 DEF FileInv

\* A reader opens a file that has not expired.
LEMMA FileOpen ==
  ASSUME IInv, IInv', FileInv, NEW r \in Readers, NEW id \in Ids, Open(r, id)
  PROVE  FileInv'
  <1>1. UNCHANGED <<recs, op, sweep, timer, due, phase, now, failures>>
    BY DEF Open, sweepVars, envVars
  <1>2. /\ leases \in [Ids -> Nat] /\ leases' = [leases EXCEPT ![id] = @ + 1]
        /\ reader[r] = None /\ reader \in [Readers -> Reading \cup {None}]
        /\ reader' = [reader EXCEPT ![r] = [id |-> id, at |-> "verify"]]
    BY DEF Open, IInv, Typed
  <1>3. \A i \in Ids : leases[i] > 0 => leases'[i] > 0
    BY <1>2
  <1>4. \A s \in Readers : s # r => reader'[s] = reader[s]
    BY <1>2
  <1>5. Late => Late'
    BY <1>1, <1>2, <1>4 DEF Late, Place
  <1>. QED
    BY <1>1, <1>3, <1>5, FileReader

\* A reader goes on.
LEMMA FileVerified ==
  ASSUME IInv, IInv', FileInv, NEW r \in Readers, Verified(r)
  PROVE  FileInv'
  <1>1. UNCHANGED <<recs, leases, op, sweep, timer, due, phase, now, failures>>
    BY DEF Verified, sweepVars, envVars, storeVars
  <1>2. /\ reader[r].at = "verify" /\ reader \in [Readers -> Reading \cup {None}]
        /\ reader' = [reader EXCEPT ![r].at = "open"]
    BY DEF Verified, IInv, Typed
  <1>3. \A s \in Readers : s # r => reader'[s] = reader[s]
    BY <1>2
  <1>4. Late => Late'
    BY <1>1, <1>2, <1>3 DEF Late, Place
  <1>. QED
    BY <1>1, <1>4, FileReader

\* A reader that ends cleans up what expired meanwhile.
LEMMA FileClose ==
  ASSUME IInv, IInv', FileInv, NEW r \in Readers, Close(r)
  PROVE  FileInv'
  <1>1. UNCHANGED <<recs, op, sweep, timer, due, phase, now, failures>>
    BY DEF Close, sweepVars, envVars
  <1>2. PICK id \in Ids : id = reader[r].id
    BY ReaderThere DEF Close
  <1>3. /\ leases \in [Ids -> Nat] /\ leases' = [leases EXCEPT ![id] = @ - 1]
        /\ reader[r].at \in {"verify", "open"} /\ reader \in [Readers -> Reading \cup {None}]
        /\ reader' = [reader EXCEPT ![r] =
             IF recs[id] # None /\ Expired(recs[id])
             THEN [id |-> id, at |-> "expired"] ELSE None]
    BY <1>2 DEF Close, IInv, Typed
  <1>4. \A s \in Readers : s # r => reader'[s] = reader[s]
    BY <1>3
  <1>5. Late => Late'
    BY <1>1, <1>3, <1>4 DEF Late, Place
  <1>6. ASSUME recs[id] # None, Expired(recs[id])
        PROVE  Late'
    <2>1. reader'[r] = [id |-> id, at |-> "expired"]
      BY <1>3, <1>6
    <2>2. [id |-> id, at |-> "expired"] \in Reading
      BY DEF Reading, ReaderStages
    <2>3. reader'[r] # None
      BY <2>1, <2>2, Values
    <2>4. reader'[r].at = "expired"
      BY <2>1
    <2>. QED
      BY <2>3, <2>4 DEF Late
  <1>7. \A i \in Ids : i # id => leases'[i] = leases[i]
    BY <1>3
  <1>. QED
    BY <1>1, <1>5, <1>6, <1>7, FileReader

\* A loop begins with all records.
LEMMA FileBegin ==
  ASSUME IInv, IInv', FileInv, UNCHANGED <<recs, timer, phase, now, failures>>,
         NEW kind \in Kinds, sweep' = NewLoop(kind),
         \A i \in Ids : op'[i] \in {op[i], None}
  PROVE  FileInv'
  <1>1. /\ Typed /\ TimeTyped /\ RecentInv /\ now \in Nat /\ SweepTime \in Nat
        /\ recs \in [Ids -> Record \cup {None}]
    BY MediaBoundsAssumption DEF IInv, FileInv, Typed
  <1>2. /\ sweep'.kind = kind /\ sweep'.todo = Held(recs) /\ sweep'.file = None
        /\ sweep'.since = now
    BY DEF NewLoop
  <1>3. sweep' # None
    <2>1. Held(recs) \in SUBSET Ids
      BY DEF Held
    <2>2. sweep' \in Loop
      BY <1>1, <2>1 DEF NewLoop, Loop
    <2>. QED
      BY <2>2, Values
  <1>4. TimeTyped'
    BY <1>1 DEF TimeTyped
  <1>5. RecentInv'
    <2>1. ASSUME NEW i \in Ids, Place(i)' \in {"commit", "saving"}
          PROVE  now' < op'[i].exp + Lifetime
      <3>1. op'[i] = op[i]
        BY <2>1 DEF Place
      <3>2. Place(i)' = Place(i)
        BY <3>1 DEF Place
      <3>. QED
        BY <1>1, <2>1, <3>1, <3>2 DEF RecentInv
    <2>. QED
      BY <1>1, <2>1 DEF RecentInv, Held
  <1>6. LoopInv'
    <2>1. Held(recs)' = sweep'.todo /\ Stored(recs)' \subseteq sweep'.todo
      BY <1>2 DEF Held, Stored
    <2>. QED
      BY <1>1, <1>2, <2>1 DEF LoopInv
  <1>7. TimerInv'
    BY <1>3 DEF TimerInv, Coming
  <1>. QED
    BY <1>4, <1>5, <1>6, <1>7 DEF FileInv

\* A loop leaves no file behind whose time had come when it began.
LEMMA FileLoop ==
  ASSUME IInv, IInv', BareInv, FileInv,
         UNCHANGED <<op, reader, leases, phase, now, timer, failures>>,
         sweep # None, sweep' # None,
         sweep'.kind = sweep.kind, sweep'.since = sweep.since,
         sweep.kind = "remove" => Held(recs)' \subseteq sweep'.todo \cup {sweep'.file},
         sweep.kind = "clean" =>
           \A i \in Stored(recs)' :
             /\ i \in Stored(recs) /\ recs'[i] = recs[i]
             /\ i \in sweep.todo => i \in sweep'.todo \/ ~Swept(i)
  PROVE  FileInv'
  <1>1. /\ Typed /\ TimeTyped /\ RecentInv /\ LoopInv /\ now \in Nat
        /\ leases \in [Ids -> Nat] /\ sweep.since \in Nat
    BY LoopThere DEF IInv, FileInv, Typed, Loop
  <1>2. (\A i \in Ids : Place(i)' = Place(i)) /\ (Late => Late')
    BY DEF Place, Late
  <1>3. TimeTyped'
    BY <1>1 DEF TimeTyped
  <1>4. RecentInv'
    <2>1. phase # "loading"
      BY LoopThere
    <2>. QED
      BY <1>1, <1>2, <2>1 DEF RecentInv
  <1>5. TimerInv'
    BY DEF TimerInv, Coming
  <1>6. ASSUME sweep.kind = "clean", NEW i \in Stored(recs)'
        PROVE  \/ i \in sweep'.todo \/ recs'[i].exp > sweep.since \/ leases[i] > 0
               \/ Late' \/ Place(i)' = "discard"
    <2>1. i \in Stored(recs) /\ recs'[i] = recs[i]
      BY <1>6
    <2>2. i \in Ids /\ recs[i] # None /\ recs[i].exp \in Nat
      BY <1>1, <2>1, StoredFields
    <2>3. \/ i \in sweep.todo \/ recs[i].exp > sweep.since \/ leases[i] > 0
          \/ Late \/ Place(i) = "discard"
      BY <1>1, <1>6, <2>1 DEF LoopInv
    <2>4. i \in sweep.todo => i \in sweep'.todo \/ ~Swept(i)
      BY <1>6
    <2>5. ~Swept(i) => recs[i].exp > sweep.since \/ leases[i] > 0
      BY <1>1, <2>2 DEF Swept, Expired, LoopInv
    <2>. QED
      BY <1>2, <2>1, <2>2, <2>3, <2>4, <2>5
  <1>7. LoopInv'
    BY <1>1, <1>6 DEF LoopInv
  <1>. QED
    BY <1>3, <1>4, <1>5, <1>7 DEF FileInv

\* The loop takes a file out of its record.
LEMMA FileVisit ==
  ASSUME IInv, IInv', BareInv, FileInv, NEW id \in Ids, VisitFile(id)
  PROVE  FileInv'
  <1>. DEFINE Moved == UNCHANGED <<op, reader, leases, phase, now, timer, failures>>
  <1>1. TodoInv /\ LoopInv
    BY DEF BareInv, FileInv
  <1>2. /\ Moved /\ sweep # None /\ sweep' # None /\ sweep.file = None
        /\ sweep'.kind = sweep.kind /\ sweep'.since = sweep.since /\ sweep'.file = id
    BY <1>1, VisitFileMoves
  <1>3. ASSUME sweep.kind = "remove"
        PROVE  Held(recs)' \subseteq sweep'.todo \cup {sweep'.file}
    <2>. SUFFICES ASSUME NEW i \in Ids, recs'[i] # None
                  PROVE  i \in sweep'.todo \cup {sweep'.file}
      BY DEF Held
    <2>1. recs[i] # None
      BY <1>1, VisitFileMoves
    <2>2. i \in sweep.todo
      BY <1>1, <1>2, <1>3, <2>1, Values DEF LoopInv, Held
    <2>3. i \in sweep'.todo \cup {id}
      BY <1>1, <1>3, <2>2, VisitFileMoves
    <2>. QED
      BY <1>2, <2>3
  <1>4. ASSUME sweep.kind = "clean", NEW i \in Stored(recs)'
        PROVE  /\ i \in Stored(recs) /\ recs'[i] = recs[i]
               /\ i \in sweep.todo => i \in sweep'.todo \/ ~Swept(i)
    <2>1. i \in Ids
      BY DEF Stored, Held
    <2>2. id \notin Stored(recs)'
      BY <1>1, <1>4, VisitFileMoves
    <2>3. /\ i \in Stored(recs) /\ recs'[i] = recs[i]
          /\ i \in sweep.todo => i \in sweep'.todo \cup {id} \/ ~Swept(i)
      BY <1>1, <1>4, <2>1, VisitFileMoves
    <2>. QED
      BY <1>4, <2>2, <2>3
  <1>. QED
    BY <1>2, <1>3, <1>4, FileLoop

\* The loop unlinks it.
LEMMA FileUnlink ==
  ASSUME IInv, IInv', BareInv, FileInv, UnlinkFile
  PROVE  FileInv'
  <1>. DEFINE Moved == UNCHANGED <<op, reader, leases, phase, now, timer, failures>>
  <1>1. TodoInv /\ LoopInv
    BY DEF BareInv, FileInv
  <1>2. PICK f \in Ids : f = sweep.file
    BY <1>1, UnlinkFileMoves
  <1>3. /\ Moved /\ sweep # None /\ sweep' # None /\ sweep'.file = None
        /\ sweep'.kind = sweep.kind /\ sweep'.since = sweep.since
        /\ sweep'.todo = sweep.todo
    BY <1>1, UnlinkFileMoves
  <1>4. /\ \A i \in Ids : i # f => recs'[i] = recs[i]
        /\ recs'[f] \in {recs[f], None}
        /\ sweep.kind = "remove" => recs'[f] = None
    BY <1>1, <1>2, UnlinkFileMoves
  <1>5. ASSUME sweep.kind = "remove"
        PROVE  Held(recs)' \subseteq sweep'.todo \cup {sweep'.file}
    <2>. SUFFICES ASSUME NEW i \in Ids, recs'[i] # None
                  PROVE  i \in sweep'.todo
      BY DEF Held
    <2>1. i # f /\ recs[i] # None
      BY <1>4, <1>5
    <2>. QED
      BY <1>1, <1>2, <1>3, <1>5, <2>1 DEF LoopInv, Held
  <1>6. ASSUME sweep.kind = "clean", NEW i \in Stored(recs)'
        PROVE  /\ i \in Stored(recs) /\ recs'[i] = recs[i]
               /\ i \in sweep.todo => i \in sweep'.todo \/ ~Swept(i)
    BY <1>3, <1>4 DEF Stored, Held
  <1>. QED
    BY <1>3, <1>5, <1>6, FileLoop

\* The loop visits what is left.
LEMMA FileRest ==
  ASSUME IInv, IInv', BareInv, FileInv, VisitRest
  PROVE  FileInv'
  <1>. DEFINE Moved == UNCHANGED <<op, reader, leases, phase, now, timer, failures>>
  <1>1. TodoInv /\ LoopInv
    BY DEF BareInv, FileInv
  <1>2. /\ Moved /\ sweep # None /\ sweep' # None /\ sweep.file = None
        /\ sweep'.kind = sweep.kind /\ sweep'.since = sweep.since
    BY <1>1, VisitRestMoves
  <1>3. ASSUME sweep.kind = "remove"
        PROVE  Held(recs)' \subseteq sweep'.todo \cup {sweep'.file}
    <2>. SUFFICES ASSUME NEW i \in Ids, recs'[i] # None
                  PROVE  FALSE
      BY DEF Held
    <2>1. recs[i] # None
      BY <1>1, VisitRestMoves
    <2>2. i \in sweep.todo
      BY <1>1, <1>2, <1>3, <2>1, Values DEF LoopInv, Held
    <2>. QED
      BY <1>1, <1>3, <2>2, VisitRestMoves
  <1>4. ASSUME sweep.kind = "clean", NEW i \in Stored(recs)'
        PROVE  /\ i \in Stored(recs) /\ recs'[i] = recs[i]
               /\ i \in sweep.todo => i \in sweep'.todo \/ ~Swept(i)
    <2>1. i \in Ids /\ recs'[i] # None
      BY DEF Stored, Held
    <2>2. i \in Stored(recs) /\ recs'[i] = recs[i]
      BY <1>1, <2>1, VisitRestMoves
    <2>3. i \in sweep.todo => ~Swept(i)
      BY <1>1, VisitRestMoves
    <2>. QED
      BY <2>2, <2>3
  <1>. QED
    BY <1>2, <1>3, <1>4, FileLoop

\* A loop that ends sets the timer for whatever has not expired meanwhile.
LEMMA FileEnd ==
  ASSUME IInv, IInv', BareInv, FileInv, EndSweep
  PROVE  FileInv'
  <1>1. /\ Typed /\ Typed' /\ TimeTyped /\ RecentInv /\ LoopInv /\ TodoInv /\ now \in Nat
        /\ recs \in [Ids -> Record \cup {None}] /\ leases \in [Ids -> Nat]
    BY DEF IInv, BareInv, FileInv, Typed
  <1>2. /\ UNCHANGED <<recs, leases, op, reader, due, phase, now>> /\ sweep # None
        /\ sweep.writing /\ sweep' = None
    BY DEF EndSweep, taskVars, envVars
  <1>3. \/ timer' = Deadline(recs) /\ failures' = failures
        \/ timer' = timer /\ failures' = failures + 1
    BY DEF EndSweep, Persist
  <1>4. TimeTyped'
    <2>1. Deadline(recs) \in Nat \cup {None}
      BY <1>1, DeadlineValue
    <2>. QED
      BY <1>1, <1>3, <2>1 DEF TimeTyped
  <1>5. (\A i \in Ids : Place(i)' = Place(i)) /\ Late' = Late
    BY <1>2 DEF Place, Late
  <1>6. RecentInv'
    BY <1>1, <1>2, <1>5 DEF RecentInv, Held
  <1>7. LoopInv'
    BY <1>2 DEF LoopInv
  <1>8. TimerInv'
    <2>1. CASE failures' = failures + 1
      BY <1>1, <2>1 DEF TimerInv, TimeTyped
    <2>2. CASE timer' = Deadline(recs)
      <3>1. ASSUME ~Coming', NEW i \in Stored(recs), Resting(i)'
            PROVE  now < NextTime(i)
        <4>1. i \in Ids /\ i \in Held(recs) /\ recs[i].exp \in Nat
          BY <1>1, StoredFields
        <4>2. sweep.todo = {} /\ sweep.file = None /\ sweep.since \in Nat
                /\ sweep.kind \in Kinds /\ i # None
          BY <1>1, <1>2, LoopThere, Values, <4>1 DEF TodoInv, Loop
        <4>3. sweep.kind = "clean"
          BY <1>1, <1>2, <4>1, <4>2 DEF LoopInv, Kinds
        <4>4. ~Late /\ Place(i) \in {"none", "observe"}
                /\ (leases[i] = 0 \/ ~Expired(recs[i]))
          BY <1>2, <1>5, <3>1, <4>1 DEF Coming, Resting, Expired
        <4>5. recs[i].exp > sweep.since \/ leases[i] > 0
          BY <1>1, <1>2, <4>2, <4>3, <4>4 DEF LoopInv
        <4>6. CASE ~Expired(recs[i])
          BY <1>1, <4>1, <4>6 DEF Expired, NextTime
        <4>7. CASE Expired(recs[i])
          <5>1. recs[i].exp > sweep.since
            BY <4>4, <4>5, <4>7
          <5>2. now <= sweep.since + SweepTime /\ SweepTime < Lifetime
                  /\ SweepTime \in Nat /\ Lifetime \in Nat
            BY <1>1, <1>2, MediaBoundsAssumption DEF LoopInv
          <5>3. now < recs[i].exp + Lifetime
            BY <1>1, <4>1, <4>2, <5>1, <5>2
          <5>. QED
            BY <4>7, <5>3 DEF NextTime
        <4>. QED
          BY <4>6, <4>7
      <3>. QED
        BY <1>1, <1>2, <2>2, <3>1, TimerSet
    <2>. QED
      BY <1>3, <2>1, <2>2
  <1>. QED
    BY <1>4, <1>6, <1>7, <1>8 DEF FileInv

\* A crash leaves nothing to a timer.
LEMMA FileCrash ==
  ASSUME IInv, FileInv, Crash
  PROVE  FileInv'
  <1>1. timer' = None /\ failures' = failures /\ phase' = "down" /\ sweep' = None
          /\ \A i \in Ids : op'[i] = None
    BY DEF Crash, Empty
  <1>2. TimeTyped'
    BY <1>1 DEF FileInv, TimeTyped
  <1>3. RecentInv'
    BY <1>1 DEF RecentInv, Place
  <1>. QED
    BY <1>1, <1>2, <1>3 DEF FileInv, LoopInv, TimerInv

\* A start reads no tombstone that is over.
LEMMA FileLoad ==
  ASSUME IInv, FileInv, Load
  PROVE  FileInv'
  <1>1. phase = "down" /\ index \in [Ids -> Record \cup {None}] /\ now \in Nat
    BY DEF Load, IInv, Typed
  <1>2. UNCHANGED <<op, sweep, timer, due, failures, now>> /\ phase' = "loading"
    BY DEF Load, taskVars, sweepVars, envVars
  <1>3. sweep = None /\ \A i \in Ids : op[i] = None
    BY <1>1, Quiet
  <1>4. \A i \in Ids :
          LET rec == IF index[i] = None \/ Over(index[i]) THEN None
                     ELSE IF ~Expired(index[i]) /\ files[i] = index[i].size THEN index[i]
                     ELSE [index[i] EXCEPT !.size = 0]
          IN recs'[i] = rec
    BY DEF Load
  <1>5. ASSUME NEW i \in Ids, recs'[i] # None
        PROVE  now < recs'[i].exp + Lifetime
    <2>1. index[i] # None /\ ~Over(index[i]) /\ index[i] \in Record
      BY <1>1, <1>4, <1>5
    <2>2. recs'[i].exp = index[i].exp
      <3>1. PICK e \in Nat, z \in Nat : index[i] = [exp |-> e, size |-> z]
        BY <2>1 DEF Record
      <3>2. recs'[i] = index[i] \/ recs'[i] = [index[i] EXCEPT !.size = 0]
        BY <1>4, <2>1
      <3>3. recs'[i] = [exp |-> e, size |-> z] \/ recs'[i] = [exp |-> e, size |-> 0]
        BY <3>1, <3>2
      <3>. QED
        BY <3>1, <3>3
    <2>3. index[i].exp \in Nat
      BY <2>1 DEF Record
    <2>. QED
      BY <1>1, <2>1, <2>2, <2>3, Values DEF Over
  <1>6. RecentInv'
    <2>1. \A i \in Ids : Place(i)' = "none"
      BY <1>2, <1>3 DEF Place
    <2>2. \A i \in Held(recs)' : now' < recs'[i].exp + Lifetime
      BY <1>2, <1>5 DEF Held
    <2>. QED
      BY <2>1, <2>2 DEF RecentInv
  <1>7. TimeTyped'
    BY <1>2 DEF TimeTyped, FileInv
  <1>8. LoopInv' /\ TimerInv'
    BY <1>2, <1>3 DEF LoopInv, TimerInv
  <1>. QED
    BY <1>6, <1>7, <1>8 DEF FileInv

\* A start sets the timer at its end.
LEMMA FileLoaded ==
  ASSUME IInv, IInv', FileInv, Loaded
  PROVE  FileInv'
  <1>1. /\ phase = "loading" /\ recs \in [Ids -> Record \cup {None}] /\ now \in Nat
        /\ TimeTyped /\ RecentInv /\ Typed /\ Typed'
    BY DEF Loaded, IInv, Typed, FileInv
  <1>2. UNCHANGED <<op, reader, sweep, due, now>> /\ phase' \in {"up", "down"}
    BY DEF Loaded, taskVars, envVars
  <1>3. sweep = None /\ \A i \in Ids : op[i] = None
    BY <1>1, Quiet
  <1>4. \/ timer' = Deadline(recs) /\ failures' = failures /\ recs' = recs
        \/ timer' = timer /\ failures' = failures + 1
    BY DEF Loaded, Persist
  <1>5. TimeTyped'
    <2>1. Deadline(recs) \in Nat \cup {None}
      BY <1>1, DeadlineValue
    <2>. QED
      BY <1>1, <1>4, <2>1 DEF TimeTyped
  <1>6. RecentInv'
    <2>1. \A i \in Ids : Place(i)' = "none"
      BY <1>2, <1>3 DEF Place
    <2>. QED
      BY <1>2, <2>1 DEF RecentInv
  <1>7. TimerInv'
    <2>1. CASE failures' = failures + 1
      BY <1>1, <2>1 DEF TimerInv, TimeTyped
    <2>2. CASE timer' = Deadline(recs) /\ recs' = recs
      <3>1. ASSUME NEW i \in Stored(recs)
            PROVE  now < NextTime(i)
        <4>1. i \in Held(recs) /\ recs[i].exp \in Nat
          BY <1>1, StoredFields
        <4>2. now < recs[i].exp + Lifetime
          BY <1>1, <4>1 DEF RecentInv
        <4>. QED
          BY <1>1, <4>1, <4>2 DEF NextTime, Expired
      <3>. QED
        BY <1>1, <1>2, <2>2, <3>1, TimerSet
    <2>. QED
      BY <1>4, <2>1, <2>2
  <1>. QED
    BY <1>2, <1>3, <1>5, <1>6, <1>7 DEF FileInv, LoopInv

\* Time does not pass a timer: it makes a cleanup come.
LEMMA FileTick ==
  ASSUME IInv, FileInv, Tick
  PROVE  FileInv'
  <1>1. /\ Typed /\ TimeTyped /\ RecentInv /\ LoopInv /\ TimerInv /\ now \in Nat
        /\ leases \in [Ids -> Nat] /\ Lifetime \in Nat
    BY Values DEF IInv, FileInv, Typed
  <1>2. UNCHANGED <<recs, leases, op, reader, sweep, phase, failures>> /\ now' = now + 1
    BY DEF Tick, diskVars, storeVars, taskVars
  <1>3. \/ timer = now + 1 /\ timer' = None /\ due'
        \/ timer # now + 1 /\ timer' = timer /\ due' = due
    BY DEF Tick
  <1>4. (\A i \in Ids : Place(i)' = Place(i)) /\ (Late' <=> Late)
    BY <1>2 DEF Place, Late
  <1>5. TimeTyped'
    BY <1>1, <1>2, <1>3 DEF TimeTyped
  <1>6. RecentInv'
    <2>1. ASSUME NEW i \in Ids, Place(i) \in {"commit", "saving"}
          PROVE  now + 1 < op[i].exp + Lifetime
      <3>1. i \in Reserving
        BY <2>1, Reserves DEF Holding
      <3>. QED
        BY <3>1 DEF Tick, Brief
    <2>2. phase = "loading" => \A i \in Held(recs) : now + 1 < recs[i].exp + Lifetime
      BY DEF Tick, Brief
    <2>. QED
      BY <1>2, <1>4, <2>1, <2>2 DEF RecentInv, Held
  <1>7. LoopInv'
    <2>. SUFFICES ASSUME sweep # None PROVE LoopInv'
      BY <1>2 DEF LoopInv
    <2>1. sweep.since \in Nat /\ SweepTime \in Nat /\ sweep.since <= now
      BY <1>1, LoopThere, MediaBoundsAssumption DEF LoopInv, Loop
    <2>2. sweep.since <= now' /\ now' <= sweep.since + SweepTime
      BY <1>1, <1>2, <2>1 DEF Tick
    <2>3. Held(recs)' = Held(recs) /\ Stored(recs)' = Stored(recs)
      BY <1>2
    <2>4. ASSUME sweep.kind = "clean", NEW i \in Stored(recs)
          PROVE  \/ i \in sweep.todo \/ recs[i].exp > sweep.since \/ leases[i] > 0
                 \/ Late' \/ Place(i)' = "discard"
      <3>1. i \in Ids
        BY DEF Stored, Held
      <3>. QED
        BY <1>1, <1>4, <2>4, <3>1 DEF LoopInv
    <2>. QED
      BY <1>1, <1>2, <2>2, <2>3, <2>4 DEF LoopInv
  <1>8. TimerInv'
    <2>. SUFFICES ASSUME phase' = "up", failures' = 0, ~Coming', NEW i \in Stored(recs)',
                         Resting(i)'
                  PROVE  Covered(i)'
      BY DEF TimerInv
    <2>1. /\ ~Coming /\ phase = "up" /\ failures = 0 /\ timer' = timer
          /\ timer # now + 1
      BY <1>2, <1>3, <1>4 DEF Coming
    <2>2. i \in Stored(recs)
      BY <1>2 DEF Stored, Held
    <2>3. i \in Ids /\ recs[i].exp \in Nat
      BY <1>1, <2>2, StoredFields
    <2>4. ~Expired(recs[i])' => ~Expired(recs[i])
      BY <1>1, <1>2, <2>3 DEF Expired
    <2>5. Resting(i)
      BY <1>2, <1>4, <2>3, <2>4 DEF Resting
    <2>6. Covered(i)
      BY <1>1, <2>1, <2>2, <2>5 DEF TimerInv
    <2>7. timer \in Nat /\ now < timer /\ timer <= NextTime(i)
      BY <1>1, <2>6 DEF TimeTyped, Covered
    <2>8. NextTime(i) <= NextTime(i)'
      BY <1>1, <1>2, <2>3, <2>4 DEF NextTime
    <2>9. NextTime(i) \in Nat /\ NextTime(i)' \in Nat
      BY <1>1, <1>2, <2>3 DEF NextTime
    <2>. QED
      BY <1>1, <1>2, <2>1, <2>6, <2>7, <2>8, <2>9 DEF Covered
  <1>. QED
    BY <1>5, <1>6, <1>7, <1>8 DEF FileInv

\* Every step leaves a file to a cleanup that comes.
LEMMA FileStep ==
  ASSUME IInv, BareInv, FiledInv, FileInv, [Next]_vars
  PROVE  FileInv'
  <1>1. IInv'
    BY StepKeeps
  <1>2. TimeTyped /\ RecentInv /\ LoopInv /\ TimerInv
    BY DEF FileInv
  <1>3. ASSUME NEW id \in Ids,
               (id \in Attachments /\ Observe(id)) \/ Get(id) \/ Stage(id) \/ JobStep(id)
        PROVE  FileInv'
    <2>1. phase = "up" /\ Local(id)
      BY <1>3, JobLocal
    <2>2. Observe(id) \/ Get(id) \/ Stage(id) \/ JobStep(id)
      BY <1>3
    <2>3. TimeTyped'
      BY <1>2, <2>2, JobTimer
    <2>4. RecentInv'
      BY <1>2, <2>1, <2>2, RecentJob
    <2>5. LoopInv'
      BY <1>2, <2>1, <2>2, LoopJob
    <2>6. TimerInv'
      BY <1>1, <1>2, <2>1, <2>2, TimerJob
    <2>. QED
      BY <2>3, <2>4, <2>5, <2>6 DEF FileInv
  <1>4. ASSUME NEW r \in Readers, (\E id \in Ids : Open(r, id)) \/ Verified(r) \/ Close(r)
        PROVE  FileInv'
    BY <1>1, <1>4, FileOpen, FileVerified, FileClose
  <1>5. ASSUME NEW x \in Ids \cup Readers \cup {"timer"}, BeginSweep(x)
        PROVE  FileInv'
    <2>1. UNCHANGED <<recs, timer, phase, now, failures>> /\ sweep' = NewLoop("clean")
      BY <1>5 DEF BeginSweep, envVars
    <2>2. \A i \in Ids : op'[i] \in {op[i], None}
      BY <1>5, Ends DEF BeginSweep, taskVars, At, IInv
    <2>. QED
      BY <1>1, <2>1, <2>2, FileBegin DEF Kinds
  <1>6. CASE SweepStep
    BY <1>1, <1>6, FileVisit, FileUnlink, FileRest, FileEnd DEF SweepStep
  <1>7. CASE Start \/ Stop \/ (\E id \in Attachments : Answer(id)) \/ UNCHANGED vars
    <2>1. UNCHANGED <<recs, leases, op, reader, sweep, timer, due, phase, now, failures>>
      BY <1>7 DEF Start, Stop, Answer, vars, diskVars, storeVars, taskVars, sweepVars, envVars
    <2>2. Late => Late'
      BY <2>1 DEF Late, Place
    <2>. QED
      BY <1>1, <2>1, <2>2, FileReader
  <1>8. CASE Remove
    <2>1. UNCHANGED <<recs, op, timer, phase, now, failures>> /\ sweep' = NewLoop("remove")
      BY <1>8 DEF Remove, taskVars, envVars
    <2>. QED
      BY <1>1, <2>1, FileBegin DEF Kinds
  <1>9. \A id \in Attachments : id \in Ids
    BY Values
  <1>. QED
    BY <1>1, <1>3, <1>4, <1>5, <1>6, <1>7, <1>8, <1>9, FileCrash, FileLoad, FileLoaded,
       FileTick DEF Next

\* As long as the index can be written, a cleanup comes for every file no later than at
\* the end of its tombstone: the timer is set no later than the next deadline of its
\* record, or a cleanup runs or waits for the lock.
THEOREM RemovedWithTombstoneHolds == Spec => []RemovedWithTombstone
  <1>1. Init => FileInv
    <2>. SUFFICES ASSUME Init PROVE FileInv
      OBVIOUS
    <2>1. /\ failures = 0 /\ timer = None /\ phase = "down" /\ sweep = None
          /\ \A i \in Ids : op[i] = None
      BY DEF Init, Empty
    <2>2. RecentInv
      BY <2>1 DEF RecentInv, Place
    <2>. QED
      BY <2>1, <2>2 DEF FileInv, TimeTyped, LoopInv, TimerInv
  <1>2. IInv /\ BareInv /\ FiledInv /\ FileInv /\ [Next]_vars => FileInv'
    BY FileStep
  <1>3. FileInv => RemovedWithTombstone
    <2>. SUFFICES ASSUME FileInv, NEW id \in Stored(recs), phase = "up", failures = 0,
                         leases[id] = 0, op[id] = None, ~Coming
                  PROVE  Covered(id)
      BY DEF RemovedWithTombstone, CleanupComes, Covered, NextTime, Coming, Late, Place, At
    <2>1. Resting(id)
      BY DEF Resting, Place
    <2>. QED
      BY <2>1 DEF FileInv, TimerInv
  <1>. QED
    BY <1>1, <1>2, <1>3, InvariantHolds, PTL DEF Spec
=============================================================================
