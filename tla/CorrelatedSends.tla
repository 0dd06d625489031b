--------------------------- MODULE CorrelatedSends ---------------------------
(***************************************************************************)
(* CorrelatedSendManager and its DurableStore (correlated.py): keyed,      *)
(* durable, at-most-once sends.  A runtime is one CorrelatedSendManager    *)
(* object: every setup of the config entry makes one, and an old one can   *)
(* still be reached by a handler that looked it up before the reload.  All *)
(* runtimes of the process share one writer slot and one ledger file.  A   *)
(* call is one async_execute task.  Between two awaits a task is atomic,   *)
(* so an action is what happens from one await to the next; what a task    *)
(* holds across an await (the ledger lock, the writer slot, a snapshot on  *)
(* its way to the disk) is state.                                          *)
(***************************************************************************)
EXTENDS Naturals, FiniteSets, Functions

CONSTANTS
  Keys,         \* idempotency tokens: (entry, conversation, client request id)
  Digests,      \* digests of the canonical request
  MediaDigests, \* those of media sends, which carry an upload
  Uploads,      \* tokens of staged uploads
  Runtimes,     \* manager objects
  Calls,        \* async_execute tasks
  Retention,    \* IDEMPOTENCY_RETENTION_SECONDS
  MaxRecords,   \* MAX_IDEMPOTENCY_RECORDS
  MaxBytes,     \* MAX_IDEMPOTENCY_STORAGE_BYTES, in units of Size
  MaxAliases,   \* upload tokens one record can hold (8)
  MaxTime,      \* bound: the clock stops here
  MaxCrashes,   \* bound: process crashes
  None          \* no record, no request, no owner, lock free

ASSUME RetentionAssumption == Retention \in Nat \ {0}
ASSUME BoundsAssumption == MaxTime \in Nat /\ MaxCrashes \in Nat
ASSUME LimitsAssumption == {MaxRecords, MaxBytes, MaxAliases} \subseteq Nat
ASSUME DigestsAssumption == MediaDigests \subseteq Digests
ASSUME FiniteAssumption == IsFiniteSet(Keys) /\ IsFiniteSet(Uploads)
VARIABLES
  disk,         \* the ledger file
  mem,          \* _records of each runtime
  snap,         \* the snapshot a runtime's executor is writing, or None
  lock,         \* _lock: the call or the starting runtime that holds it
  phase,        \* progress of async_start
  available,    \* runtimes with persistence_available
  stopping,     \* runtimes with _stopping
  active,       \* _active (the _drained event is active[r] = {})
  slotLock,     \* _WriterSlot.lock
  owner,        \* _WriterSlot.owner
  pc,           \* progress of each call
  req,          \* what each call was asked, and of which runtime
  outcome,      \* what the transport callback of a call established
  answer,       \* what the caller of a call was told
  sends,        \* history: the transmissions handed to WAHA
  told,         \* history: the definite outcomes callers were told
  now,          \* the clock, in units of which Retention makes a retention
  crashes       \* how often the process died

runtimeVars == <<phase, slotLock, owner>>
ledgerVars == <<disk, mem, snap, lock>>
callVars == <<pc, req, outcome, answer>>
historyVars == <<sends, told>>
envVars == <<now, crashes>>
vars == <<ledgerVars, runtimeVars, available, stopping, active, callVars,
          historyVars, envVars>>
-----------------------------------------------------------------------------
\* "unsaved" stands for failed with error code persistence_unavailable: the
\* record async_execute leaves in memory when the intent was not saved.
Status == {"pending", "accepted", "failed", "unknown", "unsaved"}
Unresolved == {"pending", "unknown"}
Record == [digest : Digests, created : 0 .. MaxTime, status : Status,
           uploads : SUBSET Uploads]
Ledger == [Keys -> Record \cup {None}]
EmptyLedger == [k \in Keys |-> None]

Request ==
  [rt : Runtimes, key : Keys, digest : MediaDigests, upload : Uploads]
  \cup
  [rt : Runtimes, key : Keys, digest : Digests \ MediaDigests, upload : {None}]
ASSUME NoneAssumption ==
  /\ None \notin Uploads \cup Runtimes \cup Calls
  /\ None \notin Record \cup Ledger \cup Request
  /\ None \notin [status : Status, created : 0 .. MaxTime]
  /\ Calls \cap Runtimes = {}

Outcomes == {"none", "accepted", "failed", "unknown", "cancelled"}
Answers == Status \cup {"none", "refused", "cancelled"}

Rt(c) == req[c].rt
Key(c) == req[c].key
Here(c) == mem[Rt(c)]

\* A call was admitted: it left the lock with its intent saved.
Admitted == {"send", "sent", "finish", "record"}
InFlight == {"lock", "claim", "alias"} \cup Admitted
-----------------------------------------------------------------------------
(* The operators named ...Variant are plausible mistakes in the definition    *)
(* that follows them; the specification does not use them.  Each breaks a     *)
(* property below, which shows that the property depends on that definition. *)

\* The retention ends one unit early.
ExpiredEarlyVariant(rec) ==
  rec # None /\ rec.status \notin Unresolved /\ rec.created + Retention <= now + 1

\* _prune: settled records are dropped when their retention is over.
IsExpired(rec) ==
  /\ rec # None
  /\ rec.status \notin Unresolved
  /\ rec.created + Retention <= now

Prune(m) == [k \in Keys |-> IF IsExpired(m[k]) THEN None ELSE m[k]]

Held(m) == {k \in Keys : m[k] # None}

\* A record takes one unit, one for each alias, and one for the message id
\* that an accepted result can bring.
Size(rec) ==
  1 + Cardinality(rec.uploads) + (IF rec.status = "accepted" THEN 1 ELSE 0)

\* No room is reserved for the result.
ReservedVariant(rec) == Size(rec)

\* _fits charges an unresolved record for the result it may still receive.
Reserved(rec) == Size(rec) + (IF rec.status \in Unresolved THEN 1 ELSE 0)

Loadable(m) ==
  /\ Cardinality(Held(m)) <= MaxRecords
  /\ SumFunctionOnSet([k \in Keys |-> IF m[k] = None THEN 0 ELSE Size(m[k])],
                      Keys) <= MaxBytes

Fits(m) ==
  /\ Cardinality(Held(m)) <= MaxRecords
  /\ SumFunctionOnSet([k \in Keys |-> IF m[k] = None THEN 0
                                      ELSE Reserved(m[k])], Keys) <= MaxBytes

\* An interrupted intent is dropped, as if it had not been sent.
RestoredVariant(m) ==
  [k \in Keys |-> IF m[k] # None /\ m[k].status = "pending" THEN None ELSE m[k]]

\* async_start: an intent found pending was interrupted.
Restored(m) ==
  [k \in Keys |-> IF m[k] # None /\ m[k].status = "pending"
                  THEN [m[k] EXCEPT !.status = "unknown"] ELSE m[k]]

NewRecord(c) ==
  [digest |-> req[c].digest, created |-> now, status |-> "pending",
   uploads |-> {req[c].upload} \ {None}]

\* record.update: a record that was pruned meanwhile is no longer in the ledger.
WithStatus(m, k, s) ==
  [m EXCEPT ![k] = IF @ = None THEN None ELSE [@ EXCEPT !.status = s]]
-----------------------------------------------------------------------------
\* Store.async_save of Home Assistant: a failed write is logged and forgotten.
WriteVariant(r, result) ==
  /\ snap[r] # None
  /\ snap' = [snap EXCEPT ![r] = None]
  /\ result \in {"ok", "cancelled"}
  /\ disk' \in {disk, snap[r]}

(***************************************************************************)
(* DurableStore.async_save.  A failed write can have replaced the file (the*)
(* rename is done, the directory sync fails) or not; a cancelled caller    *)
(* learns of the cancellation only when the physical write is over; a      *)
(* snapshot beyond the limit is refused before the file is touched.        *)
(***************************************************************************)
Write(r, result) ==
  /\ snap[r] # None
  /\ snap' = [snap EXCEPT ![r] = None]
  /\ \/ result \in {"ok", "cancelled"} /\ Loadable(snap[r]) /\ disk' = snap[r]
     \/ result = "failed" /\ Loadable(snap[r]) /\ disk' \in {disk, snap[r]}
     \/ result = "failed" /\ ~Loadable(snap[r]) /\ disk' = disk

\* Hand the ledger m of runtime r to the executor, keeping the lock.
Save(r, holder, m) ==
  /\ mem' = [mem EXCEPT ![r] = m]
  /\ snap' = [snap EXCEPT ![r] = m]
  /\ lock' = [lock EXCEPT ![r] = holder]

Release(r) == lock' = [lock EXCEPT ![r] = None]

Goto(c, label) == pc' = [pc EXCEPT ![c] = label]

\* The call returns to its caller (or raises: "cancelled").
Return(c, a) == Goto(c, "done") /\ answer' = [answer EXCEPT ![c] = a]

\* The caller learns the status in rec, which is history when it is definite.
Definite == {"accepted", "failed"}

Tell(k, rec) ==
  told' = told \cup (IF rec.status \in Definite
                     THEN {[key |-> k, created |-> rec.created,
                            status |-> rec.status]}
                     ELSE {})
-----------------------------------------------------------------------------
(***************************************************************************)
(* async_start and async_stop                                              *)
(***************************************************************************)

\* The setup of the entry made manager r and enters the writer slot.
EnterSlot(r) ==
  /\ phase[r] = "new"
  /\ slotLock = None
  /\ slotLock' = r
  /\ phase' = [phase EXCEPT ![r] = "slot"]
  /\ UNCHANGED <<ledgerVars, owner, available, stopping, active, callVars,
                 historyVars, envVars>>

\* Admission is fenced without waiting for the lock.
FenceVariant(r) ==
  /\ stopping' = stopping \cup {r}
  /\ available' = available \ {r}

\* async_stop, as called by unload and by the replacement: _lock is needed,
\* then admission is fenced.  Waiting for the drain holds nothing.
Fence(r) ==
  /\ lock[r] = None
  /\ stopping' = stopping \cup {r}
  /\ available' = available \ {r}

\* async_unload_entry of a loaded entry.
Stop(r) ==
  /\ phase[r] = "up"
  /\ r \notin stopping
  /\ Fence(r)
  /\ UNCHANGED <<ledgerVars, runtimeVars, active, callVars, historyVars, envVars>>

\* The replacement stops the previous owner of the slot.
FencePrevious(r) ==
  /\ phase[r] = "slot"
  /\ owner # None
  /\ Fence(owner)
  /\ phase' = [phase EXCEPT ![r] = "drain"]
  /\ UNCHANGED <<ledgerVars, slotLock, owner, active, callVars, historyVars, envVars>>

\* The replacement does not wait for the drain.
TakeOverVariant(r) ==
  /\ phase[r] = "drain" \/ (phase[r] = "slot" /\ owner = None)
  /\ owner' = r
  /\ lock' = [lock EXCEPT ![r] = r]
  /\ phase' = [phase EXCEPT ![r] = "load"]
  /\ UNCHANGED <<disk, mem, snap, slotLock, available, stopping, active,
                 callVars, historyVars, envVars>>

\* Nothing of the previous owner is running: r becomes the owner and takes
\* its own lock for the load.
TakeOver(r) ==
  /\ \/ phase[r] = "slot" /\ owner = None
     \/ phase[r] = "drain" /\ active[owner] = {}
  /\ owner' = r
  /\ lock' = [lock EXCEPT ![r] = r]
  /\ phase' = [phase EXCEPT ![r] = "load"]
  /\ UNCHANGED <<disk, mem, snap, slotLock, available, stopping, active,
                 callVars, historyVars, envVars>>

\* Both locks are left, and the entry is loaded ("up") or its setup ended.
LeaveStart(r, p) ==
  /\ Release(r)
  /\ slotLock' = None
  /\ phase' = [phase EXCEPT ![r] = p]

\* The ledger is read, restored and pruned; what changed is written back.
Load(r) ==
  /\ phase[r] = "load"
  /\ Loadable(disk)
  /\ LET m == Restored(Prune(disk))
     IN \/ /\ m = disk
           /\ mem' = [mem EXCEPT ![r] = m]
           /\ available' = available \cup {r}
           /\ LeaveStart(r, "up")
           /\ UNCHANGED snap
        \/ /\ m # disk
           /\ Save(r, r, m)
           /\ phase' = [phase EXCEPT ![r] = "save"]
           /\ UNCHANGED <<slotLock, available>>
  /\ UNCHANGED <<disk, owner, stopping, active, callVars, historyVars, envVars>>

\* An unreadable ledger: the runtime serves, but admits nothing.
LoadFails(r) ==
  /\ phase[r] = "load"
  /\ LeaveStart(r, "up")
  /\ UNCHANGED <<disk, mem, snap, owner, available, stopping, active,
                 callVars, historyVars, envVars>>

\* The write of the restored ledger ends.
StartSaved(r) ==
  /\ phase[r] = "save"
  /\ \/ /\ Write(r, "ok")
        /\ available' = available \cup {r}
        /\ LeaveStart(r, "up")
     \/ /\ Write(r, "failed")
        /\ LeaveStart(r, "up")
        /\ UNCHANGED available
     \/ /\ Write(r, "cancelled")
        /\ LeaveStart(r, "aborted")
        /\ UNCHANGED available
  /\ UNCHANGED <<mem, owner, stopping, active, callVars, historyVars, envVars>>

\* The setup is cancelled while it waits for the previous owner or the read.
CancelStart(r) ==
  /\ phase[r] \in {"slot", "drain", "load"}
  /\ LeaveStart(r, "aborted")
  /\ UNCHANGED <<disk, mem, snap, owner, available, stopping, active,
                 callVars, historyVars, envVars>>
-----------------------------------------------------------------------------
(***************************************************************************)
(* async_execute up to the first await that matters                        *)
(***************************************************************************)

\* A handler calls async_execute on a manager it found loaded, now or before
\* a reload.
Arrive(c, q) ==
  /\ pc[c] = "idle"
  /\ phase[q.rt] = "up"
  /\ Goto(c, "lock")
  /\ req' = [req EXCEPT ![c] = q]
  /\ UNCHANGED <<ledgerVars, runtimeVars, available, stopping, active, outcome,
                 answer, historyVars, envVars>>

\* The call has the lock and has pruned the ledger.
Enters(c) == pc[c] = "lock" /\ lock[Rt(c)] = None
Pruned(c) == Prune(Here(c))
Existing(c) == Pruned(c)[Key(c)]
KeepPruned(c) == mem' = [mem EXCEPT ![Rt(c)] = Pruned(c)]

Matches(c) == Existing(c) # None /\ Existing(c).digest = req[c].digest

\* A restaged upload is taken for one that is recorded.
NewAliasVariant(c) == FALSE

\* The request names an upload its record does not know yet.
NewAlias(c) ==
  /\ req[c].upload # None
  /\ req[c].upload \notin Existing(c).uploads

WithAlias(c) ==
  [Pruned(c) EXCEPT ![Key(c)].uploads = @ \cup {req[c].upload}]

\* record.update once more: the alias that was not saved is taken back.
Withdrawn(m, c) ==
  IF m[Key(c)] = None THEN m
  ELSE [m EXCEPT ![Key(c)].uploads = @ \ {req[c].upload}]

\* A fenced runtime may still add an alias.
AliasAllowedVariant(c) ==
  Cardinality(Existing(c).uploads) < MaxAliases /\ Fits(WithAlias(c))

AliasAllowed(c) ==
  /\ Rt(c) \notin stopping
  /\ owner = Rt(c)
  /\ Rt(c) \in available
  /\ Cardinality(Existing(c).uploads) < MaxAliases
  /\ Fits(WithAlias(c))

WithClaim(c) == [Pruned(c) EXCEPT ![Key(c)] = NewRecord(c)]

\* A fenced runtime, or one without a ledger, admits.
ClaimAllowedVariant(c) == Fits(WithClaim(c))

ClaimAllowed(c) ==
  /\ Rt(c) \notin stopping
  /\ Rt(c) \in available
  /\ Fits(WithClaim(c))

\* A saved outcome (or pending) is replayed without a write.
Replay(c) ==
  /\ Enters(c)
  /\ Matches(c)
  /\ ~NewAlias(c)
  /\ KeepPruned(c)
  /\ Return(c, Existing(c).status)
  /\ Tell(Key(c), Existing(c))
  /\ UNCHANGED <<disk, snap, lock, runtimeVars, available, stopping, active,
                 req, outcome, sends, envVars>>

\* Conflicting digest, an alias that cannot be recorded, or no admission.
Refuse(c) ==
  /\ Enters(c)
  /\ \/ Existing(c) # None /\ Existing(c).digest # req[c].digest
     \/ Matches(c) /\ NewAlias(c) /\ ~AliasAllowed(c)
     \/ Existing(c) = None /\ ~ClaimAllowed(c)
  /\ KeepPruned(c)
  /\ Return(c, "refused")
  /\ UNCHANGED <<disk, snap, lock, runtimeVars, available, stopping, active,
                 req, outcome, historyVars, envVars>>

BeginAlias(c) ==
  /\ Enters(c)
  /\ Matches(c)
  /\ NewAlias(c)
  /\ AliasAllowed(c)
  /\ Save(Rt(c), c, WithAlias(c))
  /\ Goto(c, "alias")
  /\ UNCHANGED <<disk, runtimeVars, available, stopping, active, req, outcome,
                 answer, historyVars, envVars>>

BeginClaim(c) ==
  /\ Enters(c)
  /\ Existing(c) = None
  /\ ClaimAllowed(c)
  /\ Save(Rt(c), c, WithClaim(c))
  /\ Goto(c, "claim")
  /\ UNCHANGED <<disk, runtimeVars, available, stopping, active, req, outcome,
                 answer, historyVars, envVars>>

\* The write of a new alias ends.  A cancelled one stays in memory and disk.
AliasSaved(c) ==
  /\ pc[c] = "alias"
  /\ Release(Rt(c))
  /\ \/ /\ Write(Rt(c), "ok")
        /\ Return(c, snap[Rt(c)][Key(c)].status)
        /\ Tell(Key(c), snap[Rt(c)][Key(c)])
        /\ UNCHANGED <<mem, available>>
     \/ /\ Write(Rt(c), "cancelled")
        /\ Return(c, "cancelled")
        /\ UNCHANGED <<mem, available, told>>
     \/ /\ Write(Rt(c), "failed")
        /\ mem' = [mem EXCEPT ![Rt(c)] = Withdrawn(@, c)]
        /\ available' = available \ {Rt(c)}
        /\ Return(c, "refused")
        /\ UNCHANGED told
  /\ UNCHANGED <<runtimeVars, stopping, active, req, outcome, sends, envVars>>

\* The write of the intent ends: the call is admitted, or nothing is sent.
ClaimSaved(c) ==
  /\ pc[c] = "claim"
  /\ Release(Rt(c))
  /\ \/ /\ Write(Rt(c), "ok")
        /\ active' = [active EXCEPT ![Rt(c)] = @ \cup {c}]
        /\ Goto(c, "send")
        /\ UNCHANGED <<mem, available, answer>>
     \/ /\ Write(Rt(c), "cancelled")
        /\ mem' = [mem EXCEPT ![Rt(c)] = WithStatus(@, Key(c), "unknown")]
        /\ available' = available \ {Rt(c)}
        /\ Return(c, "cancelled")
        /\ UNCHANGED active
     \/ /\ Write(Rt(c), "failed")
        /\ mem' = [mem EXCEPT ![Rt(c)] = WithStatus(@, Key(c), "unsaved")]
        /\ available' = available \ {Rt(c)}
        /\ Return(c, "unsaved")
        /\ UNCHANGED active
  /\ UNCHANGED <<runtimeVars, stopping, req, outcome, historyVars, envVars>>

\* A call that waits for the lock is cancelled.
CancelWaiting(c) ==
  /\ pc[c] = "lock"
  /\ lock[Rt(c)] # None
  /\ Return(c, "cancelled")
  /\ UNCHANGED <<ledgerVars, runtimeVars, available, stopping, active, req,
                 outcome, historyVars, envVars>>
-----------------------------------------------------------------------------
(***************************************************************************)
(* _async_execute_admitted and _finish                                     *)
(***************************************************************************)

\* The callback ends without having handed anything to WAHA.
Preflight(c) ==
  /\ pc[c] = "send"
  /\ \E o \in {"failed", "unknown", "cancelled"} :
       outcome' = [outcome EXCEPT ![c] = o]
  /\ Goto(c, "finish")
  /\ UNCHANGED <<ledgerVars, runtimeVars, available, stopping, active, req,
                 answer, historyVars, envVars>>

\* The callback hands the message to WAHA.
Transmit(c) ==
  /\ pc[c] = "send"
  /\ sends' = sends \cup {[call |-> c, key |-> Key(c),
                           created |-> Here(c)[Key(c)].created]}
  /\ Goto(c, "sent")
  /\ UNCHANGED <<ledgerVars, runtimeVars, available, stopping, active, req,
                 outcome, answer, told, envVars>>

\* WAHA answers, rejects the request, or nobody knows (time out, lost
\* connection, server error); or the call is cancelled meanwhile.
Respond(c) ==
  /\ pc[c] = "sent"
  /\ \E o \in {"accepted", "failed", "unknown", "cancelled"} :
       outcome' = [outcome EXCEPT ![c] = o]
  /\ Goto(c, "finish")
  /\ UNCHANGED <<ledgerVars, runtimeVars, available, stopping, active, req,
                 answer, historyVars, envVars>>

\* The cancellation itself is recorded.
FinalStatusVariant(c) == outcome[c]

\* _finish: the lock is taken, the record updated, its write begun.
FinalStatus(c) == IF outcome[c] = "cancelled" THEN "unknown" ELSE outcome[c]

BeginRecord(c) ==
  /\ pc[c] = "finish"
  /\ lock[Rt(c)] = None
  /\ Save(Rt(c), c, WithStatus(Here(c), Key(c), FinalStatus(c)))
  /\ Goto(c, "record")
  /\ UNCHANGED <<disk, runtimeVars, available, stopping, active, req, outcome,
                 answer, historyVars, envVars>>

\* The drain is not told that the call is over.
RetireVariant(c) == UNCHANGED active

\* The finally clause of async_execute: the call no longer holds the drain.
Retire(c) == active' = [active EXCEPT ![Rt(c)] = @ \ {c}]

\* The write of the outcome ends; one not acknowledged is unknown.
RecordSaved(c) ==
  /\ pc[c] = "record"
  /\ Release(Rt(c))
  /\ Retire(c)
  /\ \/ /\ Write(Rt(c), "ok")
        /\ Return(c, outcome[c])
        /\ IF outcome[c] = "cancelled" THEN UNCHANGED told
           ELSE Tell(Key(c), snap[Rt(c)][Key(c)])
        /\ UNCHANGED <<mem, available>>
     \/ /\ \/ Write(Rt(c), "cancelled") /\ Return(c, "cancelled")
           \/ /\ Write(Rt(c), "failed")
              /\ Return(c, IF outcome[c] = "cancelled" THEN "cancelled"
                           ELSE "unknown")
        /\ mem' = [mem EXCEPT ![Rt(c)] = WithStatus(@, Key(c), "unknown")]
        /\ available' = available \ {Rt(c)}
        /\ UNCHANGED told
  /\ UNCHANGED <<runtimeVars, stopping, req, outcome, sends, envVars>>

\* The call is cancelled (again) while _finish waits for the lock: nothing
\* is recorded, and the intent stays pending.
CancelFinish(c) ==
  /\ pc[c] = "finish"
  /\ lock[Rt(c)] # None
  /\ Retire(c)
  /\ Return(c, "cancelled")
  /\ UNCHANGED <<ledgerVars, runtimeVars, available, stopping, req, outcome,
                 historyVars, envVars>>
-----------------------------------------------------------------------------
\* media_binding looks a receipt up, which prunes without the lock.
LookUp(r) ==
  /\ phase[r] = "up"
  /\ Prune(mem[r]) # mem[r]
  /\ mem' = [mem EXCEPT ![r] = Prune(mem[r])]
  /\ UNCHANGED <<disk, snap, lock, runtimeVars, available, stopping, active,
                 callVars, historyVars, envVars>>

Tick ==
  /\ now < MaxTime
  /\ now' = now + 1
  /\ UNCHANGED <<ledgerVars, runtimeVars, available, stopping, active,
                 callVars, historyVars, crashes>>

\* The process dies: every manager and task is lost, the ledger file stays,
\* with a write that was under way done or not.
Crash ==
  /\ crashes < MaxCrashes
  /\ crashes' = crashes + 1
  /\ disk' \in {disk} \cup {snap[r] : r \in {x \in Runtimes :
                                             snap[x] # None /\ Loadable(snap[x])}}
  /\ mem' = [r \in Runtimes |-> EmptyLedger]
  /\ snap' = [r \in Runtimes |-> None]
  /\ lock' = [r \in Runtimes |-> None]
  /\ phase' = [r \in Runtimes |-> IF phase[r] = "new" THEN "new" ELSE "gone"]
  /\ available' = {}
  /\ active' = [r \in Runtimes |-> {}]
  /\ slotLock' = None
  /\ owner' = None
  /\ pc' = [c \in Calls |-> IF pc[c] \in InFlight THEN "dead" ELSE pc[c]]
  /\ UNCHANGED <<stopping, req, outcome, answer, historyVars, now>>
-----------------------------------------------------------------------------
Init ==
  /\ disk = EmptyLedger
  /\ mem = [r \in Runtimes |-> EmptyLedger]
  /\ snap = [r \in Runtimes |-> None]
  /\ lock = [r \in Runtimes |-> None]
  /\ phase = [r \in Runtimes |-> "new"]
  /\ available = {}
  /\ stopping = {}
  /\ active = [r \in Runtimes |-> {}]
  /\ slotLock = None
  /\ owner = None
  /\ pc = [c \in Calls |-> "idle"]
  /\ req = [c \in Calls |-> None]
  /\ outcome = [c \in Calls |-> "none"]
  /\ answer = [c \in Calls |-> "none"]
  /\ sends = {}
  /\ told = {}
  /\ now = 0
  /\ crashes = 0

StartStep(r) ==
  \/ FencePrevious(r)
  \/ TakeOver(r)
  \/ Load(r)
  \/ LoadFails(r)
  \/ StartSaved(r)

CallStep(c) ==
  \/ Replay(c)
  \/ Refuse(c)
  \/ BeginAlias(c)
  \/ BeginClaim(c)
  \/ AliasSaved(c)
  \/ ClaimSaved(c)
  \/ Preflight(c)
  \/ Transmit(c)
  \/ Respond(c)
  \/ BeginRecord(c)
  \/ RecordSaved(c)

Next ==
  \/ \E r \in Runtimes : EnterSlot(r) \/ StartStep(r) \/ CancelStart(r)
                         \/ Stop(r) \/ LookUp(r)
  \/ \E c \in Calls : CallStep(c) \/ CancelWaiting(c) \/ CancelFinish(c)
  \/ \E c \in Calls, q \in Request : Arrive(c, q)
  \/ Tick
  \/ Crash

Spec == Init /\ [][Next]_vars

(***************************************************************************)
(* The event loop runs what is ready, an executor job ends, and an HTTP    *)
(* request ends at the latest by its time out.  Arrivals, stops, crashes,  *)
(* cancellations and the clock are under no obligation.                    *)
(***************************************************************************)
Fairness ==
  /\ \A r \in Runtimes : WF_vars(StartStep(r))
  /\ \A c \in Calls : WF_vars(CallStep(c))

FairSpec == Spec /\ Fairness
-----------------------------------------------------------------------------
Phases == {"new", "slot", "drain", "load", "save", "up", "aborted", "gone"}

\* Every variable stays in its domain.
TypeOK ==
  /\ disk \in Ledger
  /\ mem \in [Runtimes -> Ledger]
  /\ snap \in [Runtimes -> Ledger \cup {None}]
  /\ lock \in [Runtimes -> Calls \cup Runtimes \cup {None}]
  /\ phase \in [Runtimes -> Phases]
  /\ available \subseteq Runtimes
  /\ stopping \subseteq Runtimes
  /\ active \in [Runtimes -> SUBSET Calls]
  /\ slotLock \in Runtimes \cup {None}
  /\ owner \in Runtimes \cup {None}
  /\ pc \in [Calls -> InFlight \cup {"idle", "done", "dead"}]
  /\ req \in [Calls -> Request \cup {None}]
  /\ outcome \in [Calls -> Outcomes]
  /\ answer \in [Calls -> Answers]
  /\ sends \subseteq [call : Calls, key : Keys, created : 0 .. MaxTime]
  /\ told \subseteq [key : Keys, created : 0 .. MaxTime, status : Definite]
  /\ now \in 0 .. MaxTime
  /\ crashes \in 0 .. MaxCrashes

\* No key is transmitted twice within a retention: two transmissions of one
\* key were claimed at least Retention apart, whatever reloads, crashes,
\* cancellations and failing writes happened between them.
AtMostOnce ==
  \A s, t \in sends :
    s.key = t.key /\ s # t =>
      \/ s.created + Retention <= t.created
      \/ t.created + Retention <= s.created

\* A message is handed to WAHA only while the ledger FILE holds its intent as
\* pending ("Persist intent before releasing the lock to perform a send").
IntentFirst ==
  [][\A s \in sends' \ sends :
       /\ disk[s.key] # None
       /\ disk[s.key].status = "pending"
       /\ disk[s.key].created = s.created]_sends

\* Only the owner of the writer slot writes the ledger file, so no runtime can
\* replace the ledger of its successor by its own stale one; and while the
\* successor loads, nothing of another runtime is still running.
OneWriter ==
  /\ \A r \in Runtimes : snap[r] # None => owner = r
  /\ \A r, x \in Runtimes : phase[r] \in {"load", "save"} /\ x # r =>
       active[x] = {} /\ snap[x] = None

\* A caller that was told accepted or failed can rely on it for a retention:
\* the file keeps that outcome, the serving runtime replays it, and no runtime
\* that can still be reached holds the opposite outcome.
AnswersStand ==
  \A t \in told :
    LET Stands(rec) == \/ t.created + Retention <= now
                       \/ /\ rec # None
                          /\ rec.created = t.created
                          /\ rec.status = t.status
    IN /\ Stands(disk[t.key])
       /\ \A r \in available : Stands(mem[r][t.key])
       /\ \A r \in Runtimes :
            mem[r][t.key] # None /\ mem[r][t.key].created = t.created =>
              mem[r][t.key].status \notin Definite \ {t.status}

\* An outcome that a replaced or degraded runtime repeats for longer than the
\* ledger file has to keep it.
Outlived(c) ==
  /\ Rt(c) \notin available
  /\ Here(c)[Key(c)] # None
  /\ Here(c)[Key(c)].created + Retention <= now

\* A receipt for a staged upload is given only when the ledger file lists that
\* upload ("Alias persistence precedes returning its replay receipt"): the
\* receipt can be had again after a restart, when the bytes are gone.
ReceiptsDurable ==
  [][\A c \in Calls :
       /\ pc[c] # "done" /\ pc'[c] = "done"
       /\ answer'[c] \in Status \ {"unsaved"}
       /\ req[c].upload # None
       /\ ~Outlived(c)'
       => disk'[Key(c)] # None /\ req[c].upload \in disk'[Key(c)].uploads]_pc

\* A ledger that is being written never exceeds the limits, because _fits
\* reserves room for every outstanding result: an accepted send cannot fail to
\* be recorded for lack of space, and the file can always be loaded again.
SnapshotsFit ==
  \A r \in Runtimes : snap[r] # None => Loadable(snap[r])

\* KeyedSend, seen through the ledger file and the transmissions of key k.
Promise(k) ==
  INSTANCE KeyedSend WITH
    entry <- IF disk[k] = None THEN None
             ELSE [status |-> disk[k].status, created |-> disk[k].created],
    log <- {[call |-> s.call, created |-> s.created] :
              s \in {x \in sends : x.key = k}}

\* The ledger keeps the promise of KeyedSend for every key: the initial state
\* is one of KeyedSend, and every step is a step of it or changes nothing that
\* it can see.  (This is \A k \in Keys : Promise(k)!Spec, in the form TLC takes.)
KeepsPromise ==
  /\ \A k \in Keys : Promise(k)!Init
  /\ [][\A k \in Keys : [Promise(k)!Next]_(Promise(k)!vars)]_vars

\* Documented in CHANNEL_API.md: only a concurrent call sees pending; once the
\* call that claimed the key is over, a replay returns a settled result.
PendingIsConcurrent ==
  [][\A c \in Calls :
       answer[c] # "pending" /\ answer'[c] = "pending" =>
         \E d \in active[Rt(c)] : Key(d) = Key(c)]_answer

\* A replacement runtime that has the writer slot comes up: it cannot wait for
\* ever for its predecessor to drain.
ReplacementServes ==
  \A r \in Runtimes :
    (phase[r] \in {"slot", "drain", "load", "save"}) ~>
      (phase[r] \in {"up", "aborted", "gone"})

=============================================================================
