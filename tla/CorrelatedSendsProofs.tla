------------------------ MODULE CorrelatedSendsProofs ------------------------
(***************************************************************************)
(* Proofs about CorrelatedSends, for any number of runtimes, calls, keys   *)
(* and crashes: every variable keeps its type, the ledger has one writer,  *)
(* intents come first, no key is transmitted twice in a retention, what    *)
(* callers were told of a send stands, receipts are given for uploads that *)
(* are recorded, and a ledger that is written is within its limits.        *)
(***************************************************************************)
EXTENDS CorrelatedSends, Sums, TLAPS

Saving == {"claim", "alias", "record"}
Waiting == {"send", "sent", "finish"}

\* Who is in the writer slot, and what a starting or fenced runtime is like.
SlotInv ==
  \A r \in Runtimes :
    /\ phase[r] \in {"slot", "drain", "load", "save"} => slotLock = r
    /\ phase[r] \in {"load", "save"} => owner = r /\ lock[r] = r
    /\ lock[r] \in Runtimes => lock[r] = r /\ phase[r] \in {"load", "save"}
    /\ phase[r] = "drain" => owner # None /\ owner \notin available
    /\ r \in available => owner = r /\ r \notin stopping /\ phase[r] = "up"
    /\ owner = r => phase[r] \in {"load", "save", "up", "aborted"}
    /\ r \in stopping => phase[r] \in {"up", "aborted", "gone"}

\* Who holds a ledger lock, and that a snapshot is in flight only under it.
LockInv ==
  /\ \A c \in Calls : pc[c] # "idle" => req[c] \in Request
  /\ \A c \in Calls : pc[c] \in Saving => lock[Rt(c)] = c
  /\ \A r \in Runtimes : lock[r] \in Calls =>
       pc[lock[r]] \in Saving /\ Rt(lock[r]) = r
  /\ \A r \in Runtimes : snap[r] # None =>
       lock[r] \in Calls \/ phase[r] = "save"

\* The calls a runtime drains are those it admitted; all of them belong to the
\* owner of the slot, and one that is about to write has not been fenced.
OwnerInv ==
  /\ \A r \in Runtimes : active[r] = {c \in Calls : pc[c] \in Admitted /\ Rt(c) = r}
  /\ \A c \in Calls : pc[c] \in Admitted \cup {"claim", "alias"} => owner = Rt(c)
  /\ \A c \in Calls : pc[c] \in {"claim", "alias"} => Rt(c) \in available
  /\ \A c \in Calls : pc[c] \in InFlight => phase[Rt(c)] = "up"

\* A call has an outcome when it comes to record it.
OutcomeInv ==
  \A c \in Calls : pc[c] \in {"finish", "record"} => outcome[c] # "none"

Pending(rec, t) == rec # None /\ rec.status = "pending" /\ rec.created = t

\* The intent of an admitted call is pending in memory and in the file until
\* its outcome is written, and no two calls have an intent on the same key.
IntentInv ==
  /\ \A c \in Calls : pc[c] \in Waiting \cup {"claim"} =>
       /\ Here(c)[Key(c)] # None
       /\ Here(c)[Key(c)].status = "pending"
  /\ \A c \in Calls : pc[c] \in Waiting =>
       /\ Pending(disk[Key(c)], Here(c)[Key(c)].created)
       /\ snap[Rt(c)] # None =>
            Pending(snap[Rt(c)][Key(c)], Here(c)[Key(c)].created)
  /\ \A c \in Calls : pc[c] = "claim" /\ snap[Rt(c)] # None =>
       Pending(snap[Rt(c)][Key(c)], Here(c)[Key(c)].created)
  /\ \A c, d \in Calls :
       /\ c # d
       /\ pc[c] \in Admitted \cup {"claim"}
       /\ pc[d] \in Admitted \cup {"claim"}
       /\ Rt(c) = Rt(d)
       => Key(c) # Key(d)

\* At time t, the ledger m covers the transmissions in S: a record of the key is
\* at least as young as the transmission, or the retention is over.
Fenced(m, S, t) ==
  \A s \in S :
    \/ m[s.key] # None /\ s.created <= m[s.key].created
    \/ s.created + Retention <= t

\* A runtime that admits, is about to, or has calls that it admitted.
Serving(r) == r \in available \/ phase[r] = "save" \/ active[r] # {}

\* Every transmission is covered in the file, in every snapshot on its way to
\* the file, and in the memory of every runtime that serves.
FenceInv ==
  /\ Fenced(disk, sends, now)
  /\ \A r \in Runtimes : snap[r] # None => Fenced(snap[r], sends, now)
  /\ \A r \in Runtimes : Serving(r) => Fenced(mem[r], sends, now)

\* What a call is writing has the record of its key.
WrittenInv ==
  \A c \in Calls : pc[c] \in Saving /\ snap[Rt(c)] # None =>
    snap[Rt(c)][Key(c)] # None

\* A claim that is not transmitted yet is a retention away from every
\* transmission of its key.
SpacingInv ==
  \A c \in Calls : pc[c] \in {"claim", "send"} =>
    \A s \in sends : s.key = Key(c) =>
      s.created + Retention <= Here(c)[Key(c)].created

IInv ==
  TypeOK /\ SlotInv /\ LockInv /\ OwnerInv /\ OutcomeInv /\ IntentInv
  /\ FenceInv /\ WrittenInv /\ SpacingInv /\ AtMostOnce
-----------------------------------------------------------------------------
(***************************************************************************)
(* The operators on ledgers                                                *)
(***************************************************************************)

\* Pruning keeps a ledger a ledger, and a record that is kept is unchanged.
LEMMA PruneLedger ==
  ASSUME NEW m \in Ledger
  PROVE  /\ Prune(m) \in Ledger
         /\ \A k \in Keys : Prune(m)[k] \in {m[k], None}
  BY DEF Prune, Ledger

\* A record without a settled outcome does not expire.
LEMMA PruneUnresolved ==
  ASSUME NEW m \in Ledger, NEW k \in Keys, m[k] # None,
         m[k].status \in Unresolved
  PROVE  Prune(m)[k] = m[k]
  BY DEF Prune, IsExpired

\* Restoring changes no more than the status of a record.
LEMMA RestoredLedger ==
  ASSUME NEW m \in Ledger
  PROVE  /\ Restored(m) \in Ledger
         /\ \A k \in Keys : /\ Restored(m)[k] = None <=> m[k] = None
                            /\ m[k] # None => Restored(m)[k].created = m[k].created
  <1>1. ASSUME NEW k \in Keys, m[k] # None
        PROVE  /\ [m[k] EXCEPT !.status = "unknown"] \in Record
               /\ [m[k] EXCEPT !.status = "unknown"].created = m[k].created
    BY <1>1 DEF Ledger, Record, Status
  <1>2. \A k \in Keys : m[k] \in Record \cup {None}
    BY DEF Ledger
  <1>3. None \notin Record
    BY NoneAssumption
  <1>. QED
    BY <1>1, <1>2, <1>3 DEF Restored, Ledger

\* record.update changes one record, and only its status.
LEMMA WithStatusLedger ==
  ASSUME NEW m \in Ledger, NEW k \in Keys, NEW s \in Status
  PROVE  /\ WithStatus(m, k, s) \in Ledger
         /\ \A x \in Keys : /\ WithStatus(m, k, s)[x] = None <=> m[x] = None
                            /\ x # k => WithStatus(m, k, s)[x] = m[x]
                            /\ m[x] # None =>
                                 WithStatus(m, k, s)[x].created = m[x].created
         /\ m[k] # None => WithStatus(m, k, s)[k].status = s
  <1>1. ASSUME m[k] # None
        PROVE  /\ [m[k] EXCEPT !.status = s] \in Record
               /\ [m[k] EXCEPT !.status = s].created = m[k].created
               /\ [m[k] EXCEPT !.status = s].status = s
    BY <1>1 DEF Ledger, Record
  <1>2. \A x \in Keys : m[x] \in Record \cup {None}
    BY DEF Ledger
  <1>3. None \notin Record
    BY NoneAssumption
  <1>. QED
    BY <1>1, <1>2, <1>3 DEF WithStatus, Ledger

\* What the fields of a request and the record of a call are.
LEMMA CallTypes ==
  ASSUME TypeOK, LockInv, NEW c \in Calls, pc[c] # "idle"
  PROVE  /\ Rt(c) \in Runtimes
         /\ Key(c) \in Keys
         /\ req[c].digest \in Digests
         /\ req[c].upload \in Uploads \cup {None}
         /\ Here(c) \in Ledger
         /\ Pruned(c) \in Ledger
         /\ Existing(c) \in Record \cup {None}
         /\ snap[Rt(c)] \in Ledger \cup {None}
  <1>1. req[c] \in Request
    BY DEF LockInv
  <1>2. Rt(c) \in Runtimes /\ Key(c) \in Keys /\ req[c].digest \in Digests
        /\ req[c].upload \in Uploads \cup {None}
    BY <1>1, DigestsAssumption DEF Request, Rt, Key
  <1>3. Here(c) \in Ledger /\ snap[Rt(c)] \in Ledger \cup {None}
    BY <1>2 DEF TypeOK, Here
  <1>4. Pruned(c) \in Ledger
    BY <1>3, PruneLedger DEF Pruned
  <1>. QED
    BY <1>2, <1>3, <1>4 DEF Existing, Ledger

\* A new claim or alias makes a ledger of a ledger.
LEMMA ClaimLedger ==
  ASSUME TypeOK, LockInv, NEW c \in Calls, pc[c] # "idle"
  PROVE  /\ WithClaim(c) \in Ledger
         /\ \A k \in Keys : k # Key(c) => WithClaim(c)[k] = Pruned(c)[k]
         /\ Pending(WithClaim(c)[Key(c)], now)
  <1>1. now \in 0 .. MaxTime
    BY DEF TypeOK
  <1>2. NewRecord(c) \in Record /\ NewRecord(c).status = "pending"
        /\ NewRecord(c).created = now
    BY <1>1, CallTypes DEF NewRecord, Record, Status
  <1>3. NewRecord(c) # None
    BY <1>2, NoneAssumption
  <1>4. Pruned(c) \in [Keys -> Record \cup {None}] /\ Key(c) \in Keys
    BY CallTypes DEF Ledger
  <1>. QED
    BY <1>2, <1>3, <1>4 DEF WithClaim, Ledger, Pending

\* Recording an upload for a record that is there changes only what is listed with it.
LEMMA AliasLedger ==
  ASSUME TypeOK, LockInv, NEW c \in Calls, pc[c] # "idle",
         Existing(c) # None, NewAlias(c)
  PROVE  /\ WithAlias(c) \in Ledger
         /\ \A k \in Keys : /\ WithAlias(c)[k] = None <=> Pruned(c)[k] = None
                            /\ Pruned(c)[k] # None =>
                                 /\ WithAlias(c)[k].created = Pruned(c)[k].created
                                 /\ WithAlias(c)[k].status = Pruned(c)[k].status
  <1>1. Existing(c) \in Record /\ Pruned(c) \in [Keys -> Record \cup {None}]
        /\ Key(c) \in Keys /\ req[c].upload \in Uploads
    BY CallTypes DEF Ledger, NewAlias
  <1>. DEFINE rec == [Existing(c) EXCEPT !.uploads = @ \cup {req[c].upload}]
  <1>2. rec \in Record /\ rec.created = Existing(c).created
        /\ rec.status = Existing(c).status
    BY <1>1 DEF Record
  <1>3. rec # None
    BY <1>2, NoneAssumption
  <1>4. WithAlias(c) = [Pruned(c) EXCEPT ![Key(c)] = rec]
    BY DEF WithAlias, Existing
  <1>. HIDE DEF rec
  <1>. QED
    BY <1>1, <1>2, <1>3, <1>4 DEF Ledger, Existing

\* Withdrawing an alias changes neither the status nor the age of a record.
LEMMA WithdrawnLedger ==
  ASSUME NEW m \in Ledger, NEW c \in Calls, Key(c) \in Keys
  PROVE  /\ Withdrawn(m, c) \in Ledger
         /\ \A k \in Keys : /\ Withdrawn(m, c)[k] = None <=> m[k] = None
                            /\ m[k] # None =>
                                 /\ Withdrawn(m, c)[k].created = m[k].created
                                 /\ Withdrawn(m, c)[k].status = m[k].status
  <1>1. CASE m[Key(c)] = None
    BY <1>1 DEF Withdrawn
  <1>2. CASE m[Key(c)] # None
    <2>. DEFINE rec == [m[Key(c)] EXCEPT !.uploads = @ \ {req[c].upload}]
    <2>1. m \in [Keys -> Record \cup {None}] /\ m[Key(c)] \in Record
      BY <1>2 DEF Ledger
    <2>2. rec \in Record /\ rec.created = m[Key(c)].created
          /\ rec.status = m[Key(c)].status
      BY <2>1 DEF Record
    <2>3. rec # None
      BY <2>2, NoneAssumption
    <2>4. Withdrawn(m, c) = [m EXCEPT ![Key(c)] = rec]
      BY <1>2 DEF Withdrawn
    <2>. HIDE DEF rec
    <2>5. Withdrawn(m, c) \in Ledger
      BY <2>1, <2>2, <2>4 DEF Ledger
    <2>6. \A k \in Keys : Withdrawn(m, c)[k] = IF k = Key(c) THEN rec ELSE m[k]
      BY <2>1, <2>4
    <2>. QED
      BY <1>2, <2>2, <2>3, <2>5, <2>6
  <1>. QED
    BY <1>1, <1>2
-----------------------------------------------------------------------------
(***************************************************************************)
(* Each part of the inductive invariant is kept by every step              *)
(***************************************************************************)

\* Nobody holds, or writes under, a lock that is free, and a lock that a call
\* holds is held by no other call and by no starting runtime.
LEMMA LockFacts ==
  ASSUME IInv, NEW c \in Calls, pc[c] # "idle"
  PROVE  /\ lock[Rt(c)] = None =>
              /\ snap[Rt(c)] = None
              /\ phase[Rt(c)] \notin {"load", "save"}
              /\ \A d \in Calls : pc[d] \in Saving => Rt(d) # Rt(c)
         /\ pc[c] \in Saving =>
              /\ lock[Rt(c)] = c
              /\ phase[Rt(c)] \notin {"load", "save"}
              /\ \A d \in Calls : pc[d] \in Saving /\ d # c => Rt(d) # Rt(c)
  <1>1. Rt(c) \in Runtimes
    BY CallTypes DEF IInv
  <1>2. None \notin Calls /\ None \notin Runtimes /\ Calls \cap Runtimes = {}
    BY NoneAssumption
  <1>. QED
    BY <1>1, <1>2 DEF IInv, LockInv, SlotInv

\* A snapshot in flight is the owner's.
LEMMA WriterOwns ==
  ASSUME IInv, NEW r \in Runtimes, snap[r] # None
  PROVE  owner = r
  <1>1. CASE lock[r] \in Calls
    BY <1>1 DEF IInv, LockInv, OwnerInv, Saving, Admitted
  <1>2. CASE phase[r] = "save"
    BY <1>2 DEF IInv, SlotInv
  <1>. QED
    BY <1>1, <1>2 DEF IInv, LockInv

\* One runtime is on its way into the slot, and the owner is the one that serves.
LEMMA SlotStep ==
  ASSUME IInv, [Next]_vars
  PROVE  SlotInv'
  <1>. USE DEF IInv
  <1>. DEFINE slotVars == <<phase, slotLock, owner, lock, available, stopping>>
  <1>1. None \notin Calls /\ None \notin Runtimes /\ Calls \cap Runtimes = {}
    BY NoneAssumption
  <1>2. lock \in [Runtimes -> Calls \cup Runtimes \cup {None}]
        /\ phase \in [Runtimes -> Phases] /\ available \subseteq Runtimes
        /\ owner \in Runtimes \cup {None}
    BY DEF TypeOK
  <1>3. CASE UNCHANGED slotVars
    BY <1>3 DEF SlotInv
  <1>4. ASSUME NEW r \in Runtimes, EnterSlot(r)
        PROVE  SlotInv'
    BY <1>1, <1>2, <1>4 DEF SlotInv, EnterSlot, ledgerVars
  <1>5. ASSUME NEW r \in Runtimes, Stop(r)
        PROVE  SlotInv'
    BY <1>1, <1>2, <1>5 DEF SlotInv, Stop, Fence, ledgerVars, runtimeVars
  <1>6. ASSUME NEW r \in Runtimes, FencePrevious(r)
        PROVE  SlotInv'
    BY <1>1, <1>2, <1>6 DEF SlotInv, FencePrevious, Fence, ledgerVars
  <1>7. ASSUME NEW r \in Runtimes, TakeOver(r)
        PROVE  SlotInv'
    BY <1>1, <1>2, <1>7 DEF SlotInv, TakeOver
  <1>8. ASSUME NEW r \in Runtimes, Load(r)
        PROVE  SlotInv'
    <2>1. /\ phase[r] = "load"
          /\ UNCHANGED <<owner, stopping>>
          /\ \/ /\ phase' = [phase EXCEPT ![r] = "up"]
                /\ lock' = [lock EXCEPT ![r] = None]
                /\ available' = available \cup {r}
                /\ slotLock' = None
             \/ /\ phase' = [phase EXCEPT ![r] = "save"]
                /\ lock' = [lock EXCEPT ![r] = r]
                /\ UNCHANGED <<available, slotLock>>
      BY <1>8 DEF Load, LeaveStart, Release, Save
    <2>. QED
      BY <1>1, <1>2, <2>1 DEF SlotInv
  <1>9. ASSUME NEW r \in Runtimes, LoadFails(r) \/ StartSaved(r) \/ CancelStart(r)
        PROVE  SlotInv'
    <2>1. /\ phase[r] \in {"slot", "drain", "load", "save"}
          /\ UNCHANGED <<owner, stopping>>
          /\ lock' = [lock EXCEPT ![r] = None]
          /\ slotLock' = None
          /\ \/ /\ phase' = [phase EXCEPT ![r] = "up"]
                /\ phase[r] = "save"
                /\ available' = available \cup {r}
             \/ /\ phase' = [phase EXCEPT ![r] = "up"]
                /\ phase[r] \in {"load", "save"}
                /\ UNCHANGED available
             \/ /\ phase' = [phase EXCEPT ![r] = "aborted"]
                /\ UNCHANGED available
      BY <1>9 DEF LoadFails, StartSaved, CancelStart, LeaveStart, Release
    <2>. QED
      BY <1>1, <1>2, <2>1 DEF SlotInv
  <1>10. ASSUME NEW c \in Calls, BeginAlias(c) \/ BeginClaim(c) \/ BeginRecord(c)
         PROVE  SlotInv'
    <2>1. pc[c] # "idle" /\ lock[Rt(c)] = None
      BY <1>10 DEF BeginAlias, BeginClaim, BeginRecord, Enters
    <2>2. Rt(c) \in Runtimes
      BY <2>1, CallTypes
    <2>3. lock' = [lock EXCEPT ![Rt(c)] = c] /\ UNCHANGED <<runtimeVars, available, stopping>>
      BY <1>10 DEF BeginAlias, BeginClaim, BeginRecord, Save
    <2>. QED
      BY <1>1, <1>2, <2>1, <2>2, <2>3 DEF SlotInv, runtimeVars
  <1>11. ASSUME NEW c \in Calls, AliasSaved(c) \/ ClaimSaved(c) \/ RecordSaved(c)
         PROVE  SlotInv'
    <2>1. pc[c] \in Saving
      BY <1>11 DEF AliasSaved, ClaimSaved, RecordSaved, Saving
    <2>2. Rt(c) \in Runtimes /\ lock[Rt(c)] = c
      BY <2>1, CallTypes, LockFacts DEF Saving
    <2>3. /\ lock' = [lock EXCEPT ![Rt(c)] = None]
          /\ available' \subseteq available
          /\ UNCHANGED <<runtimeVars, stopping>>
      BY <1>11 DEF AliasSaved, ClaimSaved, RecordSaved, Release
    <2>. QED
      BY <1>1, <1>2, <2>1, <2>2, <2>3 DEF SlotInv, runtimeVars
  <1>12. CASE Crash
    BY <1>1, <1>2, <1>12 DEF SlotInv, Crash
  <1>13. ASSUME NEW c \in Calls,
                \/ \E q \in Request : Arrive(c, q)
                \/ Replay(c) \/ Refuse(c) \/ CancelWaiting(c) \/ Preflight(c)
                \/ Transmit(c) \/ Respond(c) \/ CancelFinish(c)
         PROVE  UNCHANGED slotVars
    BY <1>13 DEF Arrive, Replay, Refuse, CancelWaiting, Preflight, Transmit,
                 Respond, CancelFinish, ledgerVars, runtimeVars
  <1>14. ASSUME NEW r \in Runtimes, LookUp(r) \/ Tick
         PROVE  UNCHANGED slotVars
    BY <1>14 DEF LookUp, Tick, ledgerVars, runtimeVars
  <1>15. CASE Tick \/ UNCHANGED vars
    BY <1>3, <1>15 DEF Tick, vars, ledgerVars, runtimeVars
  <1>. QED
    BY <1>3, <1>4, <1>5, <1>6, <1>7, <1>8, <1>9, <1>10, <1>11, <1>12, <1>13,
       <1>14, <1>15 DEF Next, StartStep, CallStep

\* A call that begins a write takes the free lock; one that does not leaves the
\* locks and the snapshots alone; one whose write ends gives the lock back.
LEMMA BeginsWrite ==
  ASSUME IInv, NEW c \in Calls, BeginAlias(c) \/ BeginClaim(c) \/ BeginRecord(c)
  PROVE  /\ pc[c] \in {"lock", "finish"} /\ lock[Rt(c)] = None
         /\ Rt(c) \in Runtimes /\ Key(c) \in Keys
         /\ \E x \in Saving : pc' = [pc EXCEPT ![c] = x]
         /\ lock' = [lock EXCEPT ![Rt(c)] = c]
         /\ UNCHANGED <<disk, runtimeVars, available, stopping, active, req,
                        sends, now>>
  <1>1. pc[c] \in {"lock", "finish"} /\ lock[Rt(c)] = None
    BY DEF BeginAlias, BeginClaim, BeginRecord, Enters
  <1>2. Rt(c) \in Runtimes /\ Key(c) \in Keys
    BY <1>1, CallTypes DEF IInv
  <1>. QED
    BY <1>1, <1>2 DEF BeginAlias, BeginClaim, BeginRecord, Save, Goto, Saving,
                      historyVars, envVars

\* The end of a write: the lock is released, and the file is the old one or the new one.
LEMMA EndsWrite ==
  ASSUME IInv, NEW c \in Calls, AliasSaved(c) \/ ClaimSaved(c) \/ RecordSaved(c)
  PROVE  /\ pc[c] \in Saving
         /\ Rt(c) \in Runtimes /\ Key(c) \in Keys
         /\ \/ pc' = [pc EXCEPT ![c] = "done"]
            \/ pc[c] = "claim" /\ pc' = [pc EXCEPT ![c] = "send"]
         /\ lock' = [lock EXCEPT ![Rt(c)] = None]
         /\ snap[Rt(c)] # None
         /\ snap' = [snap EXCEPT ![Rt(c)] = None]
         /\ disk' \in {disk, snap[Rt(c)]}
         /\ available' \in {available, available \ {Rt(c)}}
         /\ UNCHANGED <<runtimeVars, stopping, req, sends, now>>
  <1>1. pc[c] \in Saving
    BY DEF AliasSaved, ClaimSaved, RecordSaved, Saving
  <1>2. Rt(c) \in Runtimes /\ Key(c) \in Keys
    BY <1>1, CallTypes DEF IInv, Saving
  <1>3. \/ \E a : Return(c, a)
        \/ pc[c] = "claim" /\ Goto(c, "send")
    BY DEF AliasSaved, ClaimSaved, RecordSaved
  <1>4. \E result : Write(Rt(c), result)
    BY DEF AliasSaved, ClaimSaved, RecordSaved
  <1>5. /\ Release(Rt(c))
        /\ available' \in {available, available \ {Rt(c)}}
        /\ UNCHANGED <<runtimeVars, stopping, req, sends, now>>
    BY DEF AliasSaved, ClaimSaved, RecordSaved, historyVars, envVars
  <1>6. /\ snap[Rt(c)] # None
        /\ snap' = [snap EXCEPT ![Rt(c)] = None]
        /\ disk' \in {disk, snap[Rt(c)]}
    BY <1>4 DEF Write
  <1>7. \/ pc' = [pc EXCEPT ![c] = "done"]
        \/ pc[c] = "claim" /\ pc' = [pc EXCEPT ![c] = "send"]
    BY <1>3 DEF Return, Goto
  <1>. QED
    BY <1>1, <1>2, <1>5, <1>6, <1>7 DEF Release

\* The steps of a call that write nothing.
LEMMA NoWrite ==
  ASSUME IInv, NEW c \in Calls,
         \/ Replay(c) \/ Refuse(c) \/ CancelWaiting(c) \/ Preflight(c)
         \/ Transmit(c) \/ Respond(c) \/ CancelFinish(c)
  PROVE  /\ Rt(c) \in Runtimes /\ Key(c) \in Keys
         /\ \/ pc[c] = "lock" /\ pc' = [pc EXCEPT ![c] = "done"]
            \/ pc[c] = "send" /\ pc' = [pc EXCEPT ![c] = "sent"] /\ Transmit(c)
            \/ pc[c] \in {"send", "sent"} /\ pc' = [pc EXCEPT ![c] = "finish"]
            \/ pc[c] = "finish" /\ pc' = [pc EXCEPT ![c] = "done"]
         /\ mem' \in {mem, [mem EXCEPT ![Rt(c)] = Prune(@)]}
         /\ UNCHANGED <<disk, snap, lock, runtimeVars, available, stopping, req, now>>
  <1>1. pc[c] # "idle"
    BY DEF Replay, Refuse, CancelWaiting, Preflight, Transmit, Respond,
           CancelFinish, Enters
  <1>2. Rt(c) \in Runtimes /\ Key(c) \in Keys
    BY <1>1, CallTypes DEF IInv
  <1>3. CASE Replay(c) \/ Refuse(c)
    BY <1>2, <1>3 DEF Replay, Refuse, Enters, KeepPruned, Pruned, Here, Return,
                      Goto, runtimeVars, envVars
  <1>4. CASE CancelWaiting(c) \/ Preflight(c) \/ Transmit(c) \/ Respond(c)
             \/ CancelFinish(c)
    BY <1>2, <1>4 DEF CancelWaiting, Preflight, Transmit, Respond, CancelFinish,
                      Return, Goto, ledgerVars, runtimeVars, envVars
  <1>. QED
    BY <1>3, <1>4

\* The steps of a starting, stopping or idle runtime, and of nobody.
RuntimeStep ==
  \/ \E r \in Runtimes : EnterSlot(r) \/ StartStep(r) \/ CancelStart(r)
                         \/ Stop(r) \/ LookUp(r)
  \/ Tick
  \/ UNCHANGED vars

\* The steps, by who takes them.
LEMMA NextCases ==
  ASSUME [Next]_vars
  PROVE  \/ RuntimeStep
         \/ Crash
         \/ \E c \in Calls :
              \/ \E q \in Request : Arrive(c, q)
              \/ BeginAlias(c) \/ BeginClaim(c) \/ BeginRecord(c)
              \/ AliasSaved(c) \/ ClaimSaved(c) \/ RecordSaved(c)
              \/ Replay(c) \/ Refuse(c) \/ CancelWaiting(c) \/ Preflight(c)
              \/ Transmit(c) \/ Respond(c) \/ CancelFinish(c)
  BY DEF Next, CallStep, RuntimeStep

\* Runtimes do not touch calls or what was sent.
LEMMA RuntimeFrame ==
  ASSUME RuntimeStep
  PROVE  UNCHANGED <<active, callVars, historyVars>>
  BY DEF RuntimeStep, StartStep, EnterSlot, FencePrevious, TakeOver, Load,
         LoadFails, StartSaved, CancelStart, Stop, LookUp, Tick, vars

\* A snapshot is in flight only under the lock of its runtime.
LEMMA LockStep ==
  ASSUME IInv, [Next]_vars
  PROVE  LockInv'
  <1>. USE DEF IInv
  <1>1. None \notin Calls /\ None \notin Runtimes /\ Calls \cap Runtimes = {}
    BY NoneAssumption
  <1>2. /\ lock \in [Runtimes -> Calls \cup Runtimes \cup {None}]
        /\ phase \in [Runtimes -> Phases]
        /\ snap \in [Runtimes -> Ledger \cup {None}]
        /\ pc \in [Calls -> InFlight \cup {"idle", "done", "dead"}]
        /\ req \in [Calls -> Request \cup {None}]
    BY DEF TypeOK
  <1>3. ASSUME NEW c \in Calls, NEW q \in Request, Arrive(c, q)
        PROVE  LockInv'
    <2>1. /\ pc[c] = "idle"
          /\ pc' = [pc EXCEPT ![c] = "lock"]
          /\ req' = [req EXCEPT ![c] = q]
          /\ UNCHANGED <<lock, snap, phase>>
      BY <1>3 DEF Arrive, Goto, ledgerVars, runtimeVars
    <2>. QED
      BY <1>1, <1>2, <2>1 DEF LockInv, Rt, Saving
  <1>4. ASSUME NEW c \in Calls, BeginAlias(c) \/ BeginClaim(c) \/ BeginRecord(c)
        PROVE  LockInv'
    <2>1. PICK m : snap' = [snap EXCEPT ![Rt(c)] = m]
      BY <1>4 DEF BeginAlias, BeginClaim, BeginRecord, Save
    <2>2. pc[c] \notin Saving /\ pc[c] # "idle" /\ lock[Rt(c)] = None
      BY <1>4, BeginsWrite DEF Saving
    <2>3. /\ Rt(c) \in Runtimes
          /\ \E x \in Saving : pc' = [pc EXCEPT ![c] = x]
          /\ lock' = [lock EXCEPT ![Rt(c)] = c]
          /\ UNCHANGED <<phase, req>>
      BY <1>4, BeginsWrite DEF runtimeVars
    <2>4. \A d \in Calls : pc[d] \in Saving => Rt(d) # Rt(c)
      BY <2>2, LockFacts
    <2>. QED
      BY <1>1, <1>2, <2>1, <2>2, <2>3, <2>4 DEF LockInv, Rt
  <1>5. ASSUME NEW c \in Calls, AliasSaved(c) \/ ClaimSaved(c) \/ RecordSaved(c)
        PROVE  LockInv'
    <2>1. /\ pc[c] \in Saving /\ lock[Rt(c)] = c
          /\ \A d \in Calls : pc[d] \in Saving /\ d # c => Rt(d) # Rt(c)
      BY <1>5, EndsWrite, LockFacts DEF Saving
    <2>2. \E x \in {"done", "send"} : pc' = [pc EXCEPT ![c] = x]
      BY <1>5, EndsWrite
    <2>3. /\ Rt(c) \in Runtimes
          /\ lock' = [lock EXCEPT ![Rt(c)] = None]
          /\ snap' = [snap EXCEPT ![Rt(c)] = None]
          /\ UNCHANGED <<phase, req>>
      BY <1>5, EndsWrite DEF runtimeVars
    <2>. QED
      BY <1>1, <1>2, <2>1, <2>2, <2>3 DEF LockInv, Rt, Saving
  <1>6. ASSUME NEW c \in Calls,
               \/ Replay(c) \/ Refuse(c) \/ CancelWaiting(c) \/ Preflight(c)
               \/ Transmit(c) \/ Respond(c) \/ CancelFinish(c)
        PROVE  LockInv'
    BY <1>1, <1>2, <1>6, NoWrite DEF LockInv, Rt, runtimeVars, Saving
  <1>7. CASE Crash
    <2>1. /\ \A r \in Runtimes : snap'[r] = None /\ lock'[r] = None
          /\ \A c \in Calls : pc'[c] \notin Saving
          /\ \A c \in Calls : pc'[c] # "idle" => pc[c] # "idle"
          /\ UNCHANGED req
      BY <1>7 DEF Crash, Saving, InFlight, Admitted
    <2>. QED
      BY <1>1, <2>1 DEF LockInv
  <1>8. CASE RuntimeStep
    <2>1. UNCHANGED <<pc, req>>
      BY <1>8, RuntimeFrame DEF callVars
    <2>2. CASE \E r \in Runtimes : EnterSlot(r) \/ Stop(r) \/ FencePrevious(r)
      BY <1>1, <1>2, <2>1, <2>2
      DEF LockInv, SlotInv, EnterSlot, Stop, FencePrevious, Rt, Saving,
          ledgerVars, runtimeVars
    <2>3. CASE \E r \in Runtimes : TakeOver(r)
      <3>1. PICK r \in Runtimes : TakeOver(r)
        BY <2>3
      <3>2. /\ phase[r] \in {"slot", "drain"}
            /\ lock' = [lock EXCEPT ![r] = r]
            /\ phase' = [phase EXCEPT ![r] = "load"]
            /\ UNCHANGED snap
        BY <3>1 DEF TakeOver
      <3>3. lock[r] \notin Calls
        BY <3>2 DEF LockInv, SlotInv, OwnerInv, Saving, Admitted
      <3>. QED
        BY <1>1, <1>2, <2>1, <3>2, <3>3 DEF LockInv, Rt, Saving
    <2>4. ASSUME NEW r \in Runtimes,
                 Load(r) \/ LoadFails(r) \/ StartSaved(r) \/ CancelStart(r)
          PROVE  LockInv'
      <3>1. phase[r] \in {"slot", "drain", "load", "save"}
        BY <2>4 DEF Load, LoadFails, StartSaved, CancelStart
      <3>2. lock[r] \notin Calls
        BY <1>1, <3>1 DEF LockInv, SlotInv, OwnerInv, Saving, Admitted
      <3>3. \/ /\ phase[r] = "load" /\ phase' = [phase EXCEPT ![r] = "save"]
               /\ lock' = [lock EXCEPT ![r] = r]
               /\ \E m : snap' = [snap EXCEPT ![r] = m]
            \/ /\ phase' \in {[phase EXCEPT ![r] = "up"], [phase EXCEPT ![r] = "aborted"]}
               /\ lock' = [lock EXCEPT ![r] = None]
               /\ \/ phase[r] # "save" /\ UNCHANGED snap
                  \/ snap' = [snap EXCEPT ![r] = None]
        BY <2>4 DEF Load, LoadFails, StartSaved, CancelStart, Write, Save,
                    LeaveStart, Release
      <3>4. \A c \in Calls : pc[c] \in Saving => Rt(c) \in Runtimes /\ Rt(c) # r
        BY <3>2, CallTypes DEF LockInv, Saving
      <3>. QED
        BY <1>1, <1>2, <2>1, <3>1, <3>2, <3>3, <3>4 DEF LockInv, Rt
    <2>5. CASE (\E r \in Runtimes : LookUp(r)) \/ Tick \/ UNCHANGED vars
      BY <1>1, <1>2, <2>1, <2>5
      DEF LockInv, LookUp, Tick, vars, Rt, Saving, ledgerVars, runtimeVars
    <2>. QED
      BY <1>8, <2>2, <2>3, <2>4, <2>5 DEF RuntimeStep, StartStep
  <1>. QED
    BY <1>3, <1>4, <1>5, <1>6, <1>7, <1>8, NextCases

\* Admitted calls belong to the owner of the slot, and are what it drains.
LEMMA OwnerStep ==
  ASSUME IInv, [Next]_vars
  PROVE  OwnerInv'
  <1>. USE DEF IInv
  <1>1. None \notin Calls /\ None \notin Runtimes /\ Calls \cap Runtimes = {}
    BY NoneAssumption
  <1>2. /\ pc \in [Calls -> InFlight \cup {"idle", "done", "dead"}]
        /\ req \in [Calls -> Request \cup {None}]
        /\ active \in [Runtimes -> SUBSET Calls]
        /\ available \subseteq Runtimes
        /\ owner \in Runtimes \cup {None}
    BY DEF TypeOK
  <1>3. ASSUME NEW c \in Calls, NEW q \in Request, Arrive(c, q)
        PROVE  OwnerInv'
    <2>1. /\ pc[c] = "idle"
          /\ pc' = [pc EXCEPT ![c] = "lock"]
          /\ req' = [req EXCEPT ![c] = q]
          /\ phase[q.rt] = "up"
          /\ UNCHANGED <<active, owner, available, phase>>
      BY <1>3 DEF Arrive, Goto, runtimeVars
    <2>. QED
      BY <1>2, <2>1 DEF OwnerInv, Rt, InFlight, Admitted
  <1>4. ASSUME NEW c \in Calls, BeginAlias(c) \/ BeginClaim(c) \/ BeginRecord(c)
        PROVE  OwnerInv'
    <2>1. \/ pc[c] = "finish" /\ pc' = [pc EXCEPT ![c] = "record"]
          \/ /\ pc[c] = "lock"
             /\ \E x \in {"alias", "claim"} : pc' = [pc EXCEPT ![c] = x]
             /\ Rt(c) \in available
      BY <1>4 DEF BeginAlias, BeginClaim, BeginRecord, Enters, Goto,
                  AliasAllowed, ClaimAllowed
    <2>2. /\ Rt(c) \in Runtimes
          /\ UNCHANGED <<active, owner, available, req, phase>>
      BY <1>4, BeginsWrite DEF runtimeVars
    <2>3. Rt(c) \in available => owner = Rt(c)
      BY <2>2 DEF SlotInv
    <2>. QED
      BY <1>2, <2>1, <2>2, <2>3 DEF OwnerInv, Rt, InFlight, Admitted
  <1>5. ASSUME NEW c \in Calls, AliasSaved(c) \/ ClaimSaved(c) \/ RecordSaved(c)
        PROVE  OwnerInv'
    <2>1. /\ pc[c] \in Saving /\ Rt(c) \in Runtimes
          /\ \A d \in Calls : pc[d] \in Saving /\ d # c => Rt(d) # Rt(c)
      BY <1>5, EndsWrite, LockFacts DEF Saving
    <2>2. /\ available' \in {available, available \ {Rt(c)}}
          /\ UNCHANGED <<owner, req, phase>>
      BY <1>5, EndsWrite DEF runtimeVars
    <2>3. \/ /\ pc[c] = "alias" /\ pc' = [pc EXCEPT ![c] = "done"]
             /\ UNCHANGED active
          \/ /\ pc[c] = "claim" /\ pc' = [pc EXCEPT ![c] = "done"]
             /\ UNCHANGED active
          \/ /\ pc[c] = "claim" /\ pc' = [pc EXCEPT ![c] = "send"]
             /\ active' = [active EXCEPT ![Rt(c)] = @ \cup {c}]
          \/ /\ pc[c] = "record" /\ pc' = [pc EXCEPT ![c] = "done"]
             /\ active' = [active EXCEPT ![Rt(c)] = @ \ {c}]
      BY <1>5 DEF AliasSaved, ClaimSaved, RecordSaved, Return, Goto, Retire
    <2>. QED
      BY <1>2, <2>1, <2>2, <2>3 DEF OwnerInv, Rt, InFlight, Admitted, Saving
  <1>6. ASSUME NEW c \in Calls,
               \/ Replay(c) \/ Refuse(c) \/ CancelWaiting(c) \/ Preflight(c)
               \/ Transmit(c) \/ Respond(c) \/ CancelFinish(c)
        PROVE  OwnerInv'
    <2>1. Rt(c) \in Runtimes /\ UNCHANGED <<owner, available, req, phase>>
      BY <1>6, NoWrite DEF runtimeVars
    <2>2. \/ /\ pc[c] = "lock" /\ pc' = [pc EXCEPT ![c] = "done"]
             /\ UNCHANGED active
          \/ /\ pc[c] \in Admitted
             /\ \E x \in Admitted : pc' = [pc EXCEPT ![c] = x]
             /\ UNCHANGED active
          \/ /\ pc[c] = "finish" /\ pc' = [pc EXCEPT ![c] = "done"]
             /\ active' = [active EXCEPT ![Rt(c)] = @ \ {c}]
      BY <1>6 DEF Replay, Refuse, CancelWaiting, Preflight, Transmit, Respond,
                  CancelFinish, Enters, Return, Goto, Retire, Admitted
    <2>. QED
      BY <1>2, <2>1, <2>2 DEF OwnerInv, Rt, InFlight, Admitted
  <1>7. CASE Crash
    <2>1. /\ \A r \in Runtimes : active'[r] = {}
          /\ \A c \in Calls : pc'[c] \notin InFlight
      BY <1>7 DEF Crash, InFlight, Admitted
    <2>. QED
      BY <2>1 DEF OwnerInv, InFlight
  <1>8. CASE RuntimeStep
    <2>1. UNCHANGED <<pc, req, active>>
      BY <1>8, RuntimeFrame DEF callVars
    <2>2. \A c \in Calls : pc[c] # "idle" => Rt(c) \in Runtimes
      BY CallTypes
    <2>3. \A r \in Runtimes : phase[r] = "up" => phase'[r] = "up"
      <3>1. \/ UNCHANGED phase
            \/ \E r \in Runtimes : /\ phase[r] # "up"
                                   /\ \E p : phase' = [phase EXCEPT ![r] = p]
        BY <1>8 DEF RuntimeStep, StartStep, EnterSlot, FencePrevious, TakeOver,
           Load, LoadFails, StartSaved, CancelStart, Stop, LookUp, Tick, vars,
           LeaveStart, runtimeVars
      <3>. QED
        BY <1>2, <3>1 DEF TypeOK
    <2>4. \A c \in Calls : pc'[c] \in InFlight => phase'[Rt(c)] = "up"
      BY <2>1, <2>2, <2>3 DEF OwnerInv, InFlight, Admitted
    <2>5. ASSUME NEW r \in Runtimes, Stop(r) \/ FencePrevious(r)
          PROVE  OwnerInv'
      <3>1. PICK x \in Runtimes : Fence(x)
        BY <1>2, <2>5 DEF Stop, FencePrevious
      <3>2. lock[x] = None /\ available' = available \ {x} /\ UNCHANGED owner
        BY <2>5, <3>1 DEF Fence, Stop, FencePrevious, runtimeVars
      <3>3. \A c \in Calls : pc[c] \in Saving => Rt(c) # x
        BY <1>1, <3>2 DEF LockInv
      <3>. QED
        BY <2>1, <2>4, <3>2, <3>3 DEF OwnerInv, Rt, Saving
    <2>6. ASSUME NEW r \in Runtimes, TakeOver(r)
          PROVE  OwnerInv'
      <3>1. UNCHANGED available
        BY <2>6 DEF TakeOver
      <3>2. \/ owner = None
            \/ owner \in Runtimes /\ active[owner] = {} /\ owner \notin available
        BY <1>2, <2>6 DEF TakeOver, SlotInv
      <3>3. \A c \in Calls : pc[c] \notin Admitted \cup {"claim", "alias"}
        BY <1>1, <2>2, <3>2 DEF OwnerInv, Admitted
      <3>. QED
        BY <2>1, <2>4, <3>1, <3>3 DEF OwnerInv, Rt
    <2>7. CASE available \subseteq available' /\ UNCHANGED owner
      BY <2>1, <2>4, <2>7 DEF OwnerInv, Rt
    <2>8. ASSUME NEW r \in Runtimes,
                 \/ EnterSlot(r) \/ Load(r) \/ LoadFails(r) \/ StartSaved(r)
                 \/ CancelStart(r) \/ LookUp(r)
          PROVE  available \subseteq available' /\ UNCHANGED owner
      BY <2>8 DEF EnterSlot, Load, LoadFails, StartSaved, CancelStart, LookUp,
                  runtimeVars
    <2>9. CASE Tick \/ UNCHANGED vars
      BY <2>7, <2>9 DEF Tick, vars, runtimeVars
    <2>. QED
      BY <1>8, <2>5, <2>6, <2>7, <2>8, <2>9 DEF RuntimeStep, StartStep
  <1>. QED
    BY <1>3, <1>4, <1>5, <1>6, <1>7, <1>8, NextCases

\* A call has its outcome when it stands before recording it.
LEMMA OutcomeStep ==
  ASSUME IInv, [Next]_vars
  PROVE  OutcomeInv'
  <1>1. /\ pc \in [Calls -> InFlight \cup {"idle", "done", "dead"}]
        /\ outcome \in [Calls -> Outcomes]
    BY DEF IInv, TypeOK
  <1>2. CASE RuntimeStep
    BY <1>2, RuntimeFrame DEF IInv, OutcomeInv, callVars
  <1>3. CASE Crash
    BY <1>1, <1>3 DEF Crash, OutcomeInv, InFlight, Admitted
  <1>4. ASSUME NEW c \in Calls, Preflight(c) \/ Respond(c)
        PROVE  OutcomeInv'
    BY <1>1, <1>4 DEF Preflight, Respond, Goto, IInv, OutcomeInv
  <1>5. ASSUME NEW c \in Calls,
               \/ \E q \in Request : Arrive(c, q)
               \/ BeginAlias(c) \/ BeginClaim(c) \/ BeginRecord(c)
               \/ AliasSaved(c) \/ ClaimSaved(c) \/ RecordSaved(c)
               \/ Replay(c) \/ Refuse(c) \/ CancelWaiting(c) \/ Transmit(c)
               \/ CancelFinish(c)
        PROVE  OutcomeInv'
    <2>1. UNCHANGED outcome
      BY <1>5 DEF Arrive, BeginAlias, BeginClaim, BeginRecord, AliasSaved,
         ClaimSaved, RecordSaved, Replay, Refuse, CancelWaiting, Transmit,
         CancelFinish
    <2>2. \/ \E x : pc' = [pc EXCEPT ![c] = x] /\ x \notin {"finish", "record"}
          \/ pc[c] = "finish" /\ pc' = [pc EXCEPT ![c] = "record"]
      BY <1>5 DEF Arrive, BeginAlias, BeginClaim, BeginRecord, AliasSaved,
         ClaimSaved, RecordSaved, Replay, Refuse, CancelWaiting, Transmit,
         CancelFinish, Return, Goto
    <2>. QED
      BY <1>1, <2>1, <2>2 DEF IInv, OutcomeInv
  <1>. QED
    BY <1>2, <1>3, <1>4, <1>5, NextCases

\* What every call that is about to send has: IntentInv, call by call.
Intent(c) ==
  /\ Here(c)[Key(c)] # None
  /\ Here(c)[Key(c)].status = "pending"
  /\ pc[c] \in Waiting => Pending(disk[Key(c)], Here(c)[Key(c)].created)
  /\ snap[Rt(c)] # None => Pending(snap[Rt(c)][Key(c)], Here(c)[Key(c)].created)

Distinct ==
  \A c, d \in Calls :
    /\ c # d
    /\ pc[c] \in Admitted \cup {"claim"}
    /\ pc[d] \in Admitted \cup {"claim"}
    /\ Rt(c) = Rt(d)
    => Key(c) # Key(d)

\* IntentInv, call by call.
LEMMA IntentByCall ==
  IntentInv <=> /\ \A c \in Calls : pc[c] \in Waiting \cup {"claim"} => Intent(c)
                /\ Distinct
  BY DEF IntentInv, Intent, Distinct, Waiting

\* A call that waits to send belongs to the owner; so does every write.
LEMMA WaitingFacts ==
  ASSUME IInv, NEW d \in Calls, pc[d] \in Waiting \cup {"claim"}
  PROVE  /\ Rt(d) \in Runtimes /\ Key(d) \in Keys
         /\ mem[Rt(d)] \in Ledger
         /\ owner = Rt(d)
         /\ Intent(d)
         /\ mem[Rt(d)][Key(d)] # None
         /\ Prune(mem[Rt(d)])[Key(d)] = mem[Rt(d)][Key(d)]
  <1>1. Rt(d) \in Runtimes /\ Key(d) \in Keys /\ mem[Rt(d)] \in Ledger
    BY CallTypes DEF IInv, Waiting, Here
  <1>2. owner = Rt(d)
    BY DEF IInv, OwnerInv, Waiting, Admitted
  <1>3. Intent(d)
    BY IntentByCall DEF IInv
  <1>. QED
    BY <1>1, <1>2, <1>3, PruneUnresolved DEF Intent, Here, Unresolved

\* The ledger that a call is about to write, and what it wrote it for.
Begins(c, m) ==
  \/ BeginAlias(c) /\ m = WithAlias(c)
  \/ BeginClaim(c) /\ m = WithClaim(c)
  \/ BeginRecord(c) /\ m = WithStatus(Here(c), Key(c), FinalStatus(c))

\* The beginning of a write: memory and snapshot become the new ledger.
LEMMA BeginsSaves ==
  ASSUME IInv, NEW c \in Calls, BeginAlias(c) \/ BeginClaim(c) \/ BeginRecord(c)
  PROVE  \E m \in Ledger :
           /\ Begins(c, m)
           /\ mem' = [mem EXCEPT ![Rt(c)] = m]
           /\ snap' = [snap EXCEPT ![Rt(c)] = m]
  <1>. USE DEF IInv
  <1>1. CASE BeginAlias(c)
    <2>1. pc[c] # "idle" /\ Existing(c) # None /\ NewAlias(c)
      BY <1>1 DEF BeginAlias, Enters, Matches
    <2>2. WithAlias(c) \in Ledger
      BY <2>1, AliasLedger
    <2>. QED
      BY <1>1, <2>2 DEF Begins, BeginAlias, Save
  <1>2. CASE BeginClaim(c)
    <2>1. WithClaim(c) \in Ledger
      BY <1>2, ClaimLedger DEF BeginClaim, Enters
    <2>. QED
      BY <1>2, <2>1 DEF Begins, BeginClaim, Save
  <1>3. CASE BeginRecord(c)
    <2>1. pc[c] = "finish" /\ Here(c) \in Ledger /\ Key(c) \in Keys
      BY <1>3, CallTypes DEF BeginRecord
    <2>2. outcome[c] \in Outcomes \ {"none"}
      BY <2>1 DEF OutcomeInv, TypeOK
    <2>3. FinalStatus(c) \in Status
      BY <2>2 DEF FinalStatus, Outcomes, Status
    <2>4. WithStatus(Here(c), Key(c), FinalStatus(c)) \in Ledger
      BY <2>1, <2>3, WithStatusLedger
    <2>. QED
      BY <1>3, <2>4 DEF Begins, BeginRecord, Save
  <1>. QED
    BY <1>1, <1>2, <1>3

\* It leaves the intent of every other call of the runtime as it is.
LEMMA BeginsKeeps ==
  ASSUME IInv, NEW c \in Calls, NEW d \in Calls, NEW m, Begins(c, m),
         d # c, pc[d] \in Waiting, Rt(d) = Rt(c)
  PROVE  /\ Pending(m[Key(d)], mem[Rt(d)][Key(d)].created)
         /\ BeginClaim(c) => Key(d) # Key(c)
  <1>. USE DEF IInv
  <1>1. /\ Key(d) \in Keys
        /\ mem[Rt(d)][Key(d)] # None
        /\ mem[Rt(d)][Key(d)].status = "pending"
        /\ Pruned(c)[Key(d)] = mem[Rt(d)][Key(d)]
    BY WaitingFacts DEF Intent, Here, Pruned
  <1>2. CASE BeginAlias(c) /\ m = WithAlias(c)
    <2>1. pc[c] # "idle" /\ Existing(c) # None /\ NewAlias(c)
      BY <1>2 DEF BeginAlias, Enters, Matches
    <2>2. ~BeginClaim(c)
      BY <1>2 DEF BeginAlias, BeginClaim, Matches
    <2>. QED
      BY <1>1, <1>2, <2>1, <2>2, AliasLedger DEF Pending
  <1>3. CASE BeginClaim(c) /\ m = WithClaim(c)
    <2>1. pc[c] # "idle" /\ Existing(c) = None
      BY <1>3 DEF BeginClaim, Enters
    <2>2. Key(d) # Key(c)
      BY <1>1, <2>1 DEF Existing
    <2>. QED
      BY <1>1, <1>3, <2>1, <2>2, ClaimLedger DEF Pending
  <1>4. CASE BeginRecord(c) /\ m = WithStatus(Here(c), Key(c), FinalStatus(c))
    <2>1. pc[c] = "finish"
      BY <1>4 DEF BeginRecord
    <2>2. Key(d) # Key(c)
      BY <2>1, IntentByCall DEF Distinct, Waiting, Admitted
    <2>. QED
      BY <1>1, <1>4, <2>2 DEF WithStatus, Here, Pending
  <1>. QED
    BY <1>2, <1>3, <1>4 DEF Begins

\* When a write ends, the memory of its runtime is as it was, or the record of
\* the call has another status or fewer uploads.
Revises(m, c) ==
  \A k \in Keys :
    /\ m[k] = None <=> Here(c)[k] = None
    /\ m[k] # None => m[k].created = Here(c)[k].created
    /\ m[k] # Here(c)[k] =>
         /\ k = Key(c)
         /\ pc[c] \in {"claim", "record"} \/ m[k].status = Here(c)[k].status

\* The end of a write revises at most the record it was about.
LEMMA EndsSets ==
  ASSUME IInv, NEW c \in Calls, AliasSaved(c) \/ ClaimSaved(c) \/ RecordSaved(c)
  PROVE  \E m \in Ledger : mem' = [mem EXCEPT ![Rt(c)] = m] /\ Revises(m, c)
  <1>. USE DEF IInv
  <1>1. /\ Rt(c) \in Runtimes /\ Key(c) \in Keys /\ Here(c) \in Ledger
        /\ mem \in [Runtimes -> Ledger] /\ Here(c) = mem[Rt(c)]
    BY EndsWrite, CallTypes DEF Saving, TypeOK, Here
  <1>2. CASE UNCHANGED mem
    <2>1. mem' = [mem EXCEPT ![Rt(c)] = Here(c)]
      BY <1>1, <1>2
    <2>. QED
      BY <1>1, <2>1 DEF Revises
  <1>3. CASE mem' = [mem EXCEPT ![Rt(c)] = Withdrawn(Here(c), c)]
    <2>1. \A k \in Keys : k # Key(c) => Withdrawn(Here(c), c)[k] = Here(c)[k]
      BY <1>1 DEF Withdrawn, Ledger
    <2>2. Withdrawn(Here(c), c) \in Ledger
      BY <1>1, WithdrawnLedger
    <2>3. \A k \in Keys :
            /\ Withdrawn(Here(c), c)[k] = None <=> Here(c)[k] = None
            /\ Here(c)[k] # None =>
                 /\ Withdrawn(Here(c), c)[k].created = Here(c)[k].created
                 /\ Withdrawn(Here(c), c)[k].status = Here(c)[k].status
      BY <1>1, WithdrawnLedger
    <2>4. Revises(Withdrawn(Here(c), c), c)
      BY <2>1, <2>3 DEF Revises
    <2>. QED
      BY <1>3, <2>2, <2>4
  <1>4. ASSUME NEW s \in Status, pc[c] \in {"claim", "record"},
               mem' = [mem EXCEPT ![Rt(c)] = WithStatus(Here(c), Key(c), s)]
        PROVE  \E m \in Ledger : mem' = [mem EXCEPT ![Rt(c)] = m] /\ Revises(m, c)
    <2>1. WithStatus(Here(c), Key(c), s) \in Ledger
      BY <1>1, WithStatusLedger
    <2>2. Revises(WithStatus(Here(c), Key(c), s), c)
      BY <1>1, <1>4, WithStatusLedger DEF Revises
    <2>. QED
      BY <1>4, <2>1, <2>2
  <1>5. \/ UNCHANGED mem
        \/ mem' = [mem EXCEPT ![Rt(c)] = Withdrawn(Here(c), c)]
        \/ /\ pc[c] \in {"claim", "record"}
           /\ \E s \in {"unknown", "unsaved"} :
                mem' = [mem EXCEPT ![Rt(c)] = WithStatus(Here(c), Key(c), s)]
    BY <1>1 DEF AliasSaved, ClaimSaved, RecordSaved
  <1>. QED
    BY <1>2, <1>3, <1>4, <1>5 DEF Status

\* The intent of an admitted call stays pending in memory and file until its outcome is written.
LEMMA IntentStep ==
  ASSUME IInv, [Next]_vars
  PROVE  IntentInv'
  <1>1. /\ pc \in [Calls -> InFlight \cup {"idle", "done", "dead"}]
        /\ req \in [Calls -> Request \cup {None}]
        /\ mem \in [Runtimes -> Ledger]
        /\ snap \in [Runtimes -> Ledger \cup {None}]
        /\ disk \in Ledger
    BY DEF IInv, TypeOK
  <1>2. (\A c \in Calls : pc'[c] \in Waiting \cup {"claim"} => Intent(c)')
        /\ Distinct' => IntentInv'
    BY DEF IntentInv, Intent, Distinct, Waiting
  <1>3. Distinct
    BY IntentByCall DEF IInv
  <1>4. ASSUME NEW c \in Calls, NEW q \in Request, Arrive(c, q)
        PROVE  IntentInv'
    <2>1. /\ pc[c] = "idle"
          /\ pc' = [pc EXCEPT ![c] = "lock"]
          /\ req' = [req EXCEPT ![c] = q]
          /\ UNCHANGED <<mem, disk, snap>>
      BY <1>4 DEF Arrive, Goto, ledgerVars
    <2>2. ASSUME NEW d \in Calls, pc'[d] \in Waiting \cup {"claim"}
          PROVE  Intent(d)'
      BY <1>1, <2>1, <2>2, WaitingFacts DEF Intent, Here, Rt, Key, Waiting
    <2>3. Distinct'
      BY <1>1, <1>3, <2>1 DEF Distinct, Rt, Key, Admitted
    <2>. QED
      BY <1>2, <2>2, <2>3
  <1>5. ASSUME NEW c \in Calls, BeginAlias(c) \/ BeginClaim(c) \/ BeginRecord(c)
        PROVE  IntentInv'
    <2>1. PICK m \in Ledger : /\ Begins(c, m)
                              /\ mem' = [mem EXCEPT ![Rt(c)] = m]
                              /\ snap' = [snap EXCEPT ![Rt(c)] = m]
      BY <1>5, BeginsSaves
    <2>2. /\ Rt(c) \in Runtimes
          /\ UNCHANGED <<disk, req>>
          /\ \A d \in Calls : pc[d] \in Saving => Rt(d) # Rt(c)
          /\ pc[c] \notin Saving
      BY <1>5, BeginsWrite, LockFacts DEF Saving
    <2>3. \/ BeginAlias(c) /\ pc' = [pc EXCEPT ![c] = "alias"] /\ pc[c] = "lock"
          \/ BeginClaim(c) /\ pc' = [pc EXCEPT ![c] = "claim"] /\ pc[c] = "lock"
          \/ BeginRecord(c) /\ pc' = [pc EXCEPT ![c] = "record"] /\ pc[c] = "finish"
      BY <1>5 DEF BeginAlias, BeginClaim, BeginRecord, Enters, Goto
    <2>4. ASSUME NEW d \in Calls, d # c, pc'[d] \in Waiting \cup {"claim"}
          PROVE  Intent(d)'
      <3>1. pc[d] = pc'[d] /\ pc[d] \in Waiting \cup {"claim"}
        BY <1>1, <2>3, <2>4
      <3>2. Intent(d) /\ Rt(d) \in Runtimes
        BY <3>1, WaitingFacts
      <3>3. CASE Rt(d) = Rt(c)
        <4>1. pc[d] \in Waiting
          BY <2>2, <3>1, <3>3 DEF Saving
        <4>2. Pending(m[Key(d)], mem[Rt(d)][Key(d)].created)
          BY <2>1, <2>4, <3>3, <4>1, BeginsKeeps
        <4>. QED
          BY <1>1, <2>1, <2>2, <3>1, <3>2, <3>3, <4>2
          DEF Intent, Here, Rt, Key, Pending
      <3>4. CASE Rt(d) # Rt(c)
        BY <1>1, <2>1, <2>2, <3>1, <3>2, <3>4 DEF Intent, Here, Rt, Key
      <3>. QED
        BY <3>3, <3>4
    <2>5. ASSUME pc'[c] \in Waiting \cup {"claim"}
          PROVE  Intent(c)'
      <3>1. BeginClaim(c) /\ pc[c] = "lock" /\ pc' = [pc EXCEPT ![c] = "claim"]
        BY <1>1, <2>3, <2>5 DEF Waiting
      <3>2. m = WithClaim(c) \/ BeginAlias(c) \/ BeginRecord(c)
        BY <2>1 DEF Begins
      <3>3. m = WithClaim(c)
        BY <3>1, <3>2 DEF BeginAlias, BeginRecord, BeginClaim, Matches
      <3>4. Pending(m[Key(c)], now)
        BY <3>1, <3>3, ClaimLedger DEF IInv
      <3>. QED
        BY <1>1, <2>1, <2>2, <3>1, <3>4 DEF Intent, Here, Rt, Key, Pending, Waiting
    <2>6. Distinct'
      <3>1. ASSUME NEW d \in Calls, d # c, pc'[c] \in Admitted \cup {"claim"},
                   pc[d] \in Admitted \cup {"claim"}, Rt(d) = Rt(c)
            PROVE  Key(d) # Key(c)
        <4>1. pc[d] \in Waiting
          BY <2>2, <3>1 DEF Saving, Admitted, Waiting
        <4>2. CASE BeginClaim(c)
          BY <2>1, <3>1, <4>1, <4>2, BeginsKeeps
        <4>3. CASE pc[c] = "finish"
          BY <1>3, <3>1, <4>3 DEF Distinct, Admitted
        <4>. QED
          BY <1>1, <2>3, <3>1, <4>2, <4>3 DEF Admitted
      <3>2. \A d \in Calls : d # c => pc'[d] = pc[d]
        BY <1>1, <2>3
      <3>. QED
        BY <1>3, <2>2, <3>1, <3>2 DEF Distinct, Rt, Key
    <2>. QED
      BY <1>2, <2>4, <2>5, <2>6
  <1>6. ASSUME NEW c \in Calls, AliasSaved(c) \/ ClaimSaved(c) \/ RecordSaved(c)
        PROVE  IntentInv'
    <2>1. PICK m \in Ledger : /\ mem' = [mem EXCEPT ![Rt(c)] = m]
                              /\ Revises(m, c)
      BY <1>6, EndsSets
    <2>2. /\ pc[c] \in Saving /\ Rt(c) \in Runtimes
          /\ \/ pc' = [pc EXCEPT ![c] = "done"]
             \/ pc[c] = "claim" /\ pc' = [pc EXCEPT ![c] = "send"]
          /\ snap[Rt(c)] # None
          /\ snap' = [snap EXCEPT ![Rt(c)] = None]
          /\ disk' \in {disk, snap[Rt(c)]}
          /\ UNCHANGED req
      BY <1>6, EndsWrite
    <2>3. ASSUME NEW d \in Calls, d # c, pc'[d] \in Waiting \cup {"claim"}
          PROVE  Intent(d)'
      <3>1. pc[d] = pc'[d] /\ pc[d] \in Waiting \cup {"claim"}
        BY <1>1, <2>2, <2>3
      <3>2. /\ Intent(d) /\ Rt(d) \in Runtimes /\ Key(d) \in Keys
            /\ Rt(d) = owner /\ owner = Rt(c)
        BY <2>2, <3>1, WaitingFacts, WriterOwns
      <3>3. pc[c] \in {"claim", "record"} => Key(d) # Key(c)
        BY <1>3, <2>3, <3>1, <3>2 DEF Distinct, Waiting, Admitted
      <3>4. /\ m[Key(d)] # None
            /\ m[Key(d)].status = "pending"
            /\ m[Key(d)].created = mem[Rt(d)][Key(d)].created
        BY <2>1, <2>2, <3>2, <3>3 DEF Revises, Intent, Here, Saving
      <3>5. pc[d] \in Waiting => Pending(disk'[Key(d)], mem[Rt(d)][Key(d)].created)
        BY <2>2, <3>2 DEF Intent, Here
      <3>. QED
        BY <1>1, <2>1, <2>2, <3>1, <3>2, <3>4, <3>5
        DEF Intent, Here, Rt, Key, Waiting
    <2>4. ASSUME pc'[c] \in Waiting \cup {"claim"}
          PROVE  Intent(c)'
      <3>1. pc[c] = "claim" /\ pc'[c] = "send"
        BY <1>1, <2>2, <2>4 DEF Waiting
      <3>2. disk' = snap[Rt(c)] /\ UNCHANGED mem
        BY <1>1, <1>6, <3>1 DEF AliasSaved, ClaimSaved, RecordSaved, Return, Goto,
                                Write
      <3>3. Intent(c)
        BY <3>1, WaitingFacts
      <3>. QED
        BY <1>1, <2>2, <3>1, <3>2, <3>3 DEF Intent, Here, Rt, Key
    <2>5. Distinct'
      <3>1. \A d \in Calls : pc'[d] \in Admitted \cup {"claim"} =>
                             pc[d] \in Admitted \cup {"claim"}
        BY <1>1, <2>2 DEF Admitted
      <3>. QED
        BY <1>3, <2>2, <3>1 DEF Distinct, Rt, Key
    <2>. QED
      BY <1>2, <2>3, <2>4, <2>5
  <1>7. ASSUME NEW c \in Calls,
               \/ Replay(c) \/ Refuse(c) \/ CancelWaiting(c) \/ Preflight(c)
               \/ Transmit(c) \/ Respond(c) \/ CancelFinish(c)
        PROVE  IntentInv'
    <2>1. /\ Rt(c) \in Runtimes
          /\ \E x : /\ pc' = [pc EXCEPT ![c] = x]
                    /\ \/ x = "done"
                       \/ x \in Waiting /\ pc[c] \in Waiting
          /\ mem' \in {mem, [mem EXCEPT ![Rt(c)] = Prune(@)]}
          /\ UNCHANGED <<disk, snap, req>>
      BY <1>7, NoWrite DEF Waiting
    <2>2. ASSUME NEW d \in Calls, pc'[d] \in Waiting \cup {"claim"}
          PROVE  Intent(d)'
      <3>1. /\ pc[d] \in Waiting \cup {"claim"}
            /\ pc'[d] \in Waiting => pc[d] \in Waiting
        BY <1>1, <2>1, <2>2 DEF Waiting
      <3>2. /\ Rt(d) \in Runtimes /\ Intent(d)
            /\ mem'[Rt(d)][Key(d)] = mem[Rt(d)][Key(d)]
        BY <1>1, <2>1, <3>1, WaitingFacts
      <3>. QED
        BY <2>1, <3>1, <3>2 DEF Intent, Here, Rt, Key
    <2>3. Distinct'
      <3>1. \A d \in Calls : pc'[d] \in Admitted \cup {"claim"} =>
                             pc[d] \in Admitted \cup {"claim"}
        BY <1>1, <2>1 DEF Admitted, Waiting
      <3>. QED
        BY <1>3, <2>1, <3>1 DEF Distinct, Rt, Key
    <2>. QED
      BY <1>2, <2>2, <2>3
  <1>8. CASE Crash
    <2>1. \A c \in Calls : pc'[c] \notin InFlight
      BY <1>8 DEF Crash, InFlight, Admitted
    <2>. QED
      BY <1>2, <2>1 DEF Distinct, InFlight, Admitted, Waiting
  <1>9. CASE RuntimeStep
    <2>1. UNCHANGED <<pc, req>>
      BY <1>9, RuntimeFrame DEF callVars
    <2>2. \A c \in Calls : pc[c] \in Waiting \cup {"claim"} =>
            phase[Rt(c)] = "up" /\ owner = Rt(c)
      BY WaitingFacts DEF IInv, OwnerInv, InFlight, Admitted, Waiting
    <2>3. \/ UNCHANGED <<disk, mem, snap>>
          \/ /\ \E r \in Runtimes : mem' = [mem EXCEPT ![r] = Prune(@)]
             /\ UNCHANGED <<disk, snap>>
          \/ \E r \in Runtimes : phase[r] \in {"load", "save"}
      BY <1>9 DEF RuntimeStep, StartStep, EnterSlot, FencePrevious, TakeOver,
         Load, LoadFails, StartSaved, CancelStart, Stop, LookUp, Tick, vars,
         ledgerVars
    <2>4. CASE UNCHANGED <<disk, mem, snap>>
      BY <2>1, <2>4 DEF IInv, IntentInv, Here, Rt, Key
    <2>5. CASE /\ \E r \in Runtimes : mem' = [mem EXCEPT ![r] = Prune(@)]
               /\ UNCHANGED <<disk, snap>>
      <3>1. ASSUME NEW d \in Calls, pc'[d] \in Waiting \cup {"claim"}
            PROVE  Intent(d)'
        <4>1. mem'[Rt(d)][Key(d)] = mem[Rt(d)][Key(d)] /\ Intent(d)
          BY <1>1, <2>1, <2>5, <3>1, WaitingFacts
        <4>. QED
          BY <2>1, <2>5, <4>1 DEF Intent, Here, Rt, Key
      <3>2. Distinct'
        BY <1>3, <2>1 DEF Distinct, Rt, Key
      <3>. QED
        BY <1>2, <3>1, <3>2
    <2>6. ASSUME NEW r \in Runtimes, phase[r] \in {"load", "save"}
          PROVE  IntentInv'
      <3>1. owner = r
        BY <2>6 DEF IInv, SlotInv
      <3>2. \A c \in Calls : pc[c] \notin Waiting \cup {"claim"}
        BY <2>2, <2>6, <3>1
      <3>3. Distinct'
        BY <1>3, <2>1 DEF Distinct, Rt, Key
      <3>. QED
        BY <1>2, <2>1, <3>2, <3>3
    <2>. QED
      BY <2>3, <2>4, <2>5, <2>6
  <1>. QED
    BY <1>4, <1>5, <1>6, <1>7, <1>8, <1>9, NextCases

\* What a write is about is in its snapshot.
LEMMA WrittenStep ==
  ASSUME IInv, [Next]_vars
  PROVE  WrittenInv'
  <1>1. /\ pc \in [Calls -> InFlight \cup {"idle", "done", "dead"}]
        /\ req \in [Calls -> Request \cup {None}]
        /\ snap \in [Runtimes -> Ledger \cup {None}]
    BY DEF IInv, TypeOK
  <1>2. \A c \in Calls : pc[c] # "idle" => Rt(c) \in Runtimes /\ Key(c) \in Keys
    BY CallTypes DEF IInv
  <1>3. ASSUME NEW c \in Calls, NEW q \in Request, Arrive(c, q)
        PROVE  WrittenInv'
    BY <1>1, <1>3 DEF Arrive, Goto, ledgerVars, IInv, WrittenInv, Saving, Rt, Key
  <1>4. ASSUME NEW c \in Calls, BeginAlias(c) \/ BeginClaim(c) \/ BeginRecord(c)
        PROVE  WrittenInv'
    <2>1. PICK m \in Ledger : Begins(c, m) /\ snap' = [snap EXCEPT ![Rt(c)] = m]
      BY <1>4, BeginsSaves
    <2>2. /\ pc[c] \in {"lock", "finish"}
          /\ Rt(c) \in Runtimes /\ Key(c) \in Keys
          /\ \E x : pc' = [pc EXCEPT ![c] = x]
          /\ UNCHANGED req
          /\ \A d \in Calls : pc[d] \in Saving => Rt(d) # Rt(c)
      BY <1>4, BeginsWrite, LockFacts
    <2>3. m[Key(c)] # None
      <3>1. CASE BeginAlias(c) /\ m = WithAlias(c)
        BY <2>2, <3>1, AliasLedger DEF BeginAlias, Matches, Existing, IInv
      <3>2. CASE BeginClaim(c) /\ m = WithClaim(c)
        BY <2>2, <3>2, ClaimLedger DEF Pending, IInv
      <3>3. CASE BeginRecord(c) /\ m = WithStatus(Here(c), Key(c), FinalStatus(c))
        <4>1. /\ pc[c] = "finish" /\ outcome[c] \in Outcomes \ {"none"}
              /\ Here(c) \in Ledger /\ Here(c)[Key(c)] # None
          BY <3>3, WaitingFacts DEF BeginRecord, IInv, OutcomeInv, TypeOK, Waiting, Here
        <4>2. FinalStatus(c) \in Status
          BY <4>1 DEF FinalStatus, Outcomes, Status
        <4>. QED
          BY <2>2, <3>3, <4>1, <4>2, WithStatusLedger
      <3>. QED
        BY <2>1, <3>1, <3>2, <3>3 DEF Begins
    <2>. QED
      BY <1>1, <1>2, <2>1, <2>2, <2>3 DEF IInv, WrittenInv, Rt, Key, Saving
  <1>5. ASSUME NEW c \in Calls,
               \/ AliasSaved(c) \/ ClaimSaved(c) \/ RecordSaved(c)
               \/ Replay(c) \/ Refuse(c) \/ CancelWaiting(c) \/ Preflight(c)
               \/ Transmit(c) \/ Respond(c) \/ CancelFinish(c)
        PROVE  WrittenInv'
    <2>1. /\ Rt(c) \in Runtimes
          /\ \E x : pc' = [pc EXCEPT ![c] = x] /\ x \notin Saving
          /\ UNCHANGED req
          /\ snap' \in {snap, [snap EXCEPT ![Rt(c)] = None]}
      <3>1. CASE AliasSaved(c) \/ ClaimSaved(c) \/ RecordSaved(c)
        BY <3>1, EndsWrite DEF Saving
      <3>2. CASE ~(AliasSaved(c) \/ ClaimSaved(c) \/ RecordSaved(c))
        BY <1>5, <3>2, NoWrite DEF Saving
      <3>. QED
        BY <3>1, <3>2
    <2>. QED
      BY <1>1, <1>2, <2>1 DEF IInv, WrittenInv, Rt, Key, Saving
  <1>6. CASE Crash
    BY <1>1, <1>6 DEF Crash, WrittenInv, Saving, InFlight, Admitted
  <1>7. CASE RuntimeStep
    <2>1. UNCHANGED <<pc, req>>
      BY <1>7, RuntimeFrame DEF callVars
    <2>2. \/ UNCHANGED snap
          \/ \E r \in Runtimes : \E m : /\ phase[r] \in {"load", "save"}
                                         /\ snap' = [snap EXCEPT ![r] = m]
      BY <1>7 DEF RuntimeStep, StartStep, EnterSlot, FencePrevious, TakeOver,
         Load, LoadFails, StartSaved, CancelStart, Stop, LookUp, Tick, vars,
         ledgerVars, Save, Write
    <2>3. \A c \in Calls : pc[c] \in Saving => phase[Rt(c)] = "up"
      BY DEF IInv, OwnerInv, Saving, InFlight, Admitted
    <2>. QED
      BY <1>1, <1>2, <2>1, <2>2, <2>3 DEF IInv, WrittenInv, Rt, Key, Saving
  <1>. QED
    BY <1>3, <1>4, <1>5, <1>6, <1>7, NextCases

\* Cover is lost neither with time nor by pruning, nor by a change that keeps
\* the age of every record.
LEMMA FencedLater ==
  ASSUME NEW m, NEW S, NEW t \in Nat, NEW u \in Nat, t <= u, Fenced(m, S, t),
         \A s \in S : s.created \in Nat
  PROVE  Fenced(m, S, u)
  BY RetentionAssumption DEF Fenced

\* A ledger that keeps the age of every record covers what the other one covered.
LEMMA FencedKept ==
  ASSUME NEW m, NEW n, NEW S, NEW t, Fenced(m, S, t),
         \A s \in S : s.key \in Keys,
         \A k \in Keys : /\ n[k] = None <=> m[k] = None
                         /\ m[k] # None => n[k].created = m[k].created
  PROVE  Fenced(n, S, t)
  BY DEF Fenced

\* Pruning drops only records that no longer need to cover a transmission.
LEMMA FencedPrune ==
  ASSUME TypeOK, NEW m \in Ledger, Fenced(m, sends, now)
  PROVE  Fenced(Prune(m), sends, now)
  <1>1. \A s \in sends : s.key \in Keys /\ s.created \in Nat
    BY BoundsAssumption DEF TypeOK
  <1>2. now \in Nat
    BY BoundsAssumption DEF TypeOK
  <1>3. ASSUME NEW s \in sends, s.created <= m[s.key].created, IsExpired(m[s.key])
        PROVE  s.created + Retention <= now
    <2>1. m[s.key] \in Record
      BY <1>1, <1>3 DEF Ledger, IsExpired
    <2>2. m[s.key].created \in Nat
      BY <2>1, BoundsAssumption DEF Record
    <2>. QED
      BY <1>1, <1>2, <1>3, <2>2, RetentionAssumption DEF IsExpired
  <1>. QED
    BY <1>1, <1>3 DEF Fenced, Prune

\* The owner serves if it has an admitted call, and nobody else does.
LEMMA ServingFacts ==
  ASSUME IInv, NEW r \in Runtimes, Serving(r)
  PROVE  owner = r
  <1>1. active[r] # {} => \E c \in Calls : pc[c] \in Admitted /\ Rt(c) = r
    BY DEF IInv, OwnerInv
  <1>. QED
    BY <1>1 DEF Serving, IInv, OwnerInv, SlotInv

\* Every transmission stays covered in the file, the snapshots and the serving memories.
LEMMA FenceStep ==
  ASSUME IInv, [Next]_vars
  PROVE  FenceInv'
  <1>1. /\ disk \in Ledger
        /\ mem \in [Runtimes -> Ledger]
        /\ snap \in [Runtimes -> Ledger \cup {None}]
        /\ pc \in [Calls -> InFlight \cup {"idle", "done", "dead"}]
        /\ active \in [Runtimes -> SUBSET Calls]
        /\ phase \in [Runtimes -> Phases]
        /\ \A s \in sends : s.key \in Keys /\ s.created \in Nat
        /\ now \in Nat
    BY BoundsAssumption DEF IInv, TypeOK
  <1>2. FenceInv
    BY DEF IInv
  <1>3. TypeOK
    BY DEF IInv
  <1>4. ASSUME NEW c \in Calls, NEW q \in Request, Arrive(c, q)
        PROVE  FenceInv'
    BY <1>2, <1>4 DEF Arrive, FenceInv, Serving, ledgerVars, runtimeVars,
                      historyVars, envVars
  <1>5. ASSUME NEW c \in Calls, BeginAlias(c) \/ BeginClaim(c) \/ BeginRecord(c)
        PROVE  FenceInv'
    <2>1. PICK m \in Ledger : /\ Begins(c, m)
                              /\ mem' = [mem EXCEPT ![Rt(c)] = m]
                              /\ snap' = [snap EXCEPT ![Rt(c)] = m]
      BY <1>5, BeginsSaves
    <2>2. /\ pc[c] \in {"lock", "finish"}
          /\ Rt(c) \in Runtimes /\ Key(c) \in Keys
          /\ UNCHANGED <<disk, phase, available, active, sends, now>>
      BY <1>5, BeginsWrite DEF runtimeVars
    <2>3. Serving(Rt(c)) /\ Here(c) = mem[Rt(c)] /\ Here(c) \in Ledger
      <3>1. \/ Rt(c) \in available
            \/ pc[c] = "finish"
        BY <1>5 DEF BeginAlias, BeginClaim, BeginRecord, AliasAllowed, ClaimAllowed
      <3>2. pc[c] = "finish" => c \in active[Rt(c)]
        BY <2>2 DEF IInv, OwnerInv, Admitted
      <3>. QED
        BY <1>1, <2>2, <3>1, <3>2 DEF Serving, Here
    <2>4. Fenced(Here(c), sends, now)
      BY <1>2, <2>2, <2>3 DEF FenceInv
    <2>5. Fenced(Pruned(c), sends, now)
      BY <1>3, <2>3, <2>4, FencedPrune DEF Pruned
    <2>6. Fenced(m, sends, now)
      <3>1. CASE BeginAlias(c) /\ m = WithAlias(c)
        BY <1>1, <2>2, <2>5, <3>1, AliasLedger, FencedKept
        DEF BeginAlias, Matches, IInv
      <3>2. CASE BeginClaim(c) /\ m = WithClaim(c)
        <4>1. \A k \in Keys : k # Key(c) => m[k] = Pruned(c)[k]
          BY <2>2, <3>2, ClaimLedger DEF IInv
        <4>2. m[Key(c)] # None /\ m[Key(c)].created = now
          BY <2>2, <3>2, ClaimLedger DEF IInv, Pending
        <4>3. Pruned(c)[Key(c)] = None
          BY <3>2 DEF BeginClaim, Existing
        <4>. QED
          BY <1>1, <2>5, <4>1, <4>2, <4>3 DEF Fenced
      <3>3. CASE BeginRecord(c) /\ m = WithStatus(Here(c), Key(c), FinalStatus(c))
        <4>1. \A k \in Keys : /\ m[k] = None <=> Here(c)[k] = None
                              /\ Here(c)[k] # None => m[k].created = Here(c)[k].created
          <5>1. outcome[c] \in Outcomes \ {"none"}
            BY <3>3 DEF BeginRecord, IInv, OutcomeInv, TypeOK
          <5>2. FinalStatus(c) \in Status
            BY <5>1 DEF FinalStatus, Outcomes, Status
          <5>. QED
            BY <2>2, <2>3, <3>3, <5>2, WithStatusLedger
        <4>. QED
          BY <1>1, <2>4, <4>1, FencedKept
      <3>. QED
        BY <2>1, <3>1, <3>2, <3>3 DEF Begins
    <2>. QED
      BY <1>1, <1>2, <2>1, <2>2, <2>6 DEF FenceInv, Serving
  <1>6. ASSUME NEW c \in Calls, AliasSaved(c) \/ ClaimSaved(c) \/ RecordSaved(c)
        PROVE  FenceInv'
    <2>1. PICK m \in Ledger : /\ mem' = [mem EXCEPT ![Rt(c)] = m]
                              /\ Revises(m, c)
      BY <1>6, EndsSets
    <2>2. /\ pc[c] \in Saving /\ Rt(c) \in Runtimes
          /\ snap[Rt(c)] # None
          /\ snap' = [snap EXCEPT ![Rt(c)] = None]
          /\ disk' \in {disk, snap[Rt(c)]}
          /\ available' \subseteq available
          /\ UNCHANGED <<phase, sends, now>>
      BY <1>6, EndsWrite DEF runtimeVars
    <2>3. \A r \in Runtimes : Serving(r)' => Serving(r)
      <3>1. \/ \A r \in Runtimes : active'[r] \subseteq active[r]
            \/ pc[c] = "claim" /\ active' = [active EXCEPT ![Rt(c)] = @ \cup {c}]
        BY <1>1, <1>6, <2>2 DEF AliasSaved, ClaimSaved, RecordSaved, Retire
      <3>2. pc[c] = "claim" => Rt(c) \in available
        BY DEF IInv, OwnerInv
      <3>. QED
        BY <1>1, <2>2, <3>1, <3>2 DEF Serving
    <2>4. Serving(Rt(c)) => Fenced(m, sends, now)
      <3>1. Here(c) = mem[Rt(c)] /\ Here(c) \in Ledger
        BY <1>1, <2>2 DEF Here
      <3>2. \A k \in Keys : /\ m[k] = None <=> Here(c)[k] = None
                            /\ Here(c)[k] # None => m[k].created = Here(c)[k].created
        BY <2>1 DEF Revises
      <3>. QED
        BY <1>1, <1>2, <2>2, <3>1, <3>2, FencedKept DEF FenceInv
    <2>5. Fenced(disk', sends, now)
      BY <1>2, <2>2 DEF FenceInv
    <2>. QED
      BY <1>1, <1>2, <2>1, <2>2, <2>3, <2>4, <2>5 DEF FenceInv
  <1>7. ASSUME NEW c \in Calls,
               \/ Replay(c) \/ Refuse(c) \/ CancelWaiting(c) \/ Preflight(c)
               \/ Respond(c) \/ CancelFinish(c)
        PROVE  FenceInv'
    <2>1. /\ Rt(c) \in Runtimes
          /\ mem' \in {mem, [mem EXCEPT ![Rt(c)] = Prune(@)]}
          /\ UNCHANGED <<disk, snap, phase, available, now>>
      BY <1>7, NoWrite DEF runtimeVars
    <2>2. UNCHANGED sends
      BY <1>7 DEF Replay, Refuse, CancelWaiting, Preflight, Respond, CancelFinish,
                  historyVars
    <2>3. \A r \in Runtimes : active'[r] \subseteq active[r]
      BY <1>1, <1>7, <2>1 DEF Replay, Refuse, CancelWaiting, Preflight, Respond,
                  CancelFinish, Retire
    <2>4. \A r \in Runtimes : Serving(r)' => Serving(r)
      BY <2>1, <2>3 DEF Serving
    <2>5. Serving(Rt(c)) => Fenced(Prune(mem[Rt(c)]), sends, now)
      BY <1>1, <1>2, <1>3, <2>1, FencedPrune DEF FenceInv
    <2>. QED
      BY <1>1, <1>2, <2>1, <2>2, <2>4, <2>5 DEF FenceInv
  <1>8. ASSUME NEW c \in Calls, Transmit(c)
        PROVE  FenceInv'
    <2>. DEFINE t == Here(c)[Key(c)].created
    <2>1. /\ pc[c] = "send"
          /\ sends' = sends \cup {[call |-> c, key |-> Key(c), created |-> t]}
          /\ UNCHANGED <<disk, mem, snap, phase, available, active, now>>
      BY <1>8 DEF Transmit, ledgerVars, runtimeVars, envVars
    <2>2. /\ Rt(c) \in Runtimes /\ Key(c) \in Keys /\ Intent(c)
          /\ owner = Rt(c) /\ Here(c) = mem[Rt(c)] /\ Here(c) \in Ledger
      BY <1>1, <2>1, WaitingFacts DEF Waiting, Here
    <2>3. t \in Nat
      BY <2>2, BoundsAssumption DEF Intent, Ledger, Record
    <2>4. /\ disk[Key(c)] # None /\ disk[Key(c)].created = t
          /\ Here(c)[Key(c)] # None
          /\ snap[Rt(c)] # None => snap[Rt(c)][Key(c)] # None
                                   /\ snap[Rt(c)][Key(c)].created = t
      BY <2>1, <2>2 DEF Intent, Pending, Waiting
    <2>5. \A r \in Runtimes : snap[r] # None \/ Serving(r) => r = Rt(c)
      BY <2>2, WriterOwns, ServingFacts
    <2>6. \A n : Fenced(n, sends, now) /\ n[Key(c)] # None /\ n[Key(c)].created = t
                   => Fenced(n, sends', now)
      BY <2>1, <2>3 DEF Fenced
    <2>. HIDE DEF t
    <2>7. Serving(Rt(c)) => Fenced(Here(c), sends', now)
      BY <1>2, <2>2, <2>4, <2>6 DEF FenceInv, t
    <2>. QED
      BY <1>2, <2>1, <2>2, <2>4, <2>5, <2>6, <2>7 DEF FenceInv, Serving
  <1>9. CASE Crash
    <2>1. /\ disk' = disk \/ \E r \in Runtimes : snap[r] # None /\ disk' = snap[r]
          /\ \A r \in Runtimes : snap'[r] = None /\ ~Serving(r)'
          /\ UNCHANGED <<sends, now>>
      BY <1>1, <1>9 DEF Crash, Serving, historyVars
    <2>. QED
      BY <1>2, <2>1 DEF FenceInv
  <1>10. ASSUME NEW r \in Runtimes, Load(r)
         PROVE  FenceInv'
    <2>. DEFINE m == Restored(Prune(disk))
    <2>1. Prune(disk) \in Ledger /\ Fenced(Prune(disk), sends, now)
      BY <1>1, <1>2, <1>3, PruneLedger, FencedPrune DEF FenceInv
    <2>2. m \in Ledger /\ Fenced(m, sends, now)
      BY <1>1, <2>1, RestoredLedger, FencedKept
    <2>3. /\ mem' = [mem EXCEPT ![r] = m]
          /\ snap' \in {snap, [snap EXCEPT ![r] = m]}
          /\ available' \subseteq available \cup {r}
          /\ \E p : phase' = [phase EXCEPT ![r] = p]
          /\ UNCHANGED <<disk, active, sends, now>>
      BY <1>10 DEF Load, Save, LeaveStart, historyVars, envVars
    <2>. HIDE DEF m
    <2>4. \A x \in Runtimes : x # r /\ Serving(x)' => Serving(x)
      BY <1>1, <2>3 DEF Serving
    <2>. QED
      BY <1>1, <1>2, <2>2, <2>3, <2>4 DEF FenceInv
  <1>11. ASSUME NEW r \in Runtimes, StartSaved(r)
         PROVE  FenceInv'
    <2>1. /\ phase[r] = "save" /\ snap[r] # None
          /\ snap' = [snap EXCEPT ![r] = None]
          /\ disk' \in {disk, snap[r]}
          /\ available' \subseteq available \cup {r}
          /\ \E p : phase' = [phase EXCEPT ![r] = p]
          /\ UNCHANGED <<mem, active, sends, now>>
      BY <1>11 DEF StartSaved, Write, LeaveStart, historyVars, envVars
    <2>2. \A x \in Runtimes : Serving(x)' => Serving(x)
      BY <1>1, <2>1 DEF Serving
    <2>. QED
      BY <1>1, <1>2, <2>1, <2>2 DEF FenceInv
  <1>12. ASSUME NEW r \in Runtimes, LookUp(r)
         PROVE  FenceInv'
    <2>1. /\ mem' = [mem EXCEPT ![r] = Prune(mem[r])]
          /\ UNCHANGED <<disk, snap, phase, available, active, sends, now>>
      BY <1>12 DEF LookUp, runtimeVars, historyVars, envVars
    <2>2. Serving(r) => Fenced(Prune(mem[r]), sends, now)
      BY <1>1, <1>2, <1>3, FencedPrune DEF FenceInv
    <2>. QED
      BY <1>1, <1>2, <2>1, <2>2 DEF FenceInv, Serving
  <1>13. CASE Tick
    <2>1. /\ now' \in Nat /\ now <= now'
          /\ UNCHANGED <<disk, mem, snap, phase, available, active, sends>>
      BY <1>1, <1>13 DEF Tick, ledgerVars, runtimeVars, historyVars
    <2>. QED
      BY <1>1, <1>2, <2>1, FencedLater DEF FenceInv, Serving
  <1>14. CASE UNCHANGED vars
    BY <1>2, <1>14 DEF FenceInv, Serving, vars, ledgerVars, runtimeVars, historyVars,
                       envVars
  <1>15. ASSUME NEW r \in Runtimes,
                \/ EnterSlot(r) \/ FencePrevious(r) \/ TakeOver(r) \/ LoadFails(r)
                \/ CancelStart(r) \/ Stop(r)
         PROVE  FenceInv'
    <2>1. /\ \/ UNCHANGED phase
             \/ \E p \in {"slot", "drain", "load", "up", "aborted"} :
                  phase' = [phase EXCEPT ![r] = p]
          /\ available' \subseteq available
          /\ UNCHANGED <<disk, mem, snap, active, sends, now>>
      BY <1>15 DEF EnterSlot, FencePrevious, TakeOver, LoadFails, CancelStart, Stop,
         Fence, LeaveStart, ledgerVars, runtimeVars, historyVars, envVars
    <2>2. \A x \in Runtimes : Serving(x)' => Serving(x)
      BY <1>1, <2>1 DEF Serving
    <2>. QED
      BY <1>2, <2>1, <2>2 DEF FenceInv
  <1>. QED
    BY <1>4, <1>5, <1>6, <1>7, <1>8, <1>9, <1>10, <1>11, <1>12, <1>13, <1>14,
       <1>15, NextCases DEF RuntimeStep, StartStep

\* A step changes the age of no intent whose outcome is not being recorded.
LEMMA AgeKept ==
  ASSUME IInv, [Next]_vars, NEW d \in Calls, pc[d] \in Waiting \cup {"claim"},
         pc'[d] # "record", ~Crash
  PROVE  /\ Rt(d)' = Rt(d) /\ Key(d)' = Key(d)
         /\ mem'[Rt(d)][Key(d)].created = mem[Rt(d)][Key(d)].created
  <1>1. /\ pc \in [Calls -> InFlight \cup {"idle", "done", "dead"}]
        /\ req \in [Calls -> Request \cup {None}]
        /\ mem \in [Runtimes -> Ledger]
    BY DEF IInv, TypeOK
  <1>2. /\ Rt(d) \in Runtimes /\ Key(d) \in Keys
        /\ mem[Rt(d)][Key(d)] # None
        /\ Prune(mem[Rt(d)])[Key(d)] = mem[Rt(d)][Key(d)]
    BY WaitingFacts DEF Waiting
  <1>3. ASSUME NEW c \in Calls, NEW q \in Request, Arrive(c, q)
        PROVE  req'[d] = req[d] /\ UNCHANGED mem
    BY <1>1, <1>3 DEF Arrive, Goto, Waiting, ledgerVars
  <1>4. ASSUME NEW c \in Calls, BeginAlias(c) \/ BeginClaim(c) \/ BeginRecord(c)
        PROVE  /\ UNCHANGED req
               /\ mem'[Rt(d)][Key(d)].created = mem[Rt(d)][Key(d)].created
    <2>1. PICK m \in Ledger : Begins(c, m) /\ mem' = [mem EXCEPT ![Rt(c)] = m]
      BY <1>4, BeginsSaves
    <2>2. /\ pc[c] \in {"lock", "finish"} /\ Rt(c) \in Runtimes /\ UNCHANGED req
          /\ pc[d] \in Saving => Rt(d) # Rt(c)
      BY <1>4, BeginsWrite, LockFacts
    <2>3. d # c
      BY <1>1, <1>4, <2>2
      DEF BeginAlias, BeginClaim, BeginRecord, Enters, Goto, Waiting
    <2>4. Rt(d) = Rt(c) => m[Key(d)].created = mem[Rt(d)][Key(d)].created
      BY <2>1, <2>2, <2>3, BeginsKeeps DEF Pending, Waiting, Saving
    <2>. QED
      BY <1>1, <1>2, <2>1, <2>2, <2>4
  <1>5. ASSUME NEW c \in Calls, AliasSaved(c) \/ ClaimSaved(c) \/ RecordSaved(c)
        PROVE  /\ UNCHANGED req
               /\ mem'[Rt(d)][Key(d)].created = mem[Rt(d)][Key(d)].created
    <2>1. PICK m \in Ledger : mem' = [mem EXCEPT ![Rt(c)] = m] /\ Revises(m, c)
      BY <1>5, EndsSets
    <2>2. Rt(c) \in Runtimes /\ UNCHANGED req
      BY <1>5, EndsWrite
    <2>. QED
      BY <1>1, <1>2, <2>1, <2>2 DEF Revises, Here
  <1>6. ASSUME NEW c \in Calls,
               \/ Replay(c) \/ Refuse(c) \/ CancelWaiting(c) \/ Preflight(c)
               \/ Transmit(c) \/ Respond(c) \/ CancelFinish(c)
        PROVE  /\ UNCHANGED req
               /\ mem'[Rt(d)][Key(d)].created = mem[Rt(d)][Key(d)].created
    BY <1>1, <1>2, <1>6, NoWrite
  <1>7. CASE RuntimeStep
    <2>1. UNCHANGED req
      BY <1>7, RuntimeFrame DEF callVars
    <2>2. phase[Rt(d)] = "up" /\ owner = Rt(d)
      BY WaitingFacts DEF IInv, OwnerInv, InFlight, Admitted, Waiting
    <2>3. \A r \in Runtimes : phase[r] \notin {"load", "save"}
      BY <2>2 DEF IInv, SlotInv
    <2>4. \/ UNCHANGED mem
          \/ \E r \in Runtimes : mem' = [mem EXCEPT ![r] = Prune(@)]
      BY <1>7, <2>3 DEF RuntimeStep, StartStep, EnterSlot, FencePrevious, TakeOver,
         Load, LoadFails, StartSaved, CancelStart, Stop, LookUp, Tick, vars,
         ledgerVars
    <2>. QED
      BY <1>1, <1>2, <2>1, <2>4 DEF Rt, Key
  <1>. QED
    BY <1>3, <1>4, <1>5, <1>6, <1>7, NextCases DEF Rt, Key

\* Only Transmit adds to the transmissions, and it adds one whose intent is
\* pending in the file and a retention away from all others of its key.
LEMMA SendsStep ==
  ASSUME IInv, [Next]_vars, ~(UNCHANGED sends)
  PROVE  \E c \in Calls :
           /\ pc[c] = "send" /\ pc' = [pc EXCEPT ![c] = "sent"]
           /\ UNCHANGED <<disk, req>>
           /\ sends' = sends \cup {[call |-> c, key |-> Key(c),
                                    created |-> Here(c)[Key(c)].created]}
  <1>1. ASSUME NEW c \in Calls,
               \/ \E q \in Request : Arrive(c, q)
               \/ BeginAlias(c) \/ BeginClaim(c) \/ BeginRecord(c)
               \/ AliasSaved(c) \/ ClaimSaved(c) \/ RecordSaved(c)
               \/ Replay(c) \/ Refuse(c) \/ CancelWaiting(c) \/ Preflight(c)
               \/ Respond(c) \/ CancelFinish(c)
        PROVE  UNCHANGED sends
    BY <1>1 DEF Arrive, BeginAlias, BeginClaim, BeginRecord, AliasSaved, ClaimSaved,
       RecordSaved, Replay, Refuse, CancelWaiting, Preflight, Respond, CancelFinish,
       historyVars
  <1>2. RuntimeStep \/ Crash => UNCHANGED sends
    BY RuntimeFrame DEF Crash, historyVars
  <1>. QED
    BY <1>1, <1>2, NextCases DEF Transmit, Goto, ledgerVars

\* A claim that is not transmitted yet is a retention away from every transmission of its key.
LEMMA SpacingStep ==
  ASSUME IInv, [Next]_vars
  PROVE  SpacingInv'
  <1>1. /\ pc \in [Calls -> InFlight \cup {"idle", "done", "dead"}]
        /\ mem \in [Runtimes -> Ledger]
        /\ SpacingInv /\ FenceInv /\ TypeOK
    BY DEF IInv, TypeOK
  <1>2. SUFFICES ASSUME NEW d \in Calls, pc'[d] \in {"claim", "send"},
                        NEW s \in sends', s.key = Key(d)'
                 PROVE  s.created + Retention <= mem'[Rt(d)'][Key(d)'].created
    BY DEF SpacingInv, Here
  <1>3. CASE pc[d] \in {"claim", "send"}
    <2>1. ~Crash
      BY <1>2 DEF Crash, InFlight, Admitted
    <2>2. /\ Rt(d)' = Rt(d) /\ Key(d)' = Key(d)
          /\ mem'[Rt(d)][Key(d)].created = mem[Rt(d)][Key(d)].created
      BY <1>2, <1>3, <2>1, AgeKept DEF Waiting
    <2>3. s \in sends
      <3>1. SUFFICES ASSUME s \notin sends
                     PROVE  FALSE
        OBVIOUS
      <3>2. PICK c \in Calls :
              /\ pc[c] = "send" /\ pc' = [pc EXCEPT ![c] = "sent"]
              /\ sends' = sends \cup {[call |-> c, key |-> Key(c),
                                       created |-> Here(c)[Key(c)].created]}
        BY <1>2, <3>1, SendsStep
      <3>3. c # d /\ Key(c) = Key(d)
        BY <1>1, <1>2, <2>2, <3>1, <3>2
      <3>4. Rt(c) = Rt(d)
        BY <1>3, <3>2, WaitingFacts DEF Waiting
      <3>. QED
        BY <1>3, <3>2, <3>3, <3>4, IntentByCall DEF IInv, Distinct, Admitted
    <2>. QED
      BY <1>1, <1>2, <1>3, <2>2, <2>3 DEF SpacingInv, Here
  <1>4. CASE pc[d] \notin {"claim", "send"}
    <2>1. BeginClaim(d)
      <3>1. ASSUME NEW c \in Calls,
                   \/ \E q \in Request : Arrive(c, q)
                   \/ BeginAlias(c) \/ BeginRecord(c)
                   \/ AliasSaved(c) \/ ClaimSaved(c) \/ RecordSaved(c)
            PROVE  FALSE
        <4>1. \/ \E x : /\ pc' = [pc EXCEPT ![c] = x]
                        /\ x \notin {"claim", "send"}
              \/ pc[c] = "claim" /\ pc' = [pc EXCEPT ![c] = "send"]
          BY <3>1 DEF Arrive, BeginAlias, BeginRecord, AliasSaved, ClaimSaved,
                      RecordSaved, Return, Goto
        <4>. QED
          BY <1>1, <1>2, <1>4, <4>1
      <3>2. ASSUME NEW c \in Calls,
                   \/ Replay(c) \/ Refuse(c) \/ CancelWaiting(c) \/ Preflight(c)
                   \/ Transmit(c) \/ Respond(c) \/ CancelFinish(c)
            PROVE  FALSE
        BY <1>1, <1>2, <1>4, <3>2, NoWrite
      <3>3. ASSUME NEW c \in Calls, BeginClaim(c)
            PROVE  c = d
        BY <1>1, <1>2, <1>4, <3>3 DEF BeginClaim, Goto
      <3>4. ~RuntimeStep
        BY <1>2, <1>4, RuntimeFrame DEF callVars
      <3>5. ~Crash
        BY <1>2, <1>4 DEF Crash
      <3>. QED
        BY <3>1, <3>2, <3>3, <3>4, <3>5, NextCases
    <2>2. PICK m \in Ledger : Begins(d, m) /\ mem' = [mem EXCEPT ![Rt(d)] = m]
      BY <2>1, BeginsSaves
    <2>3. /\ pc[d] = "lock" /\ Rt(d) \in Runtimes /\ Key(d) \in Keys
          /\ UNCHANGED <<req, sends>>
          /\ Existing(d) = None /\ Serving(Rt(d))
          /\ mem' = [mem EXCEPT ![Rt(d)] = WithClaim(d)]
      BY <2>1, BeginsWrite
      DEF BeginClaim, Enters, ClaimAllowed, Serving, Save
    <2>4. Fenced(Pruned(d), sends, now)
      BY <1>1, <2>3, FencedPrune DEF FenceInv, Pruned, Here
    <2>5. s.created + Retention <= now
      BY <1>2, <2>3, <2>4 DEF Fenced, Existing, Rt, Key
    <2>6. WithClaim(d)[Key(d)].created = now
      BY <2>3, ClaimLedger DEF IInv, Pending
    <2>. QED
      BY <1>1, <2>3, <2>5, <2>6 DEF Rt, Key
  <1>. QED
    BY <1>3, <1>4

\* A transmission is a retention away from every other one of its key.
LEMMA OnceStep ==
  ASSUME IInv, [Next]_vars
  PROVE  AtMostOnce'
  <1>1. CASE UNCHANGED sends
    BY <1>1 DEF IInv, AtMostOnce
  <1>2. CASE ~(UNCHANGED sends)
    <2>1. PICK c \in Calls :
            /\ pc[c] = "send"
            /\ sends' = sends \cup {[call |-> c, key |-> Key(c),
                                     created |-> Here(c)[Key(c)].created]}
      BY <1>2, SendsStep
    <2>2. \A s \in sends : s.key = Key(c) =>
            s.created + Retention <= Here(c)[Key(c)].created
      BY <2>1 DEF IInv, SpacingInv
    <2>. QED
      BY <2>1, <2>2 DEF IInv, AtMostOnce
  <1>. QED
    BY <1>1, <1>2

\* TypeOK is inductive with the other parts of IInv.
LEMMA TypeStep ==
  ASSUME IInv, [Next]_vars
  PROVE  TypeOK'
  <1>. USE DEF IInv
  <1>1. TypeOK /\ WrittenInv
    OBVIOUS
  <1>2. ASSUME NEW c \in Calls, NEW q \in Request, Arrive(c, q)
        PROVE  TypeOK'
    BY <1>1, <1>2 DEF Arrive, Goto, TypeOK, InFlight, ledgerVars, runtimeVars,
       historyVars, envVars
  <1>3. ASSUME NEW c \in Calls, BeginAlias(c) \/ BeginClaim(c) \/ BeginRecord(c)
        PROVE  TypeOK'
    <2>1. PICK m \in Ledger : /\ mem' = [mem EXCEPT ![Rt(c)] = m]
                              /\ snap' = [snap EXCEPT ![Rt(c)] = m]
      BY <1>3, BeginsSaves
    <2>2. UNCHANGED <<outcome, answer, told, crashes>>
      BY <1>3 DEF BeginAlias, BeginClaim, BeginRecord, historyVars, envVars
    <2>. QED
      BY <1>1, <1>3, <2>1, <2>2, BeginsWrite
      DEF TypeOK, Saving, InFlight, Admitted, runtimeVars
  <1>4. ASSUME NEW c \in Calls, AliasSaved(c) \/ ClaimSaved(c) \/ RecordSaved(c)
        PROVE  TypeOK'
    <2>1. PICK m \in Ledger : mem' = [mem EXCEPT ![Rt(c)] = m]
      BY <1>4, EndsSets
    <2>2. active' \in [Runtimes -> SUBSET Calls]
      BY <1>1, <1>4, EndsWrite
      DEF TypeOK, AliasSaved, ClaimSaved, RecordSaved, Retire
    <2>3. snap[Rt(c)][Key(c)] \in Record
      BY <1>1, <1>4, EndsWrite DEF WrittenInv, TypeOK, Ledger
    <2>4. answer' \in [Calls -> Answers]
      BY <1>1, <1>4, <2>3
      DEF AliasSaved, ClaimSaved, RecordSaved, Return, TypeOK, Answers, Status,
          Outcomes, Record
    <2>5. told' \subseteq [key : Keys, created : 0 .. MaxTime, status : Definite]
      <3>1. UNCHANGED told \/ Tell(Key(c), snap[Rt(c)][Key(c)])
        BY <1>4 DEF AliasSaved, ClaimSaved, RecordSaved, historyVars
      <3>2. Key(c) \in Keys
        BY <1>4, EndsWrite
      <3>. QED
        BY <1>1, <2>3, <3>1, <3>2 DEF Tell, TypeOK, Record, Definite
    <2>6. UNCHANGED <<outcome, crashes>>
      BY <1>4 DEF AliasSaved, ClaimSaved, RecordSaved, envVars
    <2>7. /\ disk' \in Ledger
          /\ snap' \in [Runtimes -> Ledger \cup {None}]
          /\ lock' \in [Runtimes -> Calls \cup Runtimes \cup {None}]
          /\ available' \subseteq Runtimes
      BY <1>1, <1>4, EndsWrite DEF TypeOK
    <2>8. /\ pc' \in [Calls -> InFlight \cup {"idle", "done", "dead"}]
          /\ mem' \in [Runtimes -> Ledger]
      BY <1>1, <1>4, <2>1, EndsWrite DEF TypeOK, InFlight, Admitted
    <2>9. UNCHANGED <<phase, slotLock, owner, stopping, req, sends, now>>
      BY <1>4, EndsWrite DEF runtimeVars
    <2>. QED
      BY <1>1, <2>2, <2>4, <2>5, <2>6, <2>7, <2>8, <2>9 DEF TypeOK
  <1>5. ASSUME NEW c \in Calls, Replay(c) \/ Refuse(c)
        PROVE  TypeOK'
    <2>1. /\ pc[c] = "lock" /\ Pruned(c) \in Ledger
          /\ Existing(c) \in Record \cup {None} /\ Key(c) \in Keys
      BY <1>5, CallTypes DEF Replay, Refuse, Enters
    <2>2. answer' \in [Calls -> Answers]
      BY <1>1, <1>5, <2>1
      DEF Replay, Refuse, Matches, Return, TypeOK, Answers, Record, Status
    <2>3. told' \subseteq [key : Keys, created : 0 .. MaxTime, status : Definite]
      BY <1>1, <1>5, <2>1
      DEF Replay, Refuse, Matches, Tell, TypeOK, Record, Definite, historyVars
    <2>4. mem' = [mem EXCEPT ![Rt(c)] = Pruned(c)]
          /\ pc' = [pc EXCEPT ![c] = "done"]
      BY <1>5 DEF Replay, Refuse, KeepPruned, Return, Goto
    <2>5. UNCHANGED <<active, stopping, outcome, sends, crashes>>
      BY <1>5 DEF Replay, Refuse, historyVars, envVars
    <2>. QED
      BY <1>1, <1>5, <2>1, <2>2, <2>3, <2>4, <2>5, NoWrite
      DEF TypeOK, InFlight, Admitted, runtimeVars
  <1>6. ASSUME NEW c \in Calls,
               \/ CancelWaiting(c) \/ Preflight(c) \/ Respond(c) \/ CancelFinish(c)
        PROVE  TypeOK'
    <2>1. /\ \E x \in {"done", "finish"} : pc' = [pc EXCEPT ![c] = x]
          /\ answer' \in {answer, [answer EXCEPT ![c] = "cancelled"]}
          /\ \/ UNCHANGED outcome
             \/ \E o \in Outcomes : outcome' = [outcome EXCEPT ![c] = o]
          /\ UNCHANGED <<ledgerVars, runtimeVars, available, stopping, req,
                         historyVars, envVars>>
      BY <1>6 DEF CancelWaiting, Preflight, Respond, CancelFinish, Return, Goto,
                  Outcomes
    <2>2. active' \in [Runtimes -> SUBSET Calls]
      BY <1>1, <1>6
      DEF TypeOK, CancelWaiting, Preflight, Respond, CancelFinish, Retire
    <2>. QED
      BY <1>1, <2>1, <2>2
      DEF TypeOK, InFlight, Admitted, Answers, ledgerVars, runtimeVars,
          historyVars, envVars
  <1>7. ASSUME NEW c \in Calls, Transmit(c)
        PROVE  TypeOK'
    <2>1. pc[c] = "send"
      BY <1>7 DEF Transmit
    <2>2. Here(c)[Key(c)].created \in 0 .. MaxTime /\ Key(c) \in Keys
      BY <2>1, WaitingFacts DEF Waiting, Intent, Here, Ledger, Record
    <2>. QED
      BY <1>1, <1>7, <2>2
      DEF Transmit, Goto, TypeOK, InFlight, Admitted, ledgerVars, runtimeVars, envVars
  <1>8. CASE Crash
    <2>1. EmptyLedger \in Ledger
      BY DEF EmptyLedger, Ledger
    <2>2. disk' \in Ledger
      BY <1>1, <1>8 DEF Crash, TypeOK
    <2>3. crashes' \in 0 .. MaxCrashes
      BY <1>1, <1>8, BoundsAssumption DEF Crash, TypeOK
    <2>. QED
      BY <1>1, <1>8, <2>1, <2>2, <2>3
      DEF Crash, TypeOK, Phases, InFlight, Admitted, historyVars
  <1>9. CASE RuntimeStep
    <2>1. UNCHANGED <<active, callVars, historyVars>>
      BY <1>9, RuntimeFrame
    <2>2. ASSUME NEW r \in Runtimes,
                 \/ EnterSlot(r) \/ FencePrevious(r) \/ TakeOver(r) \/ LoadFails(r)
                 \/ CancelStart(r) \/ Stop(r)
          PROVE  TypeOK'
      <3>1. PICK x \in Runtimes :
              /\ stopping' \in {stopping, stopping \cup {x}}
              /\ available' \in {available, available \ {x}}
        BY <1>1, <2>2
        DEF EnterSlot, FencePrevious, TakeOver, LoadFails, CancelStart, Stop, Fence,
            TypeOK
      <3>2. /\ slotLock' \in {slotLock, r, None}
            /\ owner' \in {owner, r}
            /\ lock' \in {lock, [lock EXCEPT ![r] = r], [lock EXCEPT ![r] = None]}
            /\ \/ UNCHANGED phase
               \/ \E p \in Phases : phase' = [phase EXCEPT ![r] = p]
            /\ UNCHANGED <<disk, mem, snap, envVars>>
        BY <2>2
        DEF EnterSlot, FencePrevious, TakeOver, LoadFails, CancelStart, Stop, Fence,
            LeaveStart, Release, Phases, ledgerVars, runtimeVars
      <3>. QED
        BY <1>1, <2>1, <3>1, <3>2 DEF TypeOK, callVars, historyVars, envVars
    <2>3. ASSUME NEW r \in Runtimes, Load(r) \/ StartSaved(r) \/ LookUp(r)
          PROVE  TypeOK'
      <3>1. Restored(Prune(disk)) \in Ledger /\ Prune(mem[r]) \in Ledger
        BY <1>1, PruneLedger, RestoredLedger DEF TypeOK
      <3>2. /\ \E m \in Ledger :
                 /\ mem' \in {mem, [mem EXCEPT ![r] = m]}
                 /\ snap' \in {snap, [snap EXCEPT ![r] = m], [snap EXCEPT ![r] = None]}
            /\ disk' = disk \/ (snap[r] # None /\ disk' = snap[r])
            /\ available' \in {available, available \cup {r}}
            /\ slotLock' \in {slotLock, None}
            /\ lock' \in {lock, [lock EXCEPT ![r] = r], [lock EXCEPT ![r] = None]}
            /\ \/ UNCHANGED phase
               \/ \E p \in Phases : phase' = [phase EXCEPT ![r] = p]
            /\ UNCHANGED <<owner, stopping, envVars>>
        <4>1. CASE Load(r)
          <5>. DEFINE m == Restored(Prune(disk))
          <5>1. /\ mem' = [mem EXCEPT ![r] = m]
                /\ snap' \in {snap, [snap EXCEPT ![r] = m]}
                /\ available' \in {available, available \cup {r}}
                /\ slotLock' \in {slotLock, None}
                /\ lock' \in {[lock EXCEPT ![r] = r], [lock EXCEPT ![r] = None]}
                /\ \E p \in Phases : phase' = [phase EXCEPT ![r] = p]
                /\ UNCHANGED <<disk, owner, stopping, envVars>>
            BY <4>1 DEF Load, Save, LeaveStart, Release, Phases
          <5>2. m \in Ledger
            BY <3>1
          <5>. QED
            BY <5>1, <5>2
        <4>2. CASE StartSaved(r)
          BY <3>1, <4>2 DEF StartSaved, Write, LeaveStart, Release, Phases
        <4>3. CASE LookUp(r)
          BY <3>1, <4>3 DEF LookUp, runtimeVars
        <4>. QED
          BY <2>3, <4>1, <4>2, <4>3
      <3>. QED
        BY <1>1, <2>1, <3>2 DEF TypeOK, callVars, historyVars, envVars
    <2>4. CASE Tick
      BY <1>1, <2>1, <2>4, BoundsAssumption
      DEF Tick, TypeOK, ledgerVars, runtimeVars, callVars, historyVars
    <2>5. CASE UNCHANGED vars
      BY <1>1, <2>5
      DEF TypeOK, vars, ledgerVars, runtimeVars, callVars, historyVars, envVars
    <2>. QED
      BY <1>9, <2>2, <2>3, <2>4, <2>5 DEF RuntimeStep, StartStep
  <1>. QED
    BY <1>2, <1>3, <1>4, <1>5, <1>6, <1>7, <1>8, <1>9, NextCases
-----------------------------------------------------------------------------
(***************************************************************************)
(* The results                                                             *)
(***************************************************************************)

\* Nothing has started and the file is empty.
LEMMA IInvInit == Init => IInv
  <1>1. SUFFICES ASSUME Init
                 PROVE  IInv
    OBVIOUS
  <1>2. EmptyLedger \in Ledger
    BY DEF EmptyLedger, Ledger
  <1>3. TypeOK
    BY <1>1, <1>2, BoundsAssumption
    DEF Init, TypeOK, Phases, InFlight, Outcomes, Answers
  <1>4. None \notin Calls /\ None \notin Runtimes
    BY NoneAssumption
  <1>. QED
    BY <1>1, <1>3, <1>4
    DEF Init, IInv, SlotInv, LockInv, OwnerInv, OutcomeInv, IntentInv, FenceInv,
        Fenced, WrittenInv, SpacingInv, AtMostOnce, Saving, Waiting, InFlight, Admitted

\* Every step keeps the invariant.
LEMMA IInvStep == IInv /\ [Next]_vars => IInv'
  BY TypeStep, SlotStep, LockStep, OwnerStep, OutcomeStep, IntentStep, FenceStep,
     WrittenStep, SpacingStep, OnceStep DEF IInv

\* IInv holds in every reachable state, whatever the number of setups, calls,
\* crashes and write failures.
THEOREM IInvHolds == Spec => []IInv
  BY IInvInit, IInvStep, PTL DEF Spec

\* Every variable stays in its domain: no record is ever mixed up with the
\* absence of one, and no caller is told anything but a status.
THEOREM TypesHold == Spec => []TypeOK
  <1>1. IInv => TypeOK
    BY DEF IInv
  <1>. QED
    BY <1>1, IInvHolds, PTL

\* No key is transmitted twice within a retention, whatever async_start,
\* async_stop, async_execute and the disk do.
THEOREM SentAtMostOnce == Spec => []AtMostOnce
  <1>1. IInv => AtMostOnce
    BY DEF IInv
  <1>. QED
    BY <1>1, IInvHolds, PTL

\* Only the owner of the writer slot writes the ledger file, and it loads only
\* when nothing of another runtime is running.
THEOREM OneWriterHolds == Spec => []OneWriter
  <1>1. ASSUME IInv
        PROVE  OneWriter
    <2>1. \A r \in Runtimes : snap[r] # None => owner = r
      BY <1>1, WriterOwns
    <2>2. ASSUME NEW r \in Runtimes, NEW x \in Runtimes, x # r,
                 phase[r] \in {"load", "save"}
          PROVE  active[x] = {} /\ snap[x] = None
      <3>1. owner = r
        BY <1>1, <2>2 DEF IInv, SlotInv
      <3>2. active[x] # {} => Serving(x)
        BY DEF Serving
      <3>. QED
        BY <1>1, <2>1, <2>2, <3>1, <3>2, ServingFacts
    <2>. QED
      BY <2>1, <2>2 DEF OneWriter
  <1>. QED
    BY <1>1, IInvHolds, PTL

\* A message is handed to WAHA only while the ledger file holds its intent.
THEOREM IntentsFirst == Spec => IntentFirst
  <1>1. ASSUME IInv, [Next]_vars, NEW s \in sends' \ sends
        PROVE  /\ disk[s.key] # None
               /\ disk[s.key].status = "pending"
               /\ disk[s.key].created = s.created
    <2>1. ~(UNCHANGED sends)
      BY <1>1
    <2>2. PICK c \in Calls :
            /\ pc[c] = "send"
            /\ sends' = sends \cup {[call |-> c, key |-> Key(c),
                                     created |-> Here(c)[Key(c)].created]}
      BY <1>1, <2>1, SendsStep
    <2>3. Pending(disk[Key(c)], Here(c)[Key(c)].created)
      BY <1>1, <2>2 DEF IInv, IntentInv, Waiting
    <2>. QED
      BY <1>1, <2>2, <2>3 DEF Pending
  <1>2. IInv /\ [Next]_vars =>
          [\A s \in sends' \ sends :
             /\ disk[s.key] # None
             /\ disk[s.key].status = "pending"
             /\ disk[s.key].created = s.created]_sends
    BY <1>1
  <1>. QED
    BY <1>2, IInvHolds, PTL DEF Spec, IntentFirst
-----------------------------------------------------------------------------
(***************************************************************************)
(* Answers stand                                                           *)
(***************************************************************************)

\* While a snapshot is on its way to the file, the memory it was taken of loses
\* no record but by pruning.
MemInv ==
  \A r \in Runtimes : snap[r] # None =>
    \A k \in Keys :
      \/ mem[r][k] = snap[r][k]
      \/ mem[r][k] = None /\ IsExpired(snap[r][k])

\* A record that says of the claim made at t that its outcome is s.
Says(rec, t, s) == rec # None /\ rec.created = t /\ rec.status = s

InHistory(k, t, s) == [key |-> k, created |-> t, status |-> s] \in told

\* The record of key k in the memory of r is an outcome that is being saved: a
\* caller cannot see it, because the lock is held.
Recording(r, k) == \E c \in Calls : pc[c] = "record" /\ Rt(c) = r /\ Key(c) = k

\* A caller was told the outcome s, or some runtime would replay it.
Visible(k, t, s) ==
  \/ InHistory(k, t, s)
  \/ \E r \in Runtimes : Says(mem[r][k], t, s) /\ ~Recording(r, k)

\* The file says so, and so do what may replace it and who may serve.
Everywhere(k, t, s) ==
  /\ Says(disk[k], t, s)
  /\ \A r \in Runtimes : snap[r] # None => Says(snap[r][k], t, s)
  /\ \A r \in Runtimes : Serving(r) => Says(mem[r][k], t, s)

\* The outcome s is found anywhere, saved or not.
Found(k, t, s) ==
  \/ InHistory(k, t, s)
  \/ Says(disk[k], t, s)
  \/ \E r \in Runtimes : \/ Says(mem[r][k], t, s)
                         \/ snap[r] # None /\ Says(snap[r][k], t, s)

\* While its retention lasts, what callers can see is everywhere.
StandInv ==
  \A k \in Keys, t \in 0 .. MaxTime, s \in Definite :
    now < t + Retention /\ Visible(k, t, s) => Everywhere(k, t, s)

\* A claim has one outcome at most, and none while its call is under way.
AgreeInv ==
  /\ \A k \in Keys, t \in 0 .. MaxTime : \A s, u \in Definite :
       Found(k, t, s) /\ Found(k, t, u) => s = u
  /\ \A c \in Calls : pc[c] \in Waiting \cup {"claim"} =>
       \A s \in Definite : ~Found(Key(c), Here(c)[Key(c)].created, s)

\* The memory of the runtime that admits is the file, but for expired records.
MirrorInv ==
  \A r \in available : snap[r] = None =>
    \A k \in Keys :
      \/ mem[r][k] = disk[k]
      \/ mem[r][k] = None /\ IsExpired(disk[k])

\* Until an outcome is saved, the file has the intent.
IntentStays ==
  \A c \in Calls : pc[c] = "record" =>
    /\ snap[Rt(c)] # None
    /\ Pending(disk[Key(c)], snap[Rt(c)][Key(c)].created)

AnswersInv == MemInv /\ StandInv /\ AgreeInv /\ MirrorInv /\ IntentStays
-----------------------------------------------------------------------------
\* The types the steps below rest on.
LEMMA RefTypes ==
  ASSUME IInv
  PROVE  /\ TypeOK
         /\ disk \in Ledger
         /\ mem \in [Runtimes -> Ledger]
         /\ snap \in [Runtimes -> Ledger \cup {None}]
         /\ pc \in [Calls -> InFlight \cup {"idle", "done", "dead"}]
         /\ outcome \in [Calls -> Outcomes]
         /\ req \in [Calls -> Request \cup {None}]
         /\ active \in [Runtimes -> SUBSET Calls]
         /\ phase \in [Runtimes -> Phases]
         /\ available \subseteq Runtimes
         /\ now \in Nat
         /\ None \notin Ledger
  BY BoundsAssumption, NoneAssumption DEF IInv, TypeOK

\* Pruning a memory, under the lock or (LookUp) without it.
LEMMA PruneKeepsMem ==
  ASSUME IInv, MemInv, NEW r \in Runtimes,
         mem' \in {mem, [mem EXCEPT ![r] = Prune(@)]}, UNCHANGED <<snap, now>>
  PROVE  MemInv'
  <1>1. \A x \in Runtimes, k \in Keys :
          \/ mem'[x][k] = mem[x][k]
          \/ mem'[x][k] = None /\ IsExpired(mem[x][k])
    BY RefTypes DEF Prune
  <1>. QED
    BY <1>1 DEF MemInv, IsExpired

\* A memory loses only expired records while its snapshot is written.
LEMMA MemStep ==
  ASSUME IInv, MemInv, [Next]_vars
  PROVE  MemInv'
  <1>1. ASSUME NEW c \in Calls, NEW q \in Request, Arrive(c, q)
        PROVE  MemInv'
    BY <1>1 DEF Arrive, MemInv, IsExpired, ledgerVars, envVars
  <1>2. ASSUME NEW c \in Calls, BeginAlias(c) \/ BeginClaim(c) \/ BeginRecord(c)
        PROVE  MemInv'
    <2>1. PICK m \in Ledger : /\ mem' = [mem EXCEPT ![Rt(c)] = m]
                              /\ snap' = [snap EXCEPT ![Rt(c)] = m]
      BY <1>2, BeginsSaves
    <2>2. UNCHANGED now
      BY <1>2, BeginsWrite
    <2>. QED
      BY <2>1, <2>2, RefTypes DEF MemInv, IsExpired
  <1>3. ASSUME NEW c \in Calls, AliasSaved(c) \/ ClaimSaved(c) \/ RecordSaved(c)
        PROVE  MemInv'
    <2>1. PICK m \in Ledger : mem' = [mem EXCEPT ![Rt(c)] = m]
      BY <1>3, EndsSets
    <2>2. snap' = [snap EXCEPT ![Rt(c)] = None] /\ UNCHANGED now
      BY <1>3, EndsWrite
    <2>. QED
      BY <2>1, <2>2, RefTypes DEF MemInv, IsExpired
  <1>4. ASSUME NEW c \in Calls,
               \/ Replay(c) \/ Refuse(c) \/ CancelWaiting(c) \/ Preflight(c)
               \/ Transmit(c) \/ Respond(c) \/ CancelFinish(c)
        PROVE  MemInv'
    BY <1>4, NoWrite, PruneKeepsMem
  <1>5. ASSUME NEW r \in Runtimes, LookUp(r)
        PROVE  MemInv'
    BY <1>5, RefTypes, PruneKeepsMem DEF LookUp, envVars
  <1>6. ASSUME NEW r \in Runtimes, Load(r)
        PROVE  MemInv'
    <2>1. snap[r] = None
      BY <1>6, NoneAssumption DEF Load, IInv, LockInv, SlotInv
    <2>2. /\ \E m : /\ mem' = [mem EXCEPT ![r] = m]
                    /\ snap' = snap \/ snap' = [snap EXCEPT ![r] = m]
          /\ UNCHANGED now
      BY <1>6 DEF Load, Save, envVars
    <2>. QED
      BY <2>1, <2>2, RefTypes DEF MemInv, IsExpired
  <1>7. ASSUME NEW r \in Runtimes, StartSaved(r)
        PROVE  MemInv'
    <2>1. snap' = [snap EXCEPT ![r] = None] /\ UNCHANGED <<mem, now>>
      BY <1>7 DEF StartSaved, Write, envVars
    <2>. QED
      BY <2>1, RefTypes DEF MemInv, IsExpired
  <1>8. CASE Tick
    <2>1. now' = now + 1 /\ UNCHANGED <<mem, snap>>
      BY <1>8 DEF Tick, ledgerVars
    <2>2. \A rec \in Record \cup {None} : IsExpired(rec) => IsExpired(rec)'
      BY <2>1, RefTypes, BoundsAssumption, RetentionAssumption DEF IsExpired, Record
    <2>3. \A r \in Runtimes, k \in Keys :
            snap[r] # None => snap[r][k] \in Record \cup {None}
      BY RefTypes DEF Ledger
    <2>. QED
      BY <2>1, <2>2, <2>3 DEF MemInv, IsExpired
  <1>9. CASE Crash
    BY <1>9 DEF Crash, MemInv
  <1>10. CASE UNCHANGED vars
    BY <1>10 DEF MemInv, IsExpired, vars, ledgerVars, envVars
  <1>11. ASSUME NEW r \in Runtimes,
                \/ EnterSlot(r) \/ FencePrevious(r) \/ TakeOver(r) \/ LoadFails(r)
                \/ CancelStart(r) \/ Stop(r)
         PROVE  MemInv'
    <2>1. UNCHANGED <<mem, snap, now>>
      BY <1>11 DEF EnterSlot, FencePrevious, TakeOver, LoadFails, CancelStart, Stop,
         ledgerVars, envVars
    <2>. QED
      BY <2>1 DEF MemInv, IsExpired
  <1>. QED
    BY <1>1, <1>2, <1>3, <1>4, <1>5, <1>6, <1>7, <1>8, <1>9, <1>10, <1>11, NextCases
    DEF RuntimeStep, StartStep

\* A call that writes belongs to a runtime that serves.
LEMMA WriterServes ==
  ASSUME IInv, NEW c \in Calls,
         \/ BeginAlias(c) \/ BeginClaim(c) \/ BeginRecord(c)
         \/ AliasSaved(c) \/ ClaimSaved(c) \/ RecordSaved(c)
  PROVE  /\ Serving(Rt(c)) /\ Rt(c) \in Runtimes /\ Key(c) \in Keys
         /\ Here(c) = mem[Rt(c)] /\ Here(c) \in Ledger
  <1>1. /\ Rt(c) \in Runtimes /\ Key(c) \in Keys
        /\ Here(c) = mem[Rt(c)] /\ Here(c) \in Ledger
    BY BeginsWrite, EndsWrite, RefTypes DEF Here
  <1>2. \/ Rt(c) \in available
        \/ pc[c] \in {"finish", "record", "claim", "alias"}
    BY DEF BeginAlias, BeginClaim, BeginRecord, AliasAllowed, ClaimAllowed,
           AliasSaved, ClaimSaved, RecordSaved
  <1>3. pc[c] \in {"finish", "record"} => c \in active[Rt(c)]
    BY <1>1 DEF IInv, OwnerInv, Admitted
  <1>4. pc[c] \in {"claim", "alias"} => Rt(c) \in available
    BY DEF IInv, OwnerInv
  <1>. QED
    BY <1>1, <1>2, <1>3, <1>4 DEF Serving

\* The file changes only into a snapshot.
LEMMA DiskMoves ==
  ASSUME IInv, [Next]_vars
  PROVE  disk' = disk \/ \E r \in Runtimes : snap[r] # None /\ disk' = snap[r]
  <1>1. ASSUME NEW c \in Calls, AliasSaved(c) \/ ClaimSaved(c) \/ RecordSaved(c)
        PROVE  disk' = disk \/ \E r \in Runtimes : snap[r] # None /\ disk' = snap[r]
    BY <1>1, EndsWrite
  <1>2. ASSUME NEW r \in Runtimes, StartSaved(r)
        PROVE  disk' = disk \/ \E x \in Runtimes : snap[x] # None /\ disk' = snap[x]
    BY <1>2 DEF StartSaved, Write
  <1>3. CASE Crash
    BY <1>3 DEF Crash
  <1>4. ASSUME NEW c \in Calls,
               \/ \E q \in Request : Arrive(c, q)
               \/ BeginAlias(c) \/ BeginClaim(c) \/ BeginRecord(c)
               \/ Replay(c) \/ Refuse(c) \/ CancelWaiting(c) \/ Preflight(c)
               \/ Transmit(c) \/ Respond(c) \/ CancelFinish(c)
        PROVE  UNCHANGED disk
    BY <1>4, BeginsWrite, NoWrite DEF Arrive, ledgerVars
  <1>5. ASSUME NEW r \in Runtimes,
               \/ EnterSlot(r) \/ FencePrevious(r) \/ TakeOver(r) \/ LoadFails(r)
               \/ CancelStart(r) \/ Stop(r) \/ Load(r) \/ LookUp(r)
        PROVE  UNCHANGED disk
    BY <1>5 DEF EnterSlot, FencePrevious, TakeOver, LoadFails, CancelStart, Stop,
       Load, LookUp, ledgerVars
  <1>6. CASE Tick \/ UNCHANGED vars
    BY <1>6 DEF Tick, vars, ledgerVars
  <1>. QED
    BY <1>1, <1>2, <1>3, <1>4, <1>5, <1>6, NextCases DEF RuntimeStep, StartStep

\* Memory and snapshot change together: a new snapshot is the new memory.
LEMMA SnapMoves ==
  ASSUME IInv, [Next]_vars, NEW r \in Runtimes
  PROVE  snap'[r] \in {snap[r], None} \/ (snap'[r] = mem'[r] /\ snap[r] = None /\ Serving(r)')
  <1>1. ASSUME NEW c \in Calls, BeginAlias(c) \/ BeginClaim(c) \/ BeginRecord(c)
        PROVE  snap'[r] \in {snap[r], None} \/ (snap'[r] = mem'[r] /\ snap[r] = None /\ Serving(r)')
    <2>1. PICK m \in Ledger : /\ mem' = [mem EXCEPT ![Rt(c)] = m]
                              /\ snap' = [snap EXCEPT ![Rt(c)] = m]
      BY <1>1, BeginsSaves
    <2>2. Serving(Rt(c)) /\ UNCHANGED <<available, active, phase>>
      BY <1>1, WriterServes, BeginsWrite DEF runtimeVars
    <2>3. snap[Rt(c)] = None
      BY <1>1, BeginsWrite, LockFacts
    <2>. QED
      BY <2>1, <2>2, <2>3, RefTypes DEF Serving
  <1>2. ASSUME NEW c \in Calls, AliasSaved(c) \/ ClaimSaved(c) \/ RecordSaved(c)
        PROVE  snap'[r] \in {snap[r], None}
    BY <1>2, EndsWrite, RefTypes
  <1>3. ASSUME NEW c \in Calls,
               \/ \E q \in Request : Arrive(c, q)
               \/ Replay(c) \/ Refuse(c) \/ CancelWaiting(c) \/ Preflight(c)
               \/ Transmit(c) \/ Respond(c) \/ CancelFinish(c)
        PROVE  UNCHANGED snap
    BY <1>3, NoWrite DEF Arrive, ledgerVars
  <1>4. ASSUME NEW x \in Runtimes, Load(x)
        PROVE  snap'[r] \in {snap[r], None} \/ (snap'[r] = mem'[r] /\ snap[r] = None /\ Serving(r)')
    <2>1. snap[x] = None
      BY <1>4, NoneAssumption DEF Load, IInv, LockInv, SlotInv
    <2>2. \/ UNCHANGED snap
          \/ /\ \E m : mem' = [mem EXCEPT ![x] = m] /\ snap' = [snap EXCEPT ![x] = m]
             /\ phase' = [phase EXCEPT ![x] = "save"]
      BY <1>4 DEF Load, Save
    <2>. QED
      BY <2>1, <2>2, RefTypes DEF Serving
  <1>5. ASSUME NEW x \in Runtimes, StartSaved(x)
        PROVE  snap'[r] \in {snap[r], None}
    BY <1>5, RefTypes DEF StartSaved, Write
  <1>6. ASSUME NEW x \in Runtimes,
               \/ EnterSlot(x) \/ FencePrevious(x) \/ TakeOver(x) \/ LoadFails(x)
               \/ CancelStart(x) \/ Stop(x) \/ LookUp(x)
        PROVE  UNCHANGED snap
    BY <1>6 DEF EnterSlot, FencePrevious, TakeOver, LoadFails, CancelStart, Stop,
       LookUp, ledgerVars
  <1>7. CASE Tick \/ UNCHANGED vars
    BY <1>7 DEF Tick, vars, ledgerVars
  <1>8. CASE Crash
    BY <1>8 DEF Crash
  <1>. QED
    BY <1>1, <1>2, <1>3, <1>4, <1>5, <1>6, <1>7, <1>8, NextCases
    DEF RuntimeStep, StartStep

\* An outcome in a memory was there, or is taken from the file, or is the one
\* that a call begins to record.
LEMMA MemMoves ==
  ASSUME IInv, [Next]_vars, NEW r \in Runtimes, NEW k \in Keys, NEW t,
         NEW s \in Definite, Says(mem'[r][k], t, s)
  PROVE  \/ Says(mem[r][k], t, s)
         \/ Load(r) /\ Says(disk[k], t, s)
         \/ \E c \in Calls : /\ BeginRecord(c) /\ Rt(c) = r /\ Key(c) = k
                             /\ Here(c)[k].created = t /\ FinalStatus(c) = s
  <1>. DEFINE Goal == \/ Says(mem[r][k], t, s)
                      \/ Load(r) /\ Says(disk[k], t, s)
                      \/ \E c \in Calls : /\ BeginRecord(c) /\ Rt(c) = r /\ Key(c) = k
                                          /\ Here(c)[k].created = t /\ FinalStatus(c) = s
  <1>0. s # "pending" /\ s # "unknown" /\ s # "unsaved"
    BY DEF Definite
  <1>1. CASE \E x \in Runtimes : mem' \in {mem, [mem EXCEPT ![x] = Prune(@)]}
    BY <1>1, RefTypes DEF Says, Prune
  <1>2. ASSUME NEW c \in Calls, BeginAlias(c)
        PROVE  Goal
    <2>1. /\ pc[c] = "lock" /\ Existing(c) # None /\ NewAlias(c)
          /\ mem' = [mem EXCEPT ![Rt(c)] = WithAlias(c)]
      BY <1>2 DEF BeginAlias, Enters, Matches, Save
    <2>2. /\ WithAlias(c)[k] = None <=> Pruned(c)[k] = None
          /\ Pruned(c)[k] # None =>
               /\ WithAlias(c)[k].created = Pruned(c)[k].created
               /\ WithAlias(c)[k].status = Pruned(c)[k].status
      BY <2>1, AliasLedger DEF IInv
    <2>3. Pruned(c)[k] \in {Here(c)[k], None}
      BY DEF Pruned, Prune
    <2>4. Rt(c) \in Runtimes /\ Here(c) = mem[Rt(c)]
      BY <1>2, WriterServes
    <2>. QED
      BY <2>1, <2>2, <2>3, <2>4, RefTypes DEF Says
  <1>3. ASSUME NEW c \in Calls, BeginClaim(c)
        PROVE  Goal
    <2>1. pc[c] = "lock" /\ mem' = [mem EXCEPT ![Rt(c)] = WithClaim(c)]
      BY <1>3 DEF BeginClaim, Enters, Save
    <2>2. /\ k # Key(c) => WithClaim(c)[k] = Pruned(c)[k]
          /\ k = Key(c) => WithClaim(c)[k].status = "pending"
      BY <2>1, ClaimLedger DEF IInv, Pending
    <2>3. Pruned(c)[k] \in {Here(c)[k], None}
      BY DEF Pruned, Prune
    <2>4. Rt(c) \in Runtimes /\ Here(c) = mem[Rt(c)]
      BY <1>3, WriterServes
    <2>. QED
      BY <1>0, <2>1, <2>2, <2>3, <2>4, RefTypes DEF Says
  <1>4. ASSUME NEW c \in Calls, BeginRecord(c)
        PROVE  Goal
    <2>1. /\ pc[c] = "finish" /\ outcome[c] \in Outcomes \ {"none"}
          /\ mem' = [mem EXCEPT ![Rt(c)] = WithStatus(Here(c), Key(c), FinalStatus(c))]
      BY <1>4, RefTypes DEF BeginRecord, Save, IInv, OutcomeInv
    <2>2. FinalStatus(c) \in Status
      BY <2>1 DEF FinalStatus, Outcomes, Status
    <2>3. /\ Rt(c) \in Runtimes /\ Here(c) = mem[Rt(c)] /\ Here(c) \in Ledger
          /\ Key(c) \in Keys
      BY <1>4, WriterServes
    <2>4. /\ WithStatus(Here(c), Key(c), FinalStatus(c))[k] = None <=> Here(c)[k] = None
          /\ k # Key(c) => WithStatus(Here(c), Key(c), FinalStatus(c))[k] = Here(c)[k]
          /\ Here(c)[k] # None =>
               WithStatus(Here(c), Key(c), FinalStatus(c))[k].created = Here(c)[k].created
          /\ Here(c)[Key(c)] # None =>
               WithStatus(Here(c), Key(c), FinalStatus(c))[Key(c)].status = FinalStatus(c)
      BY <2>2, <2>3, WithStatusLedger
    <2>. QED
      BY <1>4, <2>1, <2>3, <2>4, RefTypes DEF Says
  <1>5. ASSUME NEW c \in Calls, AliasSaved(c) \/ ClaimSaved(c) \/ RecordSaved(c)
        PROVE  Goal
    <2>1. \/ UNCHANGED mem
          \/ mem' = [mem EXCEPT ![Rt(c)] = Withdrawn(mem[Rt(c)], c)]
          \/ \E u \in {"unknown", "unsaved"} :
               mem' = [mem EXCEPT ![Rt(c)] = WithStatus(mem[Rt(c)], Key(c), u)]
      BY <1>5 DEF AliasSaved, ClaimSaved, RecordSaved
    <2>2. Rt(c) \in Runtimes /\ mem[Rt(c)] \in Ledger /\ Key(c) \in Keys
      BY <1>5, WriterServes
    <2>3. /\ Withdrawn(mem[Rt(c)], c)[k] = None <=> mem[Rt(c)][k] = None
          /\ mem[Rt(c)][k] # None =>
                /\ Withdrawn(mem[Rt(c)], c)[k].created = mem[Rt(c)][k].created
                /\ Withdrawn(mem[Rt(c)], c)[k].status = mem[Rt(c)][k].status
      BY <2>2, WithdrawnLedger
    <2>4. ASSUME NEW u \in {"unknown", "unsaved"}
          PROVE  LET n == WithStatus(mem[Rt(c)], Key(c), u)
                 IN  /\ n[k] = None <=> mem[Rt(c)][k] = None
                     /\ k # Key(c) => n[k] = mem[Rt(c)][k]
                     /\ mem[Rt(c)][Key(c)] # None => n[Key(c)].status = u
      <3>1. u \in Status
        BY DEF Status
      <3>. QED
        BY <2>2, <3>1, WithStatusLedger
    <2>. QED
      BY <1>0, <2>1, <2>2, <2>3, <2>4, RefTypes DEF Says
  <1>6. ASSUME NEW x \in Runtimes, Load(x)
        PROVE  Goal
    <2>1. mem' = [mem EXCEPT ![x] = Restored(Prune(disk))]
      BY <1>6 DEF Load, Save
    <2>2. x = r => Says(Restored(Prune(disk))[k], t, s)
      BY <2>1, RefTypes
    <2>3. ASSUME Says(Restored(Prune(disk))[k], t, s)
          PROVE  Says(disk[k], t, s)
      <3>1. disk[k] \in Record \cup {None}
        BY RefTypes DEF Ledger
      <3>2. disk[k] \in Record =>
              [disk[k] EXCEPT !.status = "unknown"].status = "unknown"
        BY DEF Record
      <3>3. None \notin Record
        BY NoneAssumption
      <3>. QED
        BY <1>0, <2>3, <3>1, <3>2, <3>3 DEF Restored, Prune, Says
    <2>. QED
      BY <1>6, <2>1, <2>2, <2>3, RefTypes
  <1>7. CASE Crash
    BY <1>7 DEF Crash, EmptyLedger, Says
  <1>8. ASSUME NEW c \in Calls,
               \/ \E q \in Request : Arrive(c, q)
               \/ Replay(c) \/ Refuse(c) \/ CancelWaiting(c) \/ Preflight(c)
               \/ Transmit(c) \/ Respond(c) \/ CancelFinish(c)
        PROVE  \E x \in Runtimes : mem' \in {mem, [mem EXCEPT ![x] = Prune(@)]}
    BY <1>8, NoWrite DEF Arrive, ledgerVars
  <1>9. ASSUME NEW x \in Runtimes,
               \/ EnterSlot(x) \/ FencePrevious(x) \/ TakeOver(x) \/ LoadFails(x)
               \/ CancelStart(x) \/ Stop(x) \/ LookUp(x) \/ StartSaved(x)
        PROVE  mem' \in {mem, [mem EXCEPT ![x] = Prune(@)]}
    BY <1>9, RefTypes DEF EnterSlot, FencePrevious, TakeOver, LoadFails, CancelStart, Stop,
       LookUp, StartSaved, ledgerVars
  <1>10. CASE Tick \/ UNCHANGED vars
    BY <1>10, <1>1 DEF Tick, vars, ledgerVars
  <1>. QED
    BY <1>1, <1>2, <1>3, <1>4, <1>5, <1>6, <1>7, <1>8, <1>9, <1>10, NextCases
    DEF RuntimeStep, StartStep

\* A caller is told an outcome that is replayed, or one that was just saved.
LEMMA ToldMoves ==
  ASSUME IInv, [Next]_vars, NEW k, NEW t, NEW s,
         InHistory(k, t, s)', ~InHistory(k, t, s)
  PROVE  \E c \in Calls :
           /\ Key(c) = k
           /\ \/ Replay(c) /\ Says(Existing(c), t, s)
              \/ /\ AliasSaved(c) \/ RecordSaved(c)
                 /\ Write(Rt(c), "ok") /\ UNCHANGED mem
                 /\ Says(snap[Rt(c)][k], t, s)
  <1>. DEFINE rec(c) == snap[Rt(c)][Key(c)]
  <1>1. ASSUME NEW c \in Calls, Replay(c)
        PROVE  Key(c) = k /\ Says(Existing(c), t, s)
    <2>1. Tell(Key(c), Existing(c)) /\ Existing(c) # None
      BY <1>1 DEF Replay, Matches
    <2>. QED
      BY <2>1 DEF Tell, InHistory, Says
  <1>2. ASSUME NEW c \in Calls, AliasSaved(c) \/ RecordSaved(c)
        PROVE  /\ Key(c) = k
               /\ Write(Rt(c), "ok") /\ UNCHANGED mem
               /\ Says(snap[Rt(c)][k], t, s)
    <2>1. told' # told
      BY DEF InHistory
    <2>2. Tell(Key(c), rec(c)) /\ Write(Rt(c), "ok") /\ UNCHANGED mem
      BY <1>2, <2>1 DEF AliasSaved, RecordSaved
    <2>3. rec(c) # None
      BY <1>2, EndsWrite DEF AliasSaved, RecordSaved, IInv, WrittenInv
    <2>4. Key(c) = k /\ Says(rec(c), t, s)
      BY <2>2, <2>3 DEF Tell, InHistory, Says
    <2>. QED
      BY <2>2, <2>4
  <1>3. ASSUME NEW c \in Calls,
               \/ \E q \in Request : Arrive(c, q)
               \/ BeginAlias(c) \/ BeginClaim(c) \/ BeginRecord(c) \/ ClaimSaved(c)
               \/ Refuse(c) \/ CancelWaiting(c) \/ Preflight(c)
               \/ Transmit(c) \/ Respond(c) \/ CancelFinish(c)
        PROVE  FALSE
    BY <1>3 DEF Arrive, BeginAlias, BeginClaim, BeginRecord, ClaimSaved, Refuse,
       CancelWaiting, Preflight, Transmit, Respond, CancelFinish, historyVars, InHistory
  <1>4. ~RuntimeStep /\ ~Crash
    BY RuntimeFrame DEF Crash, historyVars, InHistory
  <1>. QED
    BY <1>1, <1>2, <1>3, <1>4, NextCases

\* No outcome of a claim comes up but by the call that made the claim.
LEMMA FoundMoves ==
  ASSUME IInv, [Next]_vars, NEW k \in Keys, NEW t, NEW s \in Definite,
         Found(k, t, s)'
  PROVE  \/ Found(k, t, s)
         \/ \E c \in Calls : /\ BeginRecord(c) /\ Key(c) = k
                             /\ Here(c)[k].created = t /\ FinalStatus(c) = s
  <1>1. CASE \E r \in Runtimes : Says(mem'[r][k], t, s)
    BY <1>1, MemMoves DEF Found
  <1>2. CASE Says(disk'[k], t, s)
    BY <1>2, DiskMoves DEF Found
  <1>3. CASE \E r \in Runtimes : snap'[r] # None /\ Says(snap'[r][k], t, s)
    <2>1. PICK r \in Runtimes : snap'[r] # None /\ Says(snap'[r][k], t, s)
      BY <1>3
    <2>2. snap'[r] = snap[r] \/ snap'[r] = mem'[r]
      BY <2>1, SnapMoves
    <2>. QED
      BY <1>1, <2>1, <2>2 DEF Found
  <1>4. CASE InHistory(k, t, s)'
    <2>1. ASSUME NEW c \in Calls, Key(c) = k, Replay(c), Says(Existing(c), t, s)
          PROVE  Found(k, t, s)
      <3>1. pc[c] # "idle"
        BY <2>1 DEF Replay, Enters
      <3>2. Rt(c) \in Runtimes
        BY <3>1, CallTypes DEF IInv
      <3>3. Existing(c) = mem[Rt(c)][k]
        BY <2>1 DEF Existing, Pruned, Prune, Here, Says
      <3>. QED
        BY <2>1, <3>2, <3>3 DEF Found
    <2>2. ASSUME NEW c \in Calls, AliasSaved(c) \/ RecordSaved(c),
                 Says(snap[Rt(c)][k], t, s)
          PROVE  Found(k, t, s)
      BY <2>2, EndsWrite DEF Found
    <2>. QED
      BY <1>4, <2>1, <2>2, ToldMoves DEF Found
  <1>. QED
    BY <1>1, <1>2, <1>3, <1>4 DEF Found, Says, InHistory

\* The memory of a runtime mirrors the file when it comes to admit, and as long
\* as it does.
LEMMA MirrorStep ==
  ASSUME IInv, MemInv, MirrorInv, [Next]_vars
  PROVE  MirrorInv'
  <1>1. SUFFICES ASSUME NEW r \in available', snap'[r] = None, NEW k \in Keys
                 PROVE  \/ mem'[r][k] = disk'[k]
                        \/ mem'[r][k] = None /\ IsExpired(disk[k])'
    BY DEF MirrorInv, IsExpired
  <1>. DEFINE Goal == \/ mem'[r][k] = disk'[k]
                      \/ mem'[r][k] = None /\ IsExpired(disk[k])'
  <1>2. r \in Runtimes
    BY IInvStep DEF IInv, TypeOK
  <1>3. disk[k] \in Record \cup {None}
    BY RefTypes DEF Ledger
  <1>4. ASSUME disk' = disk, r \in available, snap[r] = None, now' \in {now, now + 1},
               mem'[r] \in {mem[r], Prune(mem[r])}
        PROVE  Goal
    <2>1. IsExpired(disk[k]) => IsExpired(disk[k])'
      BY <1>3, <1>4, RefTypes, BoundsAssumption, RetentionAssumption DEF IsExpired, Record
    <2>2. mem'[r][k] = mem[r][k] \/ (mem'[r][k] = None /\ IsExpired(mem[r][k]))
      BY <1>4 DEF Prune
    <2>3. IsExpired(mem[r][k]) => mem[r][k] # None
      BY DEF IsExpired
    <2>. QED
      BY <1>1, <1>2, <1>4, <2>1, <2>2, <2>3 DEF MirrorInv, IsExpired
  <1>5. ASSUME disk' = snap[r], snap[r] # None, mem'[r] = mem[r], now' = now
        PROVE  Goal
    BY <1>2, <1>5 DEF MemInv, IsExpired
  <1>6. ASSUME NEW c \in Calls, BeginAlias(c) \/ BeginClaim(c) \/ BeginRecord(c)
        PROVE  Goal
    <2>1. PICK m \in Ledger : /\ mem' = [mem EXCEPT ![Rt(c)] = m]
                              /\ snap' = [snap EXCEPT ![Rt(c)] = m]
      BY <1>6, BeginsSaves
    <2>2. UNCHANGED <<disk, available, now>>
      BY <1>6, BeginsWrite
    <2>3. r # Rt(c)
      BY <1>1, <1>2, <2>1, RefTypes
    <2>. QED
      BY <1>1, <1>2, <1>4, <2>1, <2>2, <2>3, RefTypes
  <1>7. ASSUME NEW c \in Calls, AliasSaved(c) \/ ClaimSaved(c) \/ RecordSaved(c)
        PROVE  Goal
    <2>1. /\ r \in available /\ owner = r /\ UNCHANGED now
          /\ snap[Rt(c)] # None /\ Rt(c) \in Runtimes
      BY <1>1, <1>2, <1>7, EndsWrite DEF IInv, SlotInv
    <2>2. r = Rt(c)
      BY <2>1, WriterOwns
    <2>3. disk' = snap[r] /\ UNCHANGED mem
      BY <1>1, <1>7, <2>2 DEF AliasSaved, ClaimSaved, RecordSaved, Write
    <2>. QED
      BY <1>5, <2>1, <2>2, <2>3
  <1>8. ASSUME NEW c \in Calls,
               \/ \E q \in Request : Arrive(c, q)
               \/ Replay(c) \/ Refuse(c) \/ CancelWaiting(c) \/ Preflight(c)
               \/ Transmit(c) \/ Respond(c) \/ CancelFinish(c)
        PROVE  Goal
    <2>1. /\ UNCHANGED <<disk, snap, available, now>>
          /\ \E x \in Runtimes : mem' \in {mem, [mem EXCEPT ![x] = Prune(@)]}
      BY <1>2, <1>8, NoWrite DEF Arrive, ledgerVars, envVars
    <2>. QED
      BY <1>1, <1>2, <1>4, <2>1, RefTypes
  <1>9. ASSUME NEW x \in Runtimes, Load(x)
        PROVE  Goal
    <2>1. phase[x] = "load" /\ UNCHANGED <<disk, now>>
      BY <1>9 DEF Load, envVars
    <2>2. x = r
      <3>1. owner = x
        BY <2>1 DEF IInv, SlotInv
      <3>2. r \in available => owner = r
        BY <1>2 DEF IInv, SlotInv
      <3>3. r \in available \/ r = x
        BY <1>1, <1>9 DEF Load
      <3>. QED
        BY <3>1, <3>2, <3>3
    <2>3. r \notin available
      BY <1>2, <2>1, <2>2 DEF IInv, SlotInv
    <2>4. Restored(Prune(disk)) = disk /\ mem' = [mem EXCEPT ![x] = disk]
      BY <1>1, <1>9, <2>3 DEF Load
    <2>. QED
      BY <1>2, <2>1, <2>2, <2>4, RefTypes
  <1>10. ASSUME NEW x \in Runtimes, StartSaved(x)
         PROVE  Goal
    <2>1. phase[x] = "save" /\ UNCHANGED <<mem, now>>
      BY <1>10 DEF StartSaved, envVars
    <2>2. x = r
      <3>1. owner = x
        BY <2>1 DEF IInv, SlotInv
      <3>2. r \in available => owner = r
        BY <1>2 DEF IInv, SlotInv
      <3>3. r \in available \/ r = x
        BY <1>1, <1>10 DEF StartSaved
      <3>. QED
        BY <3>1, <3>2, <3>3
    <2>3. r \notin available
      BY <1>2, <2>1, <2>2 DEF IInv, SlotInv
    <2>4. snap[r] # None /\ disk' = snap[r]
      BY <1>1, <1>10, <2>2, <2>3 DEF StartSaved, Write
    <2>. QED
      BY <1>5, <2>1, <2>4
  <1>11. ASSUME NEW x \in Runtimes,
                \/ EnterSlot(x) \/ FencePrevious(x) \/ TakeOver(x) \/ LoadFails(x)
                \/ CancelStart(x) \/ Stop(x) \/ LookUp(x)
         PROVE  Goal
    <2>1. /\ UNCHANGED <<disk, snap, now>>
          /\ mem' \in {mem, [mem EXCEPT ![x] = Prune(@)]}
          /\ available' \subseteq available
      BY <1>11, RefTypes
      DEF EnterSlot, FencePrevious, TakeOver, LoadFails, CancelStart, Stop, Fence,
          LookUp, ledgerVars, envVars
    <2>. QED
      BY <1>1, <1>2, <1>4, <2>1, RefTypes
  <1>12. CASE Tick \/ UNCHANGED vars
    <2>1. UNCHANGED <<disk, snap, mem, available>> /\ now' \in {now, now + 1}
      BY <1>12 DEF Tick, vars, ledgerVars, envVars
    <2>. QED
      BY <1>1, <1>2, <1>4, <2>1
  <1>13. CASE Crash
    BY <1>1, <1>13 DEF Crash
  <1>. QED
    BY <1>6, <1>7, <1>8, <1>9, <1>10, <1>11, <1>12, <1>13, NextCases
    DEF RuntimeStep, StartStep

\* A call comes to wait for its transmission only by claiming.
LEMMA ClaimsBegin ==
  ASSUME IInv, [Next]_vars, NEW d \in Calls, pc'[d] \in Waiting \cup {"claim"},
         pc[d] \notin Waiting \cup {"claim"}
  PROVE  BeginClaim(d)
  <1>1. ASSUME NEW c \in Calls,
               \/ \E q \in Request : Arrive(c, q)
               \/ BeginAlias(c) \/ BeginRecord(c)
               \/ AliasSaved(c) \/ ClaimSaved(c) \/ RecordSaved(c)
        PROVE  FALSE
    <2>1. \/ \E x : /\ pc' = [pc EXCEPT ![c] = x]
                    /\ x \notin Waiting \cup {"claim"}
          \/ pc[c] = "claim" /\ pc' = [pc EXCEPT ![c] = "send"]
      BY <1>1 DEF Arrive, BeginAlias, BeginRecord, AliasSaved, ClaimSaved,
                  RecordSaved, Return, Goto, Waiting
    <2>. QED
      BY <2>1, RefTypes
  <1>2. ASSUME NEW c \in Calls,
               \/ Replay(c) \/ Refuse(c) \/ CancelWaiting(c) \/ Preflight(c)
               \/ Transmit(c) \/ Respond(c) \/ CancelFinish(c)
        PROVE  FALSE
    BY <1>2, NoWrite, RefTypes DEF Waiting
  <1>3. ASSUME NEW c \in Calls, BeginClaim(c)
        PROVE  c = d
    BY <1>3, RefTypes DEF BeginClaim, Goto
  <1>4. ~RuntimeStep
    BY RuntimeFrame DEF callVars
  <1>5. ~Crash
    BY DEF Crash, InFlight, Admitted, Waiting
  <1>. QED
    BY <1>1, <1>2, <1>3, <1>4, <1>5, NextCases

\* Nobody but the call that is recording writes the file or its snapshot.
LEMMA IntentStaysStep ==
  ASSUME IInv, IntentStays, [Next]_vars
  PROVE  IntentStays'
  <1>1. SUFFICES ASSUME NEW d \in Calls, pc'[d] = "record"
                 PROVE  /\ snap'[Rt(d)'] # None
                        /\ Pending(disk'[Key(d)'], snap'[Rt(d)'][Key(d)'].created)
    BY DEF IntentStays
  <1>2. ~Crash
    BY <1>1 DEF Crash, InFlight, Admitted
  <1>3. CASE pc[d] = "record"
    <2>1. /\ Rt(d) \in Runtimes /\ Key(d) \in Keys /\ owner = Rt(d)
          /\ lock[Rt(d)] = d /\ phase[Rt(d)] = "up"
          /\ snap[Rt(d)] # None
          /\ Pending(disk[Key(d)], snap[Rt(d)][Key(d)].created)
      BY <1>3, CallTypes
      DEF IInv, OwnerInv, LockInv, IntentStays, Saving, InFlight, Admitted
    <2>2. ASSUME NEW c \in Calls, AliasSaved(c) \/ ClaimSaved(c) \/ RecordSaved(c)
          PROVE  FALSE
      <3>1. /\ pc[c] \in Saving /\ Rt(c) \in Runtimes /\ snap[Rt(c)] # None
            /\ pc'[c] # "record"
        BY <1>1, <2>2, EndsWrite, RefTypes
      <3>2. Rt(c) = Rt(d)
        BY <2>1, <3>1, WriterOwns
      <3>3. c = d
        BY <1>3, <3>1, <3>2, LockFacts DEF Saving
      <3>. QED
        BY <1>1, <3>1, <3>3
    <2>3. ASSUME NEW c \in Calls, BeginAlias(c) \/ BeginClaim(c) \/ BeginRecord(c)
          PROVE  /\ disk' = disk /\ snap'[Rt(d)] = snap[Rt(d)] /\ UNCHANGED req
      <3>1. PICK m \in Ledger : snap' = [snap EXCEPT ![Rt(c)] = m]
        BY <2>3, BeginsSaves
      <3>2. lock[Rt(c)] = None /\ UNCHANGED <<disk, req>>
        BY <2>3, BeginsWrite
      <3>3. Rt(c) # Rt(d)
        BY <2>1, <3>2, NoneAssumption
      <3>. QED
        BY <2>1, <3>1, <3>2, <3>3, RefTypes
    <2>4. ASSUME NEW c \in Calls, NEW q \in Request, Arrive(c, q)
          PROVE  UNCHANGED <<disk, snap>> /\ req'[d] = req[d]
      BY <1>3, <2>4, RefTypes DEF Arrive, ledgerVars
    <2>5. ASSUME NEW c \in Calls,
                 \/ Replay(c) \/ Refuse(c) \/ CancelWaiting(c) \/ Preflight(c)
                 \/ Transmit(c) \/ Respond(c) \/ CancelFinish(c)
          PROVE  UNCHANGED <<disk, snap, req>>
      BY <2>5, NoWrite
    <2>6. ASSUME RuntimeStep
          PROVE  UNCHANGED <<disk, snap, req>>
      <3>1. UNCHANGED req
        BY <2>6, RuntimeFrame DEF callVars
      <3>2. \A r \in Runtimes : phase[r] \notin {"load", "save"}
        BY <2>1 DEF IInv, SlotInv
      <3>. QED
        BY <2>6, <3>1, <3>2
        DEF RuntimeStep, StartStep, EnterSlot, FencePrevious, TakeOver, Load,
            LoadFails, StartSaved, CancelStart, Stop, LookUp, Tick, vars, ledgerVars
    <2>7. disk' = disk /\ snap'[Rt(d)] = snap[Rt(d)] /\ req'[d] = req[d]
      BY <1>2, <2>2, <2>3, <2>4, <2>5, <2>6, NextCases
    <2>. QED
      BY <2>1, <2>7 DEF Rt, Key
  <1>4. CASE pc[d] # "record"
    <2>1. BeginRecord(d)
      <3>1. ASSUME NEW c \in Calls,
                   \/ \E q \in Request : Arrive(c, q)
                   \/ BeginAlias(c) \/ BeginClaim(c)
                   \/ AliasSaved(c) \/ ClaimSaved(c) \/ RecordSaved(c)
            PROVE  FALSE
        <4>1. \E x : pc' = [pc EXCEPT ![c] = x] /\ x # "record"
          BY <3>1 DEF Arrive, BeginAlias, BeginClaim, AliasSaved, ClaimSaved,
                      RecordSaved, Return, Goto
        <4>. QED
          BY <1>1, <1>4, <4>1, RefTypes
      <3>2. ASSUME NEW c \in Calls,
                   \/ Replay(c) \/ Refuse(c) \/ CancelWaiting(c) \/ Preflight(c)
                   \/ Transmit(c) \/ Respond(c) \/ CancelFinish(c)
            PROVE  FALSE
        BY <1>1, <1>4, <3>2, NoWrite, RefTypes
      <3>3. ASSUME NEW c \in Calls, BeginRecord(c)
            PROVE  c = d
        BY <1>1, <1>4, <3>3, RefTypes DEF BeginRecord, Goto
      <3>4. ~RuntimeStep
        BY <1>1, <1>4, RuntimeFrame DEF callVars
      <3>. QED
        BY <1>2, <3>1, <3>2, <3>3, <3>4, NextCases
    <2>2. /\ pc[d] = "finish" /\ outcome[d] \in Outcomes \ {"none"}
          /\ snap' = [snap EXCEPT ![Rt(d)]
                        = WithStatus(Here(d), Key(d), FinalStatus(d))]
          /\ UNCHANGED <<disk, req>>
      BY <2>1, RefTypes DEF BeginRecord, Save, IInv, OutcomeInv
    <2>3. FinalStatus(d) \in Status
      BY <2>2 DEF FinalStatus, Outcomes, Status
    <2>4. /\ Rt(d) \in Runtimes /\ Key(d) \in Keys /\ Here(d) \in Ledger
          /\ Here(d)[Key(d)] # None
          /\ Pending(disk[Key(d)], Here(d)[Key(d)].created)
      BY <2>2, WaitingFacts DEF Waiting, Intent, Here
    <2>5. /\ WithStatus(Here(d), Key(d), FinalStatus(d)) \in Ledger
          /\ WithStatus(Here(d), Key(d), FinalStatus(d))[Key(d)].created
               = Here(d)[Key(d)].created
      BY <2>3, <2>4, WithStatusLedger
    <2>. QED
      BY <2>2, <2>4, <2>5, RefTypes DEF Rt, Key
  <1>. QED
    BY <1>3, <1>4

\* The key of a call that records is locked for every other call.
LEMMA NotRecording ==
  ASSUME IInv, NEW r \in Runtimes, owner = r, NEW k,
         \/ lock[r] = None
         \/ \E c \in Calls : pc[c] \in {"alias", "claim"} /\ Rt(c) = r
  PROVE  \A x \in Runtimes : ~Recording(x, k)
  <1>1. SUFFICES ASSUME NEW d \in Calls, pc[d] = "record"
                 PROVE  FALSE
    BY DEF Recording
  <1>2. Rt(d) = r /\ lock[r] = d
    BY <1>1 DEF IInv, OwnerInv, LockInv, Saving, Admitted
  <1>3. lock[r] # None
    BY <1>2, NoneAssumption
  <1>4. PICK c \in Calls : pc[c] \in {"alias", "claim"} /\ Rt(c) = r
    BY <1>3
  <1>5. lock[r] = c
    BY <1>4 DEF IInv, LockInv, Saving
  <1>. QED
    BY <1>1, <1>2, <1>4, <1>5

\* A runtime that finds no record of a key has the youngest news of it: no outcome
\* of a claim that would be made now exists.
LEMMA FreshClaim ==
  ASSUME IInv, AnswersInv, NEW c \in Calls, BeginClaim(c), NEW s \in Definite
  PROVE  ~Found(Key(c), now, s)
  <1>1. /\ pc[c] = "lock" /\ lock[Rt(c)] = None /\ Existing(c) = None
        /\ Rt(c) \in available
    BY DEF BeginClaim, Enters, ClaimAllowed
  <1>2. /\ Rt(c) \in Runtimes /\ Key(c) \in Keys /\ Here(c) = mem[Rt(c)]
        /\ owner = Rt(c)
    BY <1>1, WriterServes DEF IInv, SlotInv
  <1>3. \A r \in Runtimes : snap[r] = None
    BY <1>1, <1>2, WriterOwns, LockFacts
  <1>4. now \in 0 .. MaxTime /\ now < now + Retention
    BY BoundsAssumption, RetentionAssumption DEF IInv, TypeOK
  <1>5. ~Says(mem[Rt(c)][Key(c)], now, s)
    BY <1>1, <1>2, <1>4, RefTypes, RetentionAssumption
    DEF Existing, Pruned, Prune, IsExpired, Says
  <1>6. ~Visible(Key(c), now, s)
    BY <1>1, <1>2, <1>4, <1>5 DEF AnswersInv, StandInv, Everywhere, Serving
  <1>7. ~Says(disk[Key(c)], now, s)
    <2>1. Says(disk[Key(c)], now, s) => ~IsExpired(disk[Key(c)])
      BY <1>4, RefTypes, RetentionAssumption DEF IsExpired, Says
    <2>. QED
      BY <1>1, <1>2, <1>3, <1>5, <2>1 DEF AnswersInv, MirrorInv
  <1>8. \A r \in Runtimes : ~Recording(r, Key(c))
    BY <1>1, <1>2, NotRecording
  <1>. QED
    BY <1>3, <1>6, <1>7, <1>8 DEF Found, Visible

\* A claim gets one outcome at most.
LEMMA AgreeStep ==
  ASSUME IInv, AnswersInv, [Next]_vars
  PROVE  AgreeInv'
  <1>. DEFINE Records(c, k, t, s) ==
                /\ BeginRecord(c) /\ Key(c) = k
                /\ Here(c)[k].created = t /\ FinalStatus(c) = s
  <1>1. AgreeInv
    BY DEF AnswersInv
  <1>2. ASSUME NEW c \in Calls, NEW d \in Calls, BeginRecord(c), BeginRecord(d)
        PROVE  c = d
    BY <1>2, RefTypes DEF BeginRecord, Goto
  <1>3. ASSUME NEW c \in Calls, BeginRecord(c), NEW s \in Definite
        PROVE  ~Found(Key(c), Here(c)[Key(c)].created, s)
    BY <1>1, <1>3 DEF AgreeInv, BeginRecord, Waiting
  <1>4. ASSUME NEW k \in Keys, NEW t \in 0 .. MaxTime, NEW s \in Definite,
               NEW u \in Definite, Found(k, t, s)', Found(k, t, u)'
        PROVE  s = u
    <2>1. Found(k, t, s) \/ \E c \in Calls : Records(c, k, t, s)
      BY <1>4, FoundMoves
    <2>2. Found(k, t, u) \/ \E c \in Calls : Records(c, k, t, u)
      BY <1>4, FoundMoves
    <2>. QED
      BY <1>1, <1>2, <1>3, <2>1, <2>2 DEF AgreeInv
  <1>5. ASSUME NEW d \in Calls, pc'[d] \in Waiting \cup {"claim"}, NEW s \in Definite
        PROVE  ~Found(Key(d), Here(d)[Key(d)].created, s)'
    <2>1. ASSUME NEW k \in Keys, NEW t, k = Key(d), k = Key(d)',
                 t = (Here(d)[Key(d)].created)', ~Found(k, t, s),
                 \A c \in Calls : ~(BeginRecord(c) /\ Key(c) = k)
          PROVE  ~Found(Key(d), Here(d)[Key(d)].created, s)'
      <3>1. ~Found(k, t, s)'
        BY <2>1, FoundMoves
      <3>. QED
        BY <2>1, <3>1 DEF Found, InHistory
    <2>2. CASE pc[d] \in Waiting \cup {"claim"}
      <3>1. ~Crash
        BY <1>5 DEF Crash, InFlight, Admitted, Waiting
      <3>2. /\ Rt(d)' = Rt(d) /\ Key(d)' = Key(d)
            /\ mem'[Rt(d)][Key(d)].created = mem[Rt(d)][Key(d)].created
        BY <1>5, <2>2, <3>1, AgeKept DEF Waiting
      <3>3. ~Found(Key(d), Here(d)[Key(d)].created, s)
        BY <1>1, <2>2 DEF AgreeInv
      <3>4. Key(d) \in Keys /\ owner = Rt(d)
        BY <2>2, WaitingFacts
      <3>5. ASSUME NEW c \in Calls, BeginRecord(c), Key(c) = Key(d)
            PROVE  FALSE
        <4>1. pc[c] = "finish" /\ pc'[c] = "record"
          BY <3>5, RefTypes DEF BeginRecord, Goto
        <4>2. c # d
          BY <1>5, <4>1 DEF Waiting
        <4>3. Rt(c) = Rt(d)
          BY <3>4, <4>1, WaitingFacts DEF Waiting
        <4>. QED
          BY <2>2, <3>5, <4>1, <4>2, <4>3, IntentByCall DEF IInv, Distinct, Waiting, Admitted
      <3>6. (Here(d)[Key(d)].created)' = Here(d)[Key(d)].created
        BY <3>2 DEF Here
      <3>. QED
        BY <2>1, <3>2, <3>3, <3>4, <3>5, <3>6
    <2>3. CASE pc[d] \notin Waiting \cup {"claim"}
      <3>1. BeginClaim(d)
        BY <1>5, <2>3, ClaimsBegin
      <3>2. /\ mem' = [mem EXCEPT ![Rt(d)] = WithClaim(d)] /\ UNCHANGED req
            /\ pc' = [pc EXCEPT ![d] = "claim"] /\ pc[d] = "lock"
        BY <3>1 DEF BeginClaim, Save, Goto, Enters
      <3>3. Rt(d) \in Runtimes /\ Key(d) \in Keys /\ Key(d)' = Key(d) /\ Rt(d)' = Rt(d)
        BY <3>1, <3>2, WriterServes DEF Key, Rt
      <3>4. (Here(d)[Key(d)].created)' = now
        BY <3>2, <3>3, ClaimLedger, RefTypes DEF Here, IInv, Pending
      <3>5. ~Found(Key(d), now, s)
        BY <3>1, FreshClaim
      <3>6. \A c \in Calls : ~BeginRecord(c)
        BY <3>2, RefTypes DEF BeginRecord, Goto
      <3>. QED
        BY <2>1, <3>3, <3>4, <3>5, <3>6
    <2>. QED
      BY <2>2, <2>3
  <1>. QED
    BY <1>4, <1>5 DEF AgreeInv

\* Only the owner of the slot serves or writes.
OneServes ==
  \A r \in Runtimes : Serving(r) \/ snap[r] # None => owner = r

\* In any state the invariant allows.
LEMMA OwnersServe == IInv => OneServes
  BY ServingFacts, WriterOwns DEF OneServes

\* The same after a step.
LEMMA OwnersServeNext ==
  ASSUME IInv, [Next]_vars
  PROVE  OneServes'
  <1>1. IInv'
    BY IInvStep
  <1>2. IInv' => OneServes'
    BY OwnersServe, PTL
  <1>. QED
    BY <1>1, <1>2

\* What a serving runtime has in memory as an outcome that stands stays there
\* for its retention: nothing overwrites it and pruning spares it.
LEMMA MemStands ==
  ASSUME IInv, AnswersInv, [Next]_vars, NEW r \in Runtimes, Serving(r), Serving(r)',
         NEW k \in Keys, NEW t \in 0 .. MaxTime, NEW s \in Definite,
         now < t + Retention, Everywhere(k, t, s)
  PROVE  Says(mem'[r][k], t, s)
  <1>0. s # "pending" /\ s # "unknown" /\ s # "unsaved"
    BY DEF Definite
  <1>1. Says(mem[r][k], t, s) /\ Says(disk[k], t, s) /\ owner = r
    BY ServingFacts DEF Everywhere
  <1>2. Says(Prune(mem[r])[k], t, s)
    <2>1. ~IsExpired(mem[r][k])
      BY <1>1, RefTypes, BoundsAssumption, RetentionAssumption DEF IsExpired, Says
    <2>. QED
      BY <1>1, <2>1 DEF Prune
  <1>3. CASE \E x \in Runtimes : mem' \in {mem, [mem EXCEPT ![x] = Prune(@)]}
    BY <1>1, <1>2, <1>3, RefTypes
  <1>4. ASSUME NEW c \in Calls, BeginAlias(c)
        PROVE  Says(mem'[r][k], t, s)
    <2>1. /\ pc[c] = "lock" /\ Existing(c) # None /\ NewAlias(c)
          /\ mem' = [mem EXCEPT ![Rt(c)] = WithAlias(c)]
      BY <1>4 DEF BeginAlias, Enters, Matches, Save
    <2>2. /\ Pruned(c)[k] # None =>
               /\ WithAlias(c)[k] # None
               /\ WithAlias(c)[k].created = Pruned(c)[k].created
               /\ WithAlias(c)[k].status = Pruned(c)[k].status
      BY <2>1, AliasLedger DEF IInv
    <2>. QED
      BY <1>1, <1>2, <2>1, <2>2, RefTypes DEF Says, Pruned, Here
  <1>5. ASSUME NEW c \in Calls, BeginClaim(c)
        PROVE  Says(mem'[r][k], t, s)
    <2>1. /\ pc[c] = "lock" /\ Existing(c) = None
          /\ mem' = [mem EXCEPT ![Rt(c)] = WithClaim(c)]
      BY <1>5 DEF BeginClaim, Enters, Save
    <2>2. k # Key(c) => WithClaim(c)[k] = Pruned(c)[k]
      BY <2>1, ClaimLedger DEF IInv
    <2>3. Rt(c) = r => k # Key(c)
      BY <1>2, <2>1 DEF Existing, Pruned, Here, Says
    <2>. QED
      BY <1>1, <1>2, <2>1, <2>2, <2>3, RefTypes DEF Says, Pruned, Here
  <1>6. ASSUME NEW c \in Calls, BeginRecord(c)
        PROVE  Says(mem'[r][k], t, s)
    <2>1. /\ pc[c] = "finish"
          /\ mem' = [mem EXCEPT ![Rt(c)] = WithStatus(Here(c), Key(c), FinalStatus(c))]
      BY <1>6 DEF BeginRecord, Save
    <2>2. Rt(c) = r => k # Key(c)
      BY <1>0, <1>1, <2>1, WaitingFacts DEF Waiting, Intent, Here, Says
    <2>3. k # Key(c) => WithStatus(Here(c), Key(c), FinalStatus(c))[k] = Here(c)[k]
      BY <1>6, WriterServes DEF WithStatus, Ledger
    <2>. QED
      BY <1>1, <2>1, <2>2, <2>3, RefTypes DEF Here
  <1>7. ASSUME NEW c \in Calls, AliasSaved(c) \/ ClaimSaved(c) \/ RecordSaved(c)
        PROVE  Says(mem'[r][k], t, s)
    <2>1. PICK m \in Ledger : mem' = [mem EXCEPT ![Rt(c)] = m] /\ Revises(m, c)
      BY <1>7, EndsSets
    <2>2. /\ m[k] = None <=> Here(c)[k] = None
          /\ m[k] # None => m[k].created = Here(c)[k].created
          /\ m[k] # Here(c)[k] =>
               /\ k = Key(c)
               /\ pc[c] \in {"claim", "record"} \/ m[k].status = Here(c)[k].status
      BY <2>1 DEF Revises
    <2>3. Rt(c) = r => ~(k = Key(c) /\ pc[c] = "claim")
      BY <1>0, <1>1, WaitingFacts DEF Waiting, Intent, Here, Says
    <2>4. ~(k = Key(c) /\ pc[c] = "record")
      BY <1>0, <1>1 DEF AnswersInv, IntentStays, Pending, Says
    <2>. QED
      BY <1>1, <2>1, <2>2, <2>3, <2>4, RefTypes DEF Here, Says
  <1>8. ASSUME NEW x \in Runtimes, Load(x)
        PROVE  FALSE
    <2>1. owner = x /\ phase[x] = "load" /\ lock[x] = x
      BY <1>8 DEF Load, IInv, SlotInv
    <2>2. x = r /\ r \notin available /\ active[r] # {}
      BY <1>1, <2>1 DEF Serving, IInv, SlotInv
    <2>3. PICK c \in Calls : pc[c] \in Admitted /\ Rt(c) = r
      BY <2>2 DEF IInv, OwnerInv
    <2>. QED
      BY <2>1, <2>2, <2>3 DEF IInv, OwnerInv, InFlight
  <1>9. CASE Crash
    BY <1>9 DEF Crash, Serving
  <1>10. ASSUME NEW c \in Calls,
               \/ \E q \in Request : Arrive(c, q)
               \/ Replay(c) \/ Refuse(c) \/ CancelWaiting(c) \/ Preflight(c)
               \/ Transmit(c) \/ Respond(c) \/ CancelFinish(c)
        PROVE  \E x \in Runtimes : mem' \in {mem, [mem EXCEPT ![x] = Prune(@)]}
    BY <1>10, NoWrite DEF Arrive, ledgerVars
  <1>11. ASSUME NEW x \in Runtimes,
               \/ EnterSlot(x) \/ FencePrevious(x) \/ TakeOver(x) \/ LoadFails(x)
               \/ CancelStart(x) \/ Stop(x) \/ LookUp(x) \/ StartSaved(x)
        PROVE  mem' \in {mem, [mem EXCEPT ![x] = Prune(@)]}
    BY <1>11, RefTypes DEF EnterSlot, FencePrevious, TakeOver, LoadFails, CancelStart, Stop,
       LookUp, StartSaved, ledgerVars
  <1>12. CASE Tick \/ UNCHANGED vars
    BY <1>12, <1>3 DEF Tick, vars, ledgerVars
  <1>. QED
    BY <1>3, <1>4, <1>5, <1>6, <1>7, <1>8, <1>9, <1>10, <1>11, <1>12, NextCases
    DEF RuntimeStep, StartStep

\* A runtime that did not serve comes to serve by loading the file.
LEMMA BeginsToServe ==
  ASSUME IInv, [Next]_vars, NEW r \in Runtimes, ~Serving(r), Serving(r)'
  PROVE  Load(r)
  <1>1. r \notin available /\ phase[r] # "save" /\ active[r] = {}
    BY DEF Serving
  <1>2. ASSUME NEW c \in Calls, AliasSaved(c) \/ ClaimSaved(c) \/ RecordSaved(c)
        PROVE  FALSE
    <2>1. Serving(Rt(c)) /\ Rt(c) \in Runtimes
      BY <1>2, WriterServes
    <2>2. r # Rt(c)
      BY <2>1
    <2>3. active'[r] = active[r]
      BY <1>2, <2>1, <2>2, RefTypes DEF AliasSaved, ClaimSaved, RecordSaved, Retire
    <2>4. r \notin available' /\ UNCHANGED phase
      BY <1>1, <1>2, EndsWrite DEF runtimeVars
    <2>. QED
      BY <1>1, <2>3, <2>4 DEF Serving
  <1>3. ASSUME NEW c \in Calls,
               \/ \E q \in Request : Arrive(c, q)
               \/ BeginAlias(c) \/ BeginClaim(c) \/ BeginRecord(c)
               \/ Replay(c) \/ Refuse(c) \/ CancelWaiting(c) \/ Preflight(c)
               \/ Transmit(c) \/ Respond(c) \/ CancelFinish(c)
        PROVE  FALSE
    <2>1. UNCHANGED <<phase, available>>
      BY <1>3, BeginsWrite, NoWrite DEF Arrive, runtimeVars
    <2>2. active'[r] \subseteq active[r]
      BY <1>3, RefTypes DEF Arrive, BeginAlias, BeginClaim, BeginRecord, Replay, Refuse,
         CancelWaiting, Preflight, Transmit, Respond, CancelFinish, Retire
    <2>. QED
      BY <1>1, <2>1, <2>2 DEF Serving
  <1>4. CASE Crash
    BY <1>4 DEF Crash, Serving
  <1>5. ASSUME RuntimeStep, ~Load(r)
        PROVE  FALSE
    <2>1. active'[r] = {}
      BY <1>1, <1>5, RuntimeFrame
    <2>2. \A x \in Runtimes : Load(x) => x # r
      BY <1>5
    <2>3. r \notin available' /\ phase'[r] # "save"
      BY <1>1, <1>5, <2>2, RefTypes
      DEF RuntimeStep, StartStep, EnterSlot, FencePrevious, TakeOver, Load, Fence,
          LoadFails, StartSaved, CancelStart, Stop, LookUp, Tick, vars, Save,
          LeaveStart, runtimeVars
    <2>. QED
      BY <2>1, <2>3 DEF Serving
  <1>. QED
    BY <1>2, <1>3, <1>4, <1>5, NextCases

\* Right after a load the runtime has what the file has, and nobody else serves.
LEMMA LoadStands ==
  ASSUME IInv, [Next]_vars, NEW r \in Runtimes, Load(r), NEW k \in Keys,
         NEW t \in 0 .. MaxTime, NEW s \in Definite, now < t + Retention,
         Says(disk[k], t, s)
  PROVE  Everywhere(k, t, s)'
  <1>1. OneServes'
    BY OwnersServeNext
  <1>2. /\ owner' = r /\ UNCHANGED disk
        /\ mem' = [mem EXCEPT ![r] = Restored(Prune(disk))]
        /\ snap[r] = None
        /\ snap' = snap \/ snap' = [snap EXCEPT ![r] = Restored(Prune(disk))]
    BY NoneAssumption DEF Load, Save, IInv, SlotInv, LockInv
  <1>3. Says(Restored(Prune(disk))[k], t, s)
    <2>1. ~IsExpired(disk[k])
      BY RefTypes, BoundsAssumption, RetentionAssumption DEF IsExpired, Says
    <2>2. s # "pending"
      BY DEF Definite
    <2>. QED
      BY <2>1, <2>2 DEF Prune, Restored, Says
  <1>4. ASSUME NEW x \in Runtimes, snap'[x] # None \/ Serving(x)'
        PROVE  x = r
    BY <1>1, <1>2, <1>4 DEF OneServes
  <1>. QED
    BY <1>2, <1>3, <1>4, RefTypes DEF Everywhere, Says

\* What is just saved is in the file and in the memory of the one that serves.
LEMMA SavedStands ==
  ASSUME IInv, AnswersInv, [Next]_vars, NEW c \in Calls,
         AliasSaved(c) \/ ClaimSaved(c) \/ RecordSaved(c),
         Write(Rt(c), "ok"), UNCHANGED mem, NEW k \in Keys,
         NEW t \in 0 .. MaxTime, NEW s \in Definite, now < t + Retention,
         Says(snap[Rt(c)][k], t, s)
  PROVE  Everywhere(k, t, s)'
  <1>1. OneServes'
    BY OwnersServeNext
  <1>2. /\ Rt(c) \in Runtimes /\ snap[Rt(c)] # None
        /\ snap' = [snap EXCEPT ![Rt(c)] = None]
        /\ disk' = snap[Rt(c)] /\ UNCHANGED owner
    BY EndsWrite DEF Write, runtimeVars
  <1>3. \A x \in Runtimes : snap'[x] = None
    BY <1>2, RefTypes, WriterOwns
  <1>4. \A x \in Runtimes : Serving(x)' => x = Rt(c)
    BY <1>1, <1>2, WriterOwns DEF OneServes
  <1>5. Says(mem[Rt(c)][k], t, s)
    <2>1. ~IsExpired(snap[Rt(c)][k])
      BY RefTypes, BoundsAssumption, RetentionAssumption DEF IsExpired, Says
    <2>. QED
      BY <1>2, <2>1 DEF AnswersInv, MemInv
  <1>. QED
    BY <1>2, <1>3, <1>4, <1>5 DEF Everywhere, Says

\* The clock goes on by one or stands.
LEMMA NowMoves ==
  ASSUME IInv, [Next]_vars
  PROVE  now' \in {now, now + 1}
  <1>1. ASSUME NEW c \in Calls,
               \/ \E q \in Request : Arrive(c, q)
               \/ BeginAlias(c) \/ BeginClaim(c) \/ BeginRecord(c)
               \/ AliasSaved(c) \/ ClaimSaved(c) \/ RecordSaved(c)
               \/ Replay(c) \/ Refuse(c) \/ CancelWaiting(c) \/ Preflight(c)
               \/ Transmit(c) \/ Respond(c) \/ CancelFinish(c)
        PROVE  UNCHANGED now
    BY <1>1, BeginsWrite, EndsWrite, NoWrite DEF Arrive, envVars
  <1>2. RuntimeStep \/ Crash => now' \in {now, now + 1}
    BY DEF RuntimeStep, StartStep, EnterSlot, FencePrevious, TakeOver, Load, LoadFails,
       StartSaved, CancelStart, Stop, LookUp, Tick, vars, envVars, Crash
  <1>. QED
    BY <1>1, <1>2, NextCases

\* A call stops recording when its write ends, if the process lives.
LEMMA RecordsEnd ==
  ASSUME IInv, [Next]_vars, NEW d \in Calls, pc[d] = "record", ~Crash,
         pc'[d] # "record" \/ req'[d] # req[d]
  PROVE  RecordSaved(d)
  <1>1. ASSUME NEW c \in Calls, RecordSaved(c)
        PROVE  c = d
    <2>1. UNCHANGED req /\ \E x : pc' = [pc EXCEPT ![c] = x]
      BY <1>1, EndsWrite
    <2>. QED
      BY <2>1, RefTypes
  <1>2. ASSUME NEW c \in Calls,
               \/ \E q \in Request : Arrive(c, q)
               \/ BeginAlias(c) \/ BeginClaim(c) \/ BeginRecord(c)
               \/ AliasSaved(c) \/ ClaimSaved(c)
               \/ Replay(c) \/ Refuse(c) \/ CancelWaiting(c) \/ Preflight(c)
               \/ Transmit(c) \/ Respond(c) \/ CancelFinish(c)
        PROVE  FALSE
    <2>1. /\ pc[c] # "record" /\ \E x : pc' = [pc EXCEPT ![c] = x]
          /\ UNCHANGED req \/ \E q : req' = [req EXCEPT ![c] = q]
      BY <1>2 DEF Arrive, BeginAlias, BeginClaim, BeginRecord, AliasSaved, ClaimSaved,
         Replay, Refuse, CancelWaiting, Preflight, Transmit, Respond, CancelFinish,
         Enters, Return, Goto
    <2>. QED
      BY <2>1, RefTypes
  <1>3. ~RuntimeStep
    BY RuntimeFrame DEF callVars
  <1>. QED
    BY <1>1, <1>2, <1>3, NextCases

\* What stands for callers stands after the step, as long as its retention lasts.
LEMMA EverywhereKept ==
  ASSUME IInv, AnswersInv, [Next]_vars, NEW k \in Keys, NEW t \in 0 .. MaxTime,
         NEW s \in Definite, now < t + Retention, Everywhere(k, t, s)
  PROVE  Everywhere(k, t, s)'
  <1>1. CASE \E r \in Runtimes : Load(r)
    BY <1>1, LoadStands DEF Everywhere
  <1>2. CASE \A r \in Runtimes : ~Load(r)
    <2>1. Says(disk'[k], t, s)
      BY DiskMoves DEF Everywhere
    <2>2. ASSUME NEW r \in Runtimes, Serving(r)'
          PROVE  Says(mem'[r][k], t, s)
      <3>1. Serving(r)
        BY <1>2, <2>2, BeginsToServe
      <3>. QED
        BY <2>2, <3>1, MemStands
    <2>3. ASSUME NEW r \in Runtimes, snap'[r] # None
          PROVE  Says(snap'[r][k], t, s)
      BY <2>2, <2>3, SnapMoves DEF Everywhere
    <2>. QED
      BY <2>1, <2>2, <2>3 DEF Everywhere
  <1>. QED
    BY <1>1, <1>2

\* What callers can see comes to be so when it is everywhere.
LEMMA StandStep ==
  ASSUME IInv, AnswersInv, [Next]_vars
  PROVE  StandInv'
  <1>1. SUFFICES ASSUME NEW k \in Keys, NEW t \in 0 .. MaxTime, NEW s \in Definite,
                        now' < t + Retention, Visible(k, t, s)'
                 PROVE  Everywhere(k, t, s)'
    BY DEF StandInv, Visible, Everywhere
  <1>2. now < t + Retention
    <2>1. now' \in {now, now + 1}
      BY NowMoves
    <2>. QED
      BY <1>1, <2>1, RefTypes, BoundsAssumption, RetentionAssumption
  <1>3. ASSUME Visible(k, t, s)
        PROVE  Everywhere(k, t, s)'
    BY <1>2, <1>3, EverywhereKept DEF AnswersInv, StandInv
  <1>4. ASSUME NEW c \in Calls, AliasSaved(c) \/ RecordSaved(c), Write(Rt(c), "ok"),
               UNCHANGED mem, Says(snap[Rt(c)][k], t, s)
        PROVE  Everywhere(k, t, s)'
    BY <1>2, <1>4, SavedStands
  <1>5. ASSUME NEW c \in Calls, Replay(c), Key(c) = k, Says(Existing(c), t, s)
        PROVE  Visible(k, t, s)
    <2>1. pc[c] = "lock" /\ lock[Rt(c)] = None
      BY <1>5 DEF Replay, Enters
    <2>2. Rt(c) \in Runtimes /\ Says(mem[Rt(c)][k], t, s)
      BY <1>5, <2>1, CallTypes DEF IInv, Existing, Pruned, Prune, Here, Says
    <2>3. ~Recording(Rt(c), k)
      BY <2>1, LockFacts DEF Recording, Saving
    <2>. QED
      BY <2>2, <2>3 DEF Visible
  <1>6. CASE InHistory(k, t, s)'
    BY <1>3, <1>4, <1>5, <1>6, ToldMoves DEF Visible
  <1>7. ASSUME NEW r \in Runtimes, Says(mem'[r][k], t, s), ~Recording(r, k)'
        PROVE  Everywhere(k, t, s)'
    <2>1. CASE Load(r) /\ Says(disk[k], t, s)
      BY <1>2, <2>1, LoadStands
    <2>2. ASSUME NEW c \in Calls, BeginRecord(c), Rt(c) = r, Key(c) = k
          PROVE  FALSE
      <3>1. pc'[c] = "record" /\ Rt(c)' = r /\ Key(c)' = k
        BY <2>2, RefTypes DEF BeginRecord, Goto, Rt, Key
      <3>. QED
        BY <1>7, <3>1 DEF Recording
    <2>3. CASE Says(mem[r][k], t, s) /\ Recording(r, k)
      <3>1. PICK d \in Calls : pc[d] = "record" /\ Rt(d) = r /\ Key(d) = k
        BY <2>3 DEF Recording
      <3>2. ~Crash
        BY <1>7 DEF Crash, EmptyLedger, Says
      <3>3. pc'[d] # "record" \/ req'[d] # req[d]
        BY <1>7, <3>1 DEF Recording, Rt, Key
      <3>4. RecordSaved(d)
        BY <3>1, <3>2, <3>3, RecordsEnd
      <3>5. CASE Write(Rt(d), "ok") /\ UNCHANGED mem
        <4>1. /\ snap[r] # None
              /\ mem[r][k] = snap[r][k] \/ mem[r][k] = None
          BY <3>1, <3>5 DEF AnswersInv, MemInv, Write
        <4>2. Says(snap[r][k], t, s)
          BY <2>3, <4>1 DEF Says
        <4>. QED
          BY <1>4, <3>1, <3>4, <3>5, <4>2
      <3>6. CASE mem' = [mem EXCEPT ![r] = WithStatus(@, k, "unknown")]
        <4>1. /\ mem[r] \in Ledger /\ "unknown" \in Status
              /\ mem[r][k] # None /\ s # "unknown"
          BY <2>3, RefTypes DEF Status, Says, Definite
        <4>2. WithStatus(mem[r], k, "unknown")[k].status = "unknown"
          BY <4>1, WithStatusLedger
        <4>3. mem'[r] = WithStatus(mem[r], k, "unknown")
          BY <3>6, RefTypes
        <4>. QED
          BY <1>7, <4>1, <4>2, <4>3 DEF Says
      <3>. QED
        BY <3>1, <3>4, <3>5, <3>6 DEF RecordSaved
    <2>4. CASE Says(mem[r][k], t, s) /\ ~Recording(r, k)
      BY <1>3, <2>4 DEF Visible
    <2>. QED
      BY <1>7, <2>1, <2>2, <2>3, <2>4, MemMoves
  <1>. QED
    BY <1>1, <1>6, <1>7 DEF Visible
-----------------------------------------------------------------------------
\* Nothing has been told, and nothing is saved.
LEMMA AnswersInit == Init => AnswersInv
  <1>1. SUFFICES ASSUME Init
                 PROVE  AnswersInv
    OBVIOUS
  <1>2. /\ \A k \in Keys : \A t, s : ~Found(k, t, s)
        /\ \A k \in Keys : \A t, s : ~Visible(k, t, s)
    BY <1>1 DEF Init, Found, Visible, InHistory, Says, EmptyLedger
  <1>. QED
    BY <1>1, <1>2
    DEF Init, AnswersInv, MemInv, StandInv, AgreeInv, MirrorInv, IntentStays, Waiting

\* Every step keeps the invariant.
LEMMA AnswersStep == IInv /\ AnswersInv /\ [Next]_vars => AnswersInv'
  BY MemStep, StandStep, AgreeStep, MirrorStep, IntentStaysStep DEF AnswersInv

\* A caller that was told accepted or failed can rely on it for a retention: the
\* file keeps that outcome, the serving runtime replays it, and no runtime that
\* can still be reached holds the opposite one, whatever reloads, crashes,
\* cancellations and failing writes there are.
THEOREM AnswersStandHolds == Spec => []AnswersStand
  <1>1. ASSUME IInv, AnswersInv
        PROVE  AnswersStand
    <2>1. SUFFICES ASSUME NEW x \in told
                   PROVE  /\ \/ x.created + Retention <= now
                             \/ Says(disk[x.key], x.created, x.status)
                          /\ \A r \in available :
                               \/ x.created + Retention <= now
                               \/ Says(mem[r][x.key], x.created, x.status)
                          /\ \A r \in Runtimes :
                               mem[r][x.key] # None /\ mem[r][x.key].created = x.created =>
                                 mem[r][x.key].status \notin Definite \ {x.status}
      BY DEF AnswersStand, Says
    <2>2. PICK k \in Keys, t \in 0 .. MaxTime, s \in Definite :
            x = [key |-> k, created |-> t, status |-> s]
      BY <1>1 DEF IInv, TypeOK
    <2>3. InHistory(k, t, s)
      BY <2>2 DEF InHistory
    <2>4. now < t + Retention => Everywhere(k, t, s)
      BY <1>1, <2>3 DEF AnswersInv, StandInv, Visible
    <2>5. t + Retention <= now \/ now < t + Retention
      BY <1>1, RefTypes, BoundsAssumption, RetentionAssumption
    <2>6. ASSUME NEW r \in Runtimes, NEW u \in Definite, Says(mem[r][k], t, u)
          PROVE  u = s
      BY <1>1, <2>3, <2>6 DEF AnswersInv, AgreeInv, Found
    <2>7. \A r \in available : r \in Runtimes /\ Serving(r)
      BY <1>1, RefTypes DEF Serving
    <2>. QED
      BY <2>2, <2>4, <2>5, <2>6, <2>7 DEF Everywhere, Says
  <1>2. Spec => [](IInv /\ AnswersInv)
    BY IInvInit, IInvStep, AnswersInit, AnswersStep, PTL DEF Spec
  <1>. QED
    BY <1>1, <1>2, PTL
-----------------------------------------------------------------------------
(***************************************************************************)
(* Receipts are durable                                                    *)
(***************************************************************************)

\* A record of the claim made at t that lists the upload u.
Lists(rec, t, u) == rec # None /\ rec.created = t /\ u \in rec.uploads

\* What the memory of r has of upload u for key k is being saved.
Listing(r, k, u) ==
  \E c \in Calls : /\ pc[c] \in {"claim", "alias"} /\ Rt(c) = r /\ Key(c) = k
                   /\ pc[c] = "alias" => req[c].upload = u

\* Some runtime would give a receipt for the upload u.
Shown(k, t, u) ==
  \E r \in Runtimes : /\ Lists(mem[r][k], t, u) /\ mem[r][k].status # "unsaved"
                      /\ ~Listing(r, k, u)

\* The file lists it, and so do what may replace it and who may serve.
Recorded(k, t, u) ==
  /\ Lists(disk[k], t, u)
  /\ \A r \in Runtimes : snap[r] # None => Lists(snap[r][k], t, u)
  /\ \A r \in Runtimes : Serving(r) => Lists(mem[r][k], t, u)

\* While its retention lasts, an upload that is shown is recorded.
ShownInv ==
  \A k \in Keys, t \in 0 .. MaxTime, u \in Uploads :
    now < t + Retention /\ Shown(k, t, u) => Recorded(k, t, u)

\* The upload of call c is in its record wherever its intent is.
Carried(c) ==
  /\ pc[c] \in Waiting \cup {"claim"} => req[c].upload \in Here(c)[Key(c)].uploads
  /\ pc[c] \in Waiting \cup {"record"} => req[c].upload \in disk[Key(c)].uploads
  /\ snap[Rt(c)] # None => req[c].upload \in snap[Rt(c)][Key(c)].uploads

UploadInv ==
  \A c \in Calls : pc[c] \in Waiting \cup Saving /\ req[c].upload # None => Carried(c)

\* An alias that is being saved is not in the file yet.
AliasInv ==
  \A c \in Calls : pc[c] = "alias" =>
    req[c].upload \in Uploads /\ req[c].upload \notin disk[Key(c)].uploads

\* What is being recorded is an outcome.
RecordInv ==
  \A c \in Calls : pc[c] = "record" => snap[Rt(c)][Key(c)].status # "unsaved"
-----------------------------------------------------------------------------
\* A status says nothing about uploads.
LEMMA StatusUploads ==
  ASSUME NEW m \in Ledger, NEW k \in Keys, NEW s \in Status, NEW x \in Keys, m[x] # None
  PROVE  /\ WithStatus(m, k, s)[x].uploads = m[x].uploads
         /\ Restored(m)[x].uploads = m[x].uploads
  <1>1. m[x] \in Record
    BY DEF Ledger
  <1>2. [m[x] EXCEPT !.status = s].uploads = m[x].uploads
        /\ [m[x] EXCEPT !.status = "unknown"].uploads = m[x].uploads
    BY <1>1 DEF Record
  <1>3. WithStatus(m, k, s)[x] \in {m[x], [m[x] EXCEPT !.status = s]}
    BY DEF WithStatus, Ledger
  <1>4. Restored(m)[x] \in {m[x], [m[x] EXCEPT !.status = "unknown"]}
    BY DEF Restored
  <1>. QED
    BY <1>2, <1>3, <1>4

\* A new alias and a new claim list the upload of the call, and nothing else new.
LEMMA NewUploads ==
  ASSUME TypeOK, LockInv, NEW c \in Calls, pc[c] # "idle"
  PROVE  /\ Existing(c) # None /\ NewAlias(c) =>
              \A k \in Keys : Pruned(c)[k] # None =>
                WithAlias(c)[k].uploads =
                  IF k = Key(c) THEN Pruned(c)[k].uploads \cup {req[c].upload}
                  ELSE Pruned(c)[k].uploads
         /\ WithClaim(c)[Key(c)].uploads = {req[c].upload} \ {None}
  <1>1. /\ Pruned(c) \in [Keys -> Record \cup {None}] /\ Key(c) \in Keys
        /\ Existing(c) \in Record \cup {None} /\ Existing(c) = Pruned(c)[Key(c)]
    BY CallTypes DEF Ledger, Existing
  <1>2. ASSUME Existing(c) # None
        PROVE  [Existing(c) EXCEPT !.uploads = @ \cup {req[c].upload}].uploads
                 = Existing(c).uploads \cup {req[c].upload}
    BY <1>1, <1>2 DEF Record
  <1>3. \A k \in Keys : WithAlias(c)[k] =
          IF k = Key(c) THEN [Existing(c) EXCEPT !.uploads = @ \cup {req[c].upload}]
          ELSE Pruned(c)[k]
    BY <1>1 DEF WithAlias
  <1>4. WithClaim(c)[Key(c)] = NewRecord(c)
    BY <1>1 DEF WithClaim
  <1>5. WithClaim(c)[Key(c)].uploads = {req[c].upload} \ {None}
    BY <1>4 DEF NewRecord
  <1>6. ASSUME Existing(c) # None, NEW k \in Keys
        PROVE  WithAlias(c)[k].uploads =
                 IF k = Key(c) THEN Pruned(c)[k].uploads \cup {req[c].upload}
                 ELSE Pruned(c)[k].uploads
    <2>1. CASE k = Key(c)
      BY <1>1, <1>2, <1>3, <1>6, <2>1
    <2>2. CASE k # Key(c)
      BY <1>3, <2>2
    <2>. QED
      BY <2>1, <2>2
  <1>. QED
    BY <1>5, <1>6

\* A withdrawn alias is no longer listed; all else is.
LEMMA WithdrawnUploads ==
  ASSUME NEW m \in Ledger, NEW c \in Calls, Key(c) \in Keys, NEW k \in Keys, m[k] # None
  PROVE  Withdrawn(m, c)[k].uploads =
           IF k = Key(c) THEN m[k].uploads \ {req[c].upload} ELSE m[k].uploads
  <1>1. m \in [Keys -> Record \cup {None}] /\ m[k] \in Record
    BY DEF Ledger
  <1>2. [m[k] EXCEPT !.uploads = @ \ {req[c].upload}].uploads = m[k].uploads \ {req[c].upload}
    BY <1>1 DEF Record
  <1>3. k = Key(c) => Withdrawn(m, c)[k] = [m[k] EXCEPT !.uploads = @ \ {req[c].upload}]
    BY <1>1 DEF Withdrawn
  <1>4. k # Key(c) => Withdrawn(m, c)[k] = m[k]
    BY <1>1 DEF Withdrawn
  <1>. QED
    BY <1>2, <1>3, <1>4
-----------------------------------------------------------------------------
\* What a step makes of the memory of a runtime that does not load.
LEMMA MemCases ==
  ASSUME IInv, [Next]_vars, ~Crash, NEW r \in Runtimes, ~Load(r)
  PROVE  \/ mem'[r] \in {mem[r], Prune(mem[r])}
         \/ \E c \in Calls :
              /\ Rt(c) = r /\ Key(c) \in Keys /\ mem[r] \in Ledger
              /\ \/ BeginAlias(c) /\ mem'[r] = WithAlias(c)
                 \/ BeginClaim(c) /\ mem'[r] = WithClaim(c)
                 \/ /\ BeginRecord(c) /\ FinalStatus(c) \in Status
                    /\ mem'[r] = WithStatus(mem[r], Key(c), FinalStatus(c))
                 \/ AliasSaved(c) /\ mem'[r] = Withdrawn(mem[r], c)
                 \/ /\ ClaimSaved(c) \/ RecordSaved(c)
                    /\ \E s \in {"unknown", "unsaved"} :
                         mem'[r] = WithStatus(mem[r], Key(c), s)
  <1>. DEFINE Goal == \/ mem'[r] \in {mem[r], Prune(mem[r])}
                      \/ \E c \in Calls :
                           /\ Rt(c) = r /\ Key(c) \in Keys /\ mem[r] \in Ledger
                           /\ \/ BeginAlias(c) /\ mem'[r] = WithAlias(c)
                              \/ BeginClaim(c) /\ mem'[r] = WithClaim(c)
                              \/ /\ BeginRecord(c) /\ FinalStatus(c) \in Status
                                 /\ mem'[r] = WithStatus(mem[r], Key(c), FinalStatus(c))
                              \/ AliasSaved(c) /\ mem'[r] = Withdrawn(mem[r], c)
                              \/ /\ ClaimSaved(c) \/ RecordSaved(c)
                                 /\ \E s \in {"unknown", "unsaved"} :
                                      mem'[r] = WithStatus(mem[r], Key(c), s)
  <1>1. CASE \E x \in Runtimes : mem' \in {mem, [mem EXCEPT ![x] = Prune(@)]}
    BY <1>1, RefTypes
  <1>2. ASSUME NEW c \in Calls, NEW m, mem' = [mem EXCEPT ![Rt(c)] = m], Rt(c) # r
        PROVE  Goal
    BY <1>2, RefTypes
  <1>3. ASSUME NEW c \in Calls, BeginAlias(c) \/ BeginClaim(c)
        PROVE  Goal
    <2>1. Rt(c) \in Runtimes /\ Key(c) \in Keys
      BY <1>3, BeginsWrite
    <2>2. \/ BeginAlias(c) /\ mem' = [mem EXCEPT ![Rt(c)] = WithAlias(c)]
          \/ BeginClaim(c) /\ mem' = [mem EXCEPT ![Rt(c)] = WithClaim(c)]
      BY <1>3 DEF BeginAlias, BeginClaim, Save
    <2>3. mem \in [Runtimes -> Ledger]
      BY RefTypes
    <2>. QED
      BY <1>2, <2>1, <2>2, <2>3
  <1>4. ASSUME NEW c \in Calls, BeginRecord(c)
        PROVE  Goal
    <2>1. /\ pc[c] = "finish" /\ outcome[c] \in Outcomes \ {"none"}
          /\ mem' = [mem EXCEPT ![Rt(c)] = WithStatus(Here(c), Key(c), FinalStatus(c))]
      BY <1>4, RefTypes DEF BeginRecord, Save, IInv, OutcomeInv
    <2>2. FinalStatus(c) \in Status
      BY <2>1 DEF FinalStatus, Outcomes, Status
    <2>3. Rt(c) \in Runtimes /\ Here(c) = mem[Rt(c)] /\ Here(c) \in Ledger /\ Key(c) \in Keys
      BY <1>4, WriterServes
    <2>4. mem \in [Runtimes -> Ledger]
      BY RefTypes
    <2>. QED
      BY <1>2, <1>4, <2>1, <2>2, <2>3, <2>4
  <1>5. ASSUME NEW c \in Calls, AliasSaved(c) \/ ClaimSaved(c) \/ RecordSaved(c)
        PROVE  Goal
    <2>1. \/ UNCHANGED mem
          \/ AliasSaved(c) /\ mem' = [mem EXCEPT ![Rt(c)] = Withdrawn(mem[Rt(c)], c)]
          \/ /\ ClaimSaved(c) \/ RecordSaved(c)
             /\ \E u \in {"unknown", "unsaved"} :
                  mem' = [mem EXCEPT ![Rt(c)] = WithStatus(mem[Rt(c)], Key(c), u)]
      BY <1>5 DEF AliasSaved, ClaimSaved, RecordSaved
    <2>2. Rt(c) \in Runtimes /\ Key(c) \in Keys
      BY <1>5, WriterServes
    <2>3. mem \in [Runtimes -> Ledger]
      BY RefTypes
    <2>. QED
      BY <1>2, <2>1, <2>2, <2>3
  <1>6. ASSUME NEW x \in Runtimes, Load(x)
        PROVE  Goal
    <2>1. x # r /\ \E m : mem' = [mem EXCEPT ![x] = m]
      BY <1>6 DEF Load, Save
    <2>. QED
      BY <2>1, RefTypes
  <1>7. ASSUME NEW c \in Calls,
               \/ \E q \in Request : Arrive(c, q)
               \/ Replay(c) \/ Refuse(c) \/ CancelWaiting(c) \/ Preflight(c)
               \/ Transmit(c) \/ Respond(c) \/ CancelFinish(c)
        PROVE  \E x \in Runtimes : mem' \in {mem, [mem EXCEPT ![x] = Prune(@)]}
    BY <1>7, NoWrite DEF Arrive, ledgerVars
  <1>8. ASSUME NEW x \in Runtimes,
               \/ EnterSlot(x) \/ FencePrevious(x) \/ TakeOver(x) \/ LoadFails(x)
               \/ CancelStart(x) \/ Stop(x) \/ LookUp(x) \/ StartSaved(x)
        PROVE  mem' \in {mem, [mem EXCEPT ![x] = Prune(@)]}
    BY <1>8, RefTypes DEF EnterSlot, FencePrevious, TakeOver, LoadFails, CancelStart, Stop,
       LookUp, StartSaved, ledgerVars
  <1>9. CASE Tick \/ UNCHANGED vars
    BY <1>9, <1>1 DEF Tick, vars, ledgerVars
  <1>. QED
    BY <1>1, <1>3, <1>4, <1>5, <1>6, <1>7, <1>8, <1>9, NextCases
    DEF RuntimeStep, StartStep

\* An upload that is listed stays listed until its record expires or the alias is
\* withdrawn.
LEMMA ListsForward ==
  ASSUME IInv, [Next]_vars, ~Crash, NEW r \in Runtimes, ~Load(r), NEW k \in Keys, NEW t, NEW u,
         Lists(mem[r][k], t, u), ~IsExpired(mem[r][k])
  PROVE  \/ Lists(mem'[r][k], t, u)
         \/ \E c \in Calls : AliasSaved(c) /\ Rt(c) = r /\ Key(c) = k /\ req[c].upload = u
  <1>1. mem[r] \in Ledger
    BY RefTypes
  <1>2. Lists(Prune(mem[r])[k], t, u)
    BY DEF Prune, Lists
  <1>3. ASSUME NEW c \in Calls, Rt(c) = r, BeginAlias(c), mem'[r] = WithAlias(c)
        PROVE  Lists(mem'[r][k], t, u)
    <2>1. pc[c] # "idle" /\ Existing(c) # None /\ NewAlias(c)
      BY <1>3 DEF BeginAlias, Enters, Matches
    <2>2. Pruned(c) = Prune(mem[r])
      BY <1>3 DEF Pruned, Here
    <2>3. TypeOK /\ LockInv
      BY DEF IInv
    <2>4. /\ WithAlias(c)[k] = None <=> Pruned(c)[k] = None
          /\ Pruned(c)[k] # None => WithAlias(c)[k].created = Pruned(c)[k].created
      BY <2>1, <2>3, AliasLedger
    <2>5. Pruned(c)[k] # None => Pruned(c)[k].uploads \subseteq WithAlias(c)[k].uploads
      BY <2>1, <2>3, NewUploads
    <2>. QED
      BY <1>2, <1>3, <2>2, <2>4, <2>5 DEF Lists
  <1>4. ASSUME NEW c \in Calls, Rt(c) = r, BeginClaim(c), mem'[r] = WithClaim(c)
        PROVE  Lists(mem'[r][k], t, u)
    <2>1. pc[c] # "idle" /\ Existing(c) = None /\ Pruned(c) = Prune(mem[r])
      BY <1>4 DEF BeginClaim, Enters, Pruned, Here
    <2>2. k # Key(c)
      BY <1>2, <2>1 DEF Existing, Lists
    <2>3. WithClaim(c)[k] = Pruned(c)[k]
      BY <2>1, <2>2, ClaimLedger DEF IInv
    <2>. QED
      BY <1>2, <1>4, <2>1, <2>3
  <1>5. ASSUME NEW x \in Keys, NEW s \in Status, mem'[r] = WithStatus(mem[r], x, s)
        PROVE  Lists(mem'[r][k], t, u)
    BY <1>1, <1>5, WithStatusLedger, StatusUploads DEF Lists
  <1>6. ASSUME NEW c \in Calls, Rt(c) = r, Key(c) \in Keys, AliasSaved(c),
               mem'[r] = Withdrawn(mem[r], c), ~(Key(c) = k /\ req[c].upload = u)
        PROVE  Lists(mem'[r][k], t, u)
    <2>1. mem[r][k] # None /\ mem[r][k].created = t /\ u \in mem[r][k].uploads
      BY DEF Lists
    <2>2. Withdrawn(mem[r], c)[k] # None /\ Withdrawn(mem[r], c)[k].created = t
      BY <1>1, <1>6, <2>1, WithdrawnLedger
    <2>3. Withdrawn(mem[r], c)[k].uploads =
            IF k = Key(c) THEN mem[r][k].uploads \ {req[c].upload} ELSE mem[r][k].uploads
      BY <1>1, <1>6, <2>1, WithdrawnUploads
    <2>4. u \in Withdrawn(mem[r], c)[k].uploads
      BY <1>6, <2>1, <2>3
    <2>. QED
      BY <1>6, <2>2, <2>4 DEF Lists
  <1>7. "unknown" \in Status /\ "unsaved" \in Status
    BY DEF Status
  <1>. QED
    BY <1>2, <1>3, <1>4, <1>5, <1>6, <1>7, MemCases

\* An upload comes to be listed by a load, a claim or an alias.
LEMMA ListsBackward ==
  ASSUME IInv, [Next]_vars, ~Crash, NEW r \in Runtimes, NEW k \in Keys, NEW t, NEW u,
         Lists(mem'[r][k], t, u)
  PROVE  \/ ~Load(r) /\ Lists(mem[r][k], t, u)
         \/ Load(r) /\ Lists(disk[k], t, u)
         \/ \E c \in Calls :
              /\ Rt(c) = r /\ Key(c) = k
              /\ BeginClaim(c) \/ (BeginAlias(c) /\ req[c].upload = u)
  <1>1. mem[r] \in Ledger
    BY RefTypes
  <1>2. \A x : Lists(Prune(mem[r])[k], t, x) => Lists(mem[r][k], t, x)
    BY DEF Prune, Lists
  <1>3. ASSUME NEW c \in Calls, Rt(c) = r, BeginAlias(c), mem'[r] = WithAlias(c),
               ~(Key(c) = k /\ req[c].upload = u)
        PROVE  Lists(mem[r][k], t, u)
    <2>1. pc[c] # "idle" /\ Existing(c) # None /\ NewAlias(c)
      BY <1>3 DEF BeginAlias, Enters, Matches
    <2>2. Pruned(c) = Prune(mem[r])
      BY <1>3 DEF Pruned, Here
    <2>3. TypeOK /\ LockInv
      BY DEF IInv
    <2>4. /\ WithAlias(c)[k] = None <=> Pruned(c)[k] = None
          /\ Pruned(c)[k] # None => WithAlias(c)[k].created = Pruned(c)[k].created
      BY <2>1, <2>3, AliasLedger
    <2>5. Pruned(c)[k] # None =>
            WithAlias(c)[k].uploads =
              IF k = Key(c) THEN Pruned(c)[k].uploads \cup {req[c].upload}
              ELSE Pruned(c)[k].uploads
      BY <2>1, <2>3, NewUploads
    <2>6. Lists(Pruned(c)[k], t, u)
      BY <1>3, <2>4, <2>5 DEF Lists
    <2>. QED
      BY <1>2, <2>2, <2>6
  <1>4. ASSUME NEW c \in Calls, Rt(c) = r, BeginClaim(c), mem'[r] = WithClaim(c), Key(c) # k
        PROVE  Lists(mem[r][k], t, u)
    <2>1. pc[c] # "idle" /\ Pruned(c) = Prune(mem[r])
      BY <1>4 DEF BeginClaim, Enters, Pruned, Here
    <2>2. WithClaim(c)[k] = Pruned(c)[k]
      BY <1>4, <2>1, ClaimLedger DEF IInv
    <2>. QED
      BY <1>2, <1>4, <2>1, <2>2
  <1>5. ASSUME NEW x \in Keys, NEW s \in Status, mem'[r] = WithStatus(mem[r], x, s)
        PROVE  Lists(mem[r][k], t, u)
    BY <1>1, <1>5, WithStatusLedger, StatusUploads DEF Lists
  <1>6. ASSUME NEW c \in Calls, Key(c) \in Keys, mem'[r] = Withdrawn(mem[r], c)
        PROVE  Lists(mem[r][k], t, u)
    <2>1. mem[r][k] # None
      BY <1>1, <1>6, WithdrawnLedger DEF Lists
    <2>2. Withdrawn(mem[r], c)[k].created = mem[r][k].created
      BY <1>1, <1>6, <2>1, WithdrawnLedger
    <2>3. Withdrawn(mem[r], c)[k].uploads =
            IF k = Key(c) THEN mem[r][k].uploads \ {req[c].upload} ELSE mem[r][k].uploads
      BY <1>1, <1>6, <2>1, WithdrawnUploads
    <2>4. Withdrawn(mem[r], c)[k].uploads \subseteq mem[r][k].uploads
      BY <2>3
    <2>. QED
      BY <1>6, <2>1, <2>2, <2>4 DEF Lists
  <1>7. CASE Load(r)
    <2>1. mem'[r] = Restored(Prune(disk))
      BY <1>7, RefTypes DEF Load, Save
    <2>2. Prune(disk) \in Ledger
      BY RefTypes, PruneLedger
    <2>3. Prune(disk)[k] # None
      BY <2>1, <2>2, RestoredLedger DEF Lists
    <2>4. Lists(Prune(disk)[k], t, u)
      BY <2>1, <2>2, <2>3, RestoredLedger, StatusUploads DEF Lists, Status
    <2>. QED
      BY <1>7, <2>4 DEF Prune, Lists
  <1>8. "unknown" \in Status /\ "unsaved" \in Status
    BY DEF Status
  <1>9. CASE ~Load(r)
    BY <1>2, <1>3, <1>4, <1>5, <1>6, <1>8, <1>9, MemCases
  <1>. QED
    BY <1>7, <1>9

\* A record that was not saved is never anything else.
LEMMA UnsavedStays ==
  ASSUME IInv, MemInv, RecordInv, [Next]_vars, ~Crash, NEW r \in Runtimes, ~Load(r),
         NEW k \in Keys, mem[r][k] # None, mem[r][k].status = "unsaved", mem'[r][k] # None,
         ~ \E c \in Calls : BeginClaim(c) /\ Rt(c) = r /\ Key(c) = k
  PROVE  mem'[r][k].status = "unsaved"
  <1>1. mem[r] \in Ledger
    BY RefTypes
  <1>2. Prune(mem[r])[k] \in {mem[r][k], None}
    BY DEF Prune
  <1>3. ASSUME NEW c \in Calls, Rt(c) = r, BeginAlias(c), mem'[r] = WithAlias(c)
        PROVE  mem'[r][k].status = "unsaved"
    <2>1. pc[c] # "idle" /\ Existing(c) # None /\ NewAlias(c) /\ Pruned(c) = Prune(mem[r])
      BY <1>3 DEF BeginAlias, Enters, Matches, Pruned, Here
    <2>2. TypeOK /\ LockInv
      BY DEF IInv
    <2>3. /\ WithAlias(c)[k] = None <=> Pruned(c)[k] = None
          /\ Pruned(c)[k] # None => WithAlias(c)[k].status = Pruned(c)[k].status
      BY <2>1, <2>2, AliasLedger
    <2>. QED
      BY <1>2, <1>3, <2>1, <2>3
  <1>4. ASSUME NEW c \in Calls, Rt(c) = r, Key(c) # k, BeginClaim(c), mem'[r] = WithClaim(c)
        PROVE  mem'[r][k].status = "unsaved"
    <2>1. pc[c] # "idle" /\ Pruned(c) = Prune(mem[r])
      BY <1>4 DEF BeginClaim, Enters, Pruned, Here
    <2>2. WithClaim(c)[k] = Pruned(c)[k]
      BY <1>4, <2>1, ClaimLedger DEF IInv
    <2>. QED
      BY <1>2, <1>4, <2>1, <2>2
  <1>5. ASSUME NEW c \in Calls, Rt(c) = r, Key(c) \in Keys,
               BeginRecord(c) \/ ClaimSaved(c) \/ RecordSaved(c),
               NEW s \in Status, mem'[r] = WithStatus(mem[r], Key(c), s)
        PROVE  mem'[r][k].status = "unsaved"
    <2>1. k # Key(c)
      <3>1. CASE BeginRecord(c) \/ ClaimSaved(c)
        <4>1. pc[c] \in Waiting \cup {"claim"}
          BY <3>1 DEF BeginRecord, ClaimSaved, Waiting
        <4>2. Here(c)[Key(c)].status = "pending"
          BY <4>1 DEF IInv, IntentInv
        <4>. QED
          BY <1>5, <4>2 DEF Here
      <3>2. CASE RecordSaved(c)
        <4>1. pc[c] = "record" /\ snap[r] # None
          BY <1>5, <3>2, EndsWrite DEF RecordSaved
        <4>2. mem[r][k] = snap[r][k]
          BY <4>1 DEF MemInv
        <4>. QED
          BY <1>5, <4>1, <4>2 DEF RecordInv
      <3>. QED
        BY <1>5, <3>1, <3>2
    <2>2. WithStatus(mem[r], Key(c), s)[k] = mem[r][k]
      BY <1>1, <1>5, <2>1, WithStatusLedger
    <2>. QED
      BY <1>5, <2>2
  <1>6. ASSUME NEW c \in Calls, Key(c) \in Keys, mem'[r] = Withdrawn(mem[r], c)
        PROVE  mem'[r][k].status = "unsaved"
    BY <1>1, <1>6, WithdrawnLedger
  <1>7. "unknown" \in Status /\ "unsaved" \in Status
    BY DEF Status
  <1>. QED
    BY <1>2, <1>3, <1>4, <1>5, <1>6, <1>7, MemCases

\* A write ends, for a call that was saving, with the step of that call; until then
\* nobody else touches the file or the snapshot.
LEMMA SavingEnds ==
  ASSUME IInv, [Next]_vars, ~Crash, NEW d \in Calls, pc[d] \in Saving
  PROVE  \/ AliasSaved(d) \/ ClaimSaved(d) \/ RecordSaved(d)
         \/ /\ pc'[d] = pc[d] /\ req'[d] = req[d] /\ disk' = disk
            /\ snap'[Rt(d)] = snap[Rt(d)]
            /\ mem'[Rt(d)] \in {mem[Rt(d)], Prune(mem[Rt(d)])}
  <1>. DEFINE Alone == /\ pc'[d] = pc[d] /\ req'[d] = req[d] /\ disk' = disk
                       /\ snap'[Rt(d)] = snap[Rt(d)]
                       /\ mem'[Rt(d)] \in {mem[Rt(d)], Prune(mem[Rt(d)])}
  <1>1. /\ Rt(d) \in Runtimes /\ Key(d) \in Keys
        /\ lock[Rt(d)] = d /\ lock[Rt(d)] # None
        /\ phase[Rt(d)] = "up" /\ owner = Rt(d)
    BY CallTypes, NoneAssumption
    DEF IInv, OwnerInv, LockInv, Saving, InFlight, Admitted
  <1>2. ASSUME NEW c \in Calls, AliasSaved(c) \/ ClaimSaved(c) \/ RecordSaved(c)
        PROVE  c = d
    <2>1. pc[c] \in Saving /\ Rt(c) \in Runtimes /\ snap[Rt(c)] # None
      BY <1>2, EndsWrite
    <2>2. Rt(c) = Rt(d)
      BY <1>1, <2>1, WriterOwns
    <2>. QED
      BY <1>1, <2>1, <2>2 DEF IInv, LockInv
  <1>3. ASSUME NEW c \in Calls, BeginAlias(c) \/ BeginClaim(c) \/ BeginRecord(c)
        PROVE  Alone
    <2>1. PICK m \in Ledger : /\ mem' = [mem EXCEPT ![Rt(c)] = m]
                              /\ snap' = [snap EXCEPT ![Rt(c)] = m]
      BY <1>3, BeginsSaves
    <2>2. /\ pc[c] \in {"lock", "finish"} /\ lock[Rt(c)] = None /\ UNCHANGED <<disk, req>>
          /\ \E x : pc' = [pc EXCEPT ![c] = x]
      BY <1>3, BeginsWrite
    <2>3. Rt(c) # Rt(d) /\ c # d
      BY <1>1, <2>2 DEF Saving
    <2>. QED
      BY <2>1, <2>2, <2>3, <1>1, RefTypes
  <1>4. ASSUME NEW c \in Calls, NEW q \in Request, Arrive(c, q)
        PROVE  Alone
    <2>1. c # d
      BY <1>4 DEF Arrive, Saving
    <2>. QED
      BY <1>4, <2>1, RefTypes DEF Arrive, Goto, ledgerVars
  <1>5. ASSUME NEW c \in Calls,
               \/ Replay(c) \/ Refuse(c) \/ CancelWaiting(c) \/ Preflight(c)
               \/ Transmit(c) \/ Respond(c) \/ CancelFinish(c)
        PROVE  Alone
    <2>1. /\ pc[c] \in {"lock", "send", "sent", "finish"}
          /\ \E x : pc' = [pc EXCEPT ![c] = x]
          /\ mem' \in {mem, [mem EXCEPT ![Rt(c)] = Prune(@)]}
          /\ UNCHANGED <<disk, snap, req>>
      BY <1>5, NoWrite
    <2>2. c # d
      BY <2>1 DEF Saving
    <2>. QED
      BY <1>1, <2>1, <2>2, RefTypes
  <1>6. ASSUME RuntimeStep
        PROVE  Alone
    <2>1. UNCHANGED <<pc, req>>
      BY <1>6, RuntimeFrame DEF callVars
    <2>2. \A r \in Runtimes : phase[r] \notin {"load", "save"}
      BY <1>1 DEF IInv, SlotInv
    <2>3. /\ UNCHANGED <<disk, snap>>
          /\ mem' = mem \/ \E r \in Runtimes : mem' = [mem EXCEPT ![r] = Prune(mem[r])]
      BY <1>6, <2>2
      DEF RuntimeStep, StartStep, EnterSlot, FencePrevious, TakeOver, Load,
          LoadFails, StartSaved, CancelStart, Stop, LookUp, Tick, vars, ledgerVars
    <2>. QED
      BY <1>1, <2>1, <2>3, RefTypes
  <1>. QED
    BY <1>2, <1>3, <1>4, <1>5, <1>6, NextCases
-----------------------------------------------------------------------------
\* Where a call stands that has an upload to care for, and how it came there.
LEMMA CallMoves ==
  ASSUME IInv, [Next]_vars, ~Crash, NEW c \in Calls, pc'[c] \in Waiting \cup Saving
  PROVE  \/ /\ pc[c] \in Waiting /\ pc'[c] \in Waiting /\ req'[c] = req[c]
         \/ BeginAlias(c) \/ BeginClaim(c) \/ BeginRecord(c)
         \/ ClaimSaved(c) /\ Write(Rt(c), "ok") /\ UNCHANGED mem /\ pc'[c] = "send"
         \/ pc[c] \in Saving /\ pc'[c] = pc[c] /\ req'[c] = req[c]
  <1>. DEFINE Same == \/ pc[c] \in Waiting /\ pc'[c] \in Waiting /\ req'[c] = req[c]
                      \/ pc[c] \in Saving /\ pc'[c] = pc[c] /\ req'[c] = req[c]
  <1>1. ASSUME NEW d \in Calls, d # c, NEW x, pc' = [pc EXCEPT ![d] = x],
               UNCHANGED req \/ \E q : req' = [req EXCEPT ![d] = q]
        PROVE  Same
    BY <1>1, RefTypes DEF Waiting, Saving
  <1>2. ASSUME NEW d \in Calls, d # c, BeginAlias(d) \/ BeginClaim(d) \/ BeginRecord(d)
        PROVE  Same
    BY <1>1, <1>2, BeginsWrite
  <1>3. ASSUME NEW d \in Calls, AliasSaved(d) \/ ClaimSaved(d) \/ RecordSaved(d)
        PROVE  \/ Same
               \/ ClaimSaved(c) /\ Write(Rt(c), "ok") /\ UNCHANGED mem /\ pc'[c] = "send"
    <2>1. CASE d # c
      BY <1>1, <1>3, <2>1, EndsWrite
    <2>2. CASE d = c
      <3>1. pc'[c] # "done"
        BY DEF Waiting, Saving
      <3>2. pc' # [pc EXCEPT ![c] = "done"]
        BY <3>1, RefTypes
      <3>3. ClaimSaved(c)
        BY <1>3, <2>2, <3>2 DEF AliasSaved, RecordSaved, Return, Goto
      <3>4. Write(Rt(c), "ok") /\ UNCHANGED mem /\ pc' = [pc EXCEPT ![c] = "send"]
        BY <3>2, <3>3 DEF ClaimSaved, Return, Goto
      <3>. QED
        BY <3>3, <3>4, RefTypes
    <2>. QED
      BY <2>1, <2>2
  <1>4. ASSUME NEW d \in Calls,
               \/ \E q \in Request : Arrive(d, q)
               \/ Replay(d) \/ Refuse(d) \/ CancelWaiting(d) \/ Preflight(d)
               \/ Transmit(d) \/ Respond(d) \/ CancelFinish(d)
        PROVE  Same
    <2>1. CASE \E q \in Request : Arrive(d, q)
      <3>1. /\ \E q : req' = [req EXCEPT ![d] = q]
            /\ pc' = [pc EXCEPT ![d] = "lock"]
        BY <2>1 DEF Arrive, Goto
      <3>2. d # c
        BY <3>1, RefTypes DEF Waiting, Saving
      <3>. QED
        BY <1>1, <3>1, <3>2
    <2>2. CASE ~ \E q \in Request : Arrive(d, q)
      <3>1. /\ UNCHANGED req
            /\ \/ pc' = [pc EXCEPT ![d] = "done"]
               \/ pc[d] = "send" /\ pc' = [pc EXCEPT ![d] = "sent"]
               \/ pc[d] \in {"send", "sent"} /\ pc' = [pc EXCEPT ![d] = "finish"]
        BY <1>4, <2>2, NoWrite
      <3>2. CASE d # c
        BY <1>1, <3>1, <3>2
      <3>3. CASE d = c
        BY <3>1, <3>3, RefTypes DEF Waiting, Saving
      <3>. QED
        BY <3>2, <3>3
    <2>. QED
      BY <2>1, <2>2
  <1>5. CASE RuntimeStep
    BY <1>5, RuntimeFrame DEF callVars
  <1>. QED
    BY <1>2, <1>3, <1>4, <1>5, NextCases

\* An upload comes to be shown when it is loaded, or when its saving is over.
LEMMA ShownMoves ==
  ASSUME IInv, MemInv, RecordInv, [Next]_vars, ~Crash, NEW r \in Runtimes,
         NEW k \in Keys, NEW t, NEW u,
         Lists(mem'[r][k], t, u), mem'[r][k].status # "unsaved", ~Listing(r, k, u)'
  PROVE  \/ Shown(k, t, u)
         \/ Load(r) /\ Lists(disk[k], t, u)
         \/ \E d \in Calls : /\ AliasSaved(d) \/ ClaimSaved(d)
                             /\ Rt(d) = r /\ disk' = snap[r]
                             /\ Lists(mem[r][k], t, u)
  <1>1. ASSUME NEW c \in Calls, Rt(c) = r, Key(c) = k,
               BeginClaim(c) \/ (BeginAlias(c) /\ req[c].upload = u)
        PROVE  FALSE
    <2>1. pc'[c] \in {"claim", "alias"} /\ req' = req
      BY <1>1, RefTypes DEF BeginClaim, BeginAlias, Goto
    <2>2. pc'[c] = "alias" => req[c].upload = u
      BY <1>1, RefTypes DEF BeginClaim, BeginAlias, Goto
    <2>. QED
      BY <1>1, <2>1, <2>2 DEF Listing, Rt, Key
  <1>2. CASE ~Load(r) /\ Lists(mem[r][k], t, u)
    <2>1. mem[r][k].status # "unsaved"
      BY <1>1, <1>2, UnsavedStays DEF Lists
    <2>2. CASE ~Listing(r, k, u)
      BY <1>2, <2>1, <2>2 DEF Shown
    <2>3. CASE Listing(r, k, u)
      <3>1. PICK d \in Calls : /\ pc[d] \in {"claim", "alias"} /\ Rt(d) = r /\ Key(d) = k
                               /\ pc[d] = "alias" => req[d].upload = u
        BY <2>3 DEF Listing
      <3>2. pc'[d] = pc[d] /\ req'[d] = req[d] => Listing(r, k, u)'
        BY <3>1 DEF Listing, Rt, Key
      <3>3. AliasSaved(d) \/ ClaimSaved(d)
        BY <3>1, <3>2, SavingEnds DEF Saving, RecordSaved
      <3>4. mem[r] \in Ledger /\ Key(d) \in Keys /\ mem \in [Runtimes -> Ledger]
        BY <3>1, RefTypes
      <3>5. CASE AliasSaved(d)
        <4>1. mem' # [mem EXCEPT ![r] = Withdrawn(mem[r], d)]
          <5>1. u \notin Withdrawn(mem[r], d)[k].uploads
            <6>1. pc[d] = "alias" /\ req[d].upload = u
              BY <3>1, <3>5 DEF AliasSaved
            <6>2. mem[r][k] # None
              BY <1>2 DEF Lists
            <6>3. Withdrawn(mem[r], d)[k].uploads = mem[r][k].uploads \ {u}
              BY <3>1, <3>4, <6>1, <6>2, WithdrawnUploads
            <6>. QED
              BY <6>3
          <5>. QED
            BY <3>4, <5>1 DEF Lists
        <4>2. disk' = snap[r]
          BY <3>1, <3>5, <4>1 DEF AliasSaved, Write
        <4>. QED
          BY <1>2, <3>1, <3>5, <4>2
      <3>6. CASE ClaimSaved(d)
        <4>1. mem' # [mem EXCEPT ![r] = WithStatus(mem[r], k, "unsaved")]
          <5>1. WithStatus(mem[r], k, "unsaved")[k].status = "unsaved"
            BY <1>2, <3>4, WithStatusLedger DEF Status, Lists
          <5>. QED
            BY <3>4, <5>1
        <4>2. disk' = snap[r]
          BY <3>1, <3>6, <4>1 DEF ClaimSaved, Write
        <4>. QED
          BY <1>2, <3>1, <3>6, <4>2
      <3>. QED
        BY <3>3, <3>5, <3>6
    <2>. QED
      BY <2>2, <2>3
  <1>. QED
    BY <1>1, <1>2, ListsBackward

\* What is just saved is in the file and in the memory of the one that serves.
LEMMA SavedRecorded ==
  ASSUME IInv, MemInv, [Next]_vars, NEW c \in Calls,
         AliasSaved(c) \/ ClaimSaved(c) \/ RecordSaved(c), disk' = snap[Rt(c)],
         NEW k \in Keys, NEW t, NEW u,
         Lists(mem[Rt(c)][k], t, u), Lists(mem'[Rt(c)][k], t, u)
  PROVE  Recorded(k, t, u)'
  <1>1. OneServes'
    BY OwnersServeNext
  <1>2. /\ Rt(c) \in Runtimes /\ snap[Rt(c)] # None
        /\ snap' = [snap EXCEPT ![Rt(c)] = None] /\ UNCHANGED owner
    BY EndsWrite DEF runtimeVars
  <1>3. \A x \in Runtimes : snap'[x] = None
    BY <1>2, RefTypes, WriterOwns
  <1>4. \A x \in Runtimes : Serving(x)' => x = Rt(c)
    BY <1>1, <1>2, WriterOwns DEF OneServes
  <1>5. Lists(snap[Rt(c)][k], t, u)
    BY <1>2 DEF MemInv, Lists
  <1>. QED
    BY <1>3, <1>4, <1>5 DEF Recorded, Lists

\* Right after a load the runtime has what the file has, and nobody else serves.
LEMMA LoadRecorded ==
  ASSUME IInv, [Next]_vars, NEW r \in Runtimes, Load(r), NEW k \in Keys,
         NEW t \in 0 .. MaxTime, NEW u, now < t + Retention, Lists(disk[k], t, u)
  PROVE  Recorded(k, t, u)'
  <1>1. OneServes'
    BY OwnersServeNext
  <1>2. /\ owner' = r /\ UNCHANGED disk
        /\ mem' = [mem EXCEPT ![r] = Restored(Prune(disk))]
        /\ snap[r] = None
        /\ snap' = snap \/ snap' = [snap EXCEPT ![r] = Restored(Prune(disk))]
    BY NoneAssumption DEF Load, Save, IInv, SlotInv, LockInv
  <1>3. Lists(Restored(Prune(disk))[k], t, u)
    <2>1. ~IsExpired(disk[k])
      BY RefTypes, BoundsAssumption, RetentionAssumption DEF IsExpired, Lists
    <2>2. Prune(disk)[k] = disk[k] /\ Prune(disk) \in Ledger /\ disk[k] # None
      BY <2>1, RefTypes, PruneLedger DEF Prune, Lists
    <2>3. Restored(Prune(disk))[k].uploads = disk[k].uploads
      BY <2>2, StatusUploads DEF Status
    <2>4. /\ Restored(Prune(disk))[k] # None
          /\ Restored(Prune(disk))[k].created = disk[k].created
      BY <2>2, RestoredLedger
    <2>. QED
      BY <2>3, <2>4 DEF Lists
  <1>4. ASSUME NEW x \in Runtimes, snap'[x] # None \/ Serving(x)'
        PROVE  x = r
    BY <1>1, <1>2, <1>4 DEF OneServes
  <1>. QED
    BY <1>2, <1>3, <1>4, RefTypes DEF Recorded, Lists

\* What is recorded stays recorded for its retention: an alias is withdrawn only
\* when its write failed, and then it was not in the file.
LEMMA RecordedKept ==
  ASSUME IInv, AliasInv, [Next]_vars, NEW k \in Keys, NEW t \in 0 .. MaxTime,
         NEW u, now < t + Retention, Recorded(k, t, u)
  PROVE  Recorded(k, t, u)'
  <1>1. CASE \E r \in Runtimes : Load(r)
    BY <1>1, LoadRecorded DEF Recorded
  <1>2. CASE \A r \in Runtimes : ~Load(r)
    <2>1. Lists(disk'[k], t, u)
      BY DiskMoves DEF Recorded
    <2>2. ASSUME NEW r \in Runtimes, Serving(r)'
          PROVE  Lists(mem'[r][k], t, u)
      <3>1. Lists(mem[r][k], t, u)
        BY <1>2, <2>2, BeginsToServe DEF Recorded
      <3>2. ~IsExpired(mem[r][k])
        BY <3>1, RefTypes, BoundsAssumption, RetentionAssumption DEF IsExpired, Lists
      <3>3. ~Crash
        BY <2>2 DEF Crash, Serving
      <3>4. ~ \E c \in Calls : AliasSaved(c) /\ Key(c) = k /\ req[c].upload = u
        BY DEF AliasSaved, AliasInv, Recorded, Lists
      <3>. QED
        BY <1>2, <3>1, <3>2, <3>3, <3>4, ListsForward
    <2>3. ASSUME NEW r \in Runtimes, snap'[r] # None
          PROVE  Lists(snap'[r][k], t, u)
      BY <2>2, <2>3, SnapMoves DEF Recorded
    <2>. QED
      BY <2>1, <2>2, <2>3 DEF Recorded
  <1>. QED
    BY <1>1, <1>2

\* What is shown is recorded.
LEMMA ShownStep ==
  ASSUME IInv, MemInv, ShownInv, AliasInv, RecordInv, [Next]_vars
  PROVE  ShownInv'
  <1>1. SUFFICES ASSUME NEW k \in Keys, NEW t \in 0 .. MaxTime, NEW u \in Uploads,
                        now' < t + Retention, Shown(k, t, u)'
                 PROVE  Recorded(k, t, u)'
    BY DEF ShownInv, Shown, Recorded
  <1>2. now < t + Retention
    <2>1. now' \in {now, now + 1}
      BY NowMoves
    <2>. QED
      BY <1>1, <2>1, RefTypes, BoundsAssumption, RetentionAssumption
  <1>3. PICK r \in Runtimes : /\ Lists(mem'[r][k], t, u) /\ mem'[r][k].status # "unsaved"
                              /\ ~Listing(r, k, u)'
    BY <1>1 DEF Shown, Lists
  <1>4. ~Crash
    BY <1>3 DEF Crash, EmptyLedger, Lists
  <1>5. CASE Shown(k, t, u)
    BY <1>2, <1>5, RecordedKept DEF ShownInv
  <1>6. CASE Load(r) /\ Lists(disk[k], t, u)
    BY <1>2, <1>6, LoadRecorded
  <1>7. ASSUME NEW d \in Calls, AliasSaved(d) \/ ClaimSaved(d), Rt(d) = r,
               disk' = snap[r], Lists(mem[r][k], t, u)
        PROVE  Recorded(k, t, u)'
    BY <1>3, <1>7, SavedRecorded
  <1>. QED
    BY <1>3, <1>4, <1>5, <1>6, <1>7, ShownMoves
-----------------------------------------------------------------------------
\* The upload of a call stays with its record while the call is under way.
LEMMA UploadStep ==
  ASSUME IInv, AnswersInv, UploadInv, AliasInv, [Next]_vars
  PROVE  UploadInv'
  <1>1. SUFFICES ASSUME NEW c \in Calls, pc'[c] \in Waiting \cup Saving,
                        req'[c].upload # None
                 PROVE  Carried(c)'
    BY DEF UploadInv
  <1>2. ~Crash
    <2>1. Crash => pc'[c] \notin Waiting \cup Saving
      BY DEF Crash, Waiting, Saving, InFlight, Admitted
    <2>. QED
      BY <1>1, <2>1
  <1>3. CASE pc[c] \in Waiting /\ pc'[c] \in Waiting /\ req'[c] = req[c]
    <2>1. /\ Rt(c) \in Runtimes /\ Key(c) \in Keys /\ owner = Rt(c)
          /\ mem[Rt(c)][Key(c)] # None
          /\ mem[Rt(c)][Key(c)].status = "pending"
      BY <1>3, WaitingFacts DEF Intent, Here
    <2>2. Carried(c) /\ req[c].upload # None
      BY <1>1, <1>3 DEF UploadInv
    <2>3. Lists(mem[Rt(c)][Key(c)], mem[Rt(c)][Key(c)].created, req[c].upload)
      BY <1>3, <2>1, <2>2 DEF Carried, Lists, Here
    <2>4. ~Load(Rt(c))
      BY <1>3 DEF Load, IInv, OwnerInv, InFlight, Admitted, Waiting
    <2>5. ~IsExpired(mem[Rt(c)][Key(c)])
      BY <2>1 DEF IsExpired, Unresolved
    <2>6. ~ \E d \in Calls : /\ AliasSaved(d) /\ Key(d) = Key(c)
                             /\ req[d].upload = req[c].upload
      BY <1>3, <2>2 DEF AliasSaved, AliasInv, Carried
    <2>7. req[c].upload \in mem'[Rt(c)][Key(c)].uploads
      BY <1>2, <2>1, <2>3, <2>4, <2>5, <2>6, ListsForward DEF Lists
    <2>8. req[c].upload \in disk'[Key(c)].uploads
      <3>1. \A r \in Runtimes : snap[r] # None => r = Rt(c)
        BY <2>1, WriterOwns
      <3>. QED
        BY <1>3, <2>2, <3>1, DiskMoves DEF Carried
    <2>9. snap'[Rt(c)] # None => req[c].upload \in snap'[Rt(c)][Key(c)].uploads
      BY <2>1, <2>2, <2>7, SnapMoves DEF Carried
    <2>. QED
      BY <1>3, <2>7, <2>8, <2>9 DEF Carried, Here, Rt, Key, Waiting
  <1>4. CASE BeginAlias(c)
    <2>1. /\ pc[c] # "idle" /\ Existing(c) # None /\ NewAlias(c)
          /\ pc'[c] = "alias" /\ req' = req
          /\ snap' = [snap EXCEPT ![Rt(c)] = WithAlias(c)]
      BY <1>4, RefTypes DEF BeginAlias, Enters, Matches, Save, Goto
    <2>2. Rt(c) \in Runtimes /\ Key(c) \in Keys
      BY <1>4, BeginsWrite
    <2>3. TypeOK /\ LockInv /\ Pruned(c)[Key(c)] # None
      BY <2>1 DEF IInv, Existing
    <2>4. req[c].upload \in WithAlias(c)[Key(c)].uploads
      BY <2>1, <2>2, <2>3, NewUploads
    <2>. QED
      BY <2>1, <2>2, <2>4, RefTypes DEF Carried, Here, Rt, Key, Waiting
  <1>5. CASE BeginClaim(c)
    <2>1. /\ pc[c] # "idle" /\ pc'[c] = "claim" /\ req' = req
          /\ mem' = [mem EXCEPT ![Rt(c)] = WithClaim(c)]
          /\ snap' = [snap EXCEPT ![Rt(c)] = WithClaim(c)]
      BY <1>5, RefTypes DEF BeginClaim, Enters, Save, Goto
    <2>2. Rt(c) \in Runtimes /\ Key(c) \in Keys
      BY <1>5, BeginsWrite
    <2>3. req[c].upload \in WithClaim(c)[Key(c)].uploads
      BY <1>1, <2>1, NewUploads DEF IInv
    <2>. QED
      BY <2>1, <2>2, <2>3, RefTypes DEF Carried, Here, Rt, Key, Waiting
  <1>6. CASE BeginRecord(c)
    <2>1. /\ pc[c] = "finish" /\ pc'[c] = "record" /\ req' = req /\ disk' = disk
          /\ outcome[c] \in Outcomes \ {"none"}
          /\ snap' = [snap EXCEPT ![Rt(c)] = WithStatus(Here(c), Key(c), FinalStatus(c))]
      BY <1>6, RefTypes DEF BeginRecord, Save, Goto, IInv, OutcomeInv
    <2>2. Rt(c) \in Runtimes /\ Key(c) \in Keys /\ Here(c) \in Ledger
      BY <1>6, WriterServes
    <2>3. FinalStatus(c) \in Status
      BY <2>1 DEF FinalStatus, Outcomes, Status
    <2>4. Here(c)[Key(c)] # None
      BY <2>1, WaitingFacts DEF Waiting, Here
    <2>5. /\ req[c].upload \in Here(c)[Key(c)].uploads
          /\ req[c].upload \in disk[Key(c)].uploads
      BY <1>1, <2>1 DEF UploadInv, Carried, Waiting
    <2>6. req[c].upload \in WithStatus(Here(c), Key(c), FinalStatus(c))[Key(c)].uploads
      BY <2>2, <2>3, <2>4, <2>5, StatusUploads
    <2>. QED
      BY <2>1, <2>2, <2>5, <2>6, RefTypes DEF Carried, Here, Rt, Key, Waiting
  <1>7. CASE ClaimSaved(c) /\ Write(Rt(c), "ok") /\ UNCHANGED mem /\ pc'[c] = "send"
    <2>1. /\ pc[c] = "claim" /\ Rt(c) \in Runtimes /\ req' = req
          /\ snap[Rt(c)] # None /\ disk' = snap[Rt(c)]
          /\ snap' = [snap EXCEPT ![Rt(c)] = None]
      BY <1>7, EndsWrite DEF ClaimSaved, Write
    <2>2. Carried(c)
      BY <1>1, <2>1 DEF UploadInv, Saving
    <2>. QED
      BY <1>7, <2>1, <2>2, RefTypes DEF Carried, Here, Rt, Key
  <1>8. CASE pc[c] \in Saving /\ pc'[c] = pc[c] /\ req'[c] = req[c]
    <2>1. Rt(c) \in Runtimes /\ Key(c) \in Keys
      BY <1>8, CallTypes DEF IInv, Saving
    <2>2. Carried(c)
      BY <1>1, <1>8 DEF UploadInv
    <2>3. /\ disk' = disk /\ snap'[Rt(c)] = snap[Rt(c)]
          /\ mem'[Rt(c)] \in {mem[Rt(c)], Prune(mem[Rt(c)])}
      <3>1. ASSUME AliasSaved(c) \/ ClaimSaved(c) \/ RecordSaved(c)
            PROVE  FALSE
        <4>1. pc'[c] \in {"done", "send"}
          BY <3>1, EndsWrite, RefTypes
        <4>. QED
          BY <1>8, <4>1 DEF Saving
      <3>. QED
        BY <1>2, <1>8, <3>1, SavingEnds
    <2>4. pc[c] = "claim" => mem'[Rt(c)][Key(c)] = mem[Rt(c)][Key(c)]
      BY <2>3, WaitingFacts
    <2>. QED
      BY <1>8, <2>1, <2>2, <2>3, <2>4 DEF Carried, Here, Rt, Key, Saving, Waiting
  <1>. QED
    BY <1>1, <1>2, <1>3, <1>4, <1>5, <1>6, <1>7, <1>8, CallMoves

\* An alias is saved only when the file does not list it.
LEMMA AliasStep ==
  ASSUME IInv, AnswersInv, AliasInv, [Next]_vars
  PROVE  AliasInv'
  <1>1. SUFFICES ASSUME NEW c \in Calls, pc'[c] = "alias"
                 PROVE  req'[c].upload \in Uploads
                        /\ req'[c].upload \notin disk'[Key(c)'].uploads
    BY DEF AliasInv
  <1>2. ~Crash
    <2>1. Crash => pc'[c] # "alias"
      BY DEF Crash, InFlight
    <2>. QED
      BY <1>1, <2>1
  <1>3. CASE BeginAlias(c)
    <2>1. /\ Matches(c) /\ NewAlias(c) /\ Rt(c) \in available /\ pc[c] # "idle"
          /\ lock[Rt(c)] = None /\ disk' = disk /\ req' = req
      BY <1>3, BeginsWrite DEF BeginAlias, Enters, AliasAllowed
    <2>2. Rt(c) \in Runtimes /\ Key(c) \in Keys /\ snap[Rt(c)] = None
          /\ req[c].upload \in Uploads \cup {None}
      BY <2>1, LockFacts, CallTypes DEF IInv
    <2>3. /\ Existing(c) # None /\ Existing(c) = Prune(mem[Rt(c)])[Key(c)]
          /\ req[c].upload # None /\ req[c].upload \notin Existing(c).uploads
      BY <2>1 DEF Matches, NewAlias, Existing, Pruned, Here
    <2>4. Existing(c) = mem[Rt(c)][Key(c)]
      BY <2>2, <2>3 DEF Prune
    <2>5. Existing(c) = disk[Key(c)]
      BY <2>1, <2>2, <2>3, <2>4 DEF AnswersInv, MirrorInv
    <2>. QED
      BY <2>1, <2>2, <2>3, <2>5 DEF Key
  <1>4. CASE pc[c] \in Saving /\ pc'[c] = pc[c] /\ req'[c] = req[c]
    <2>1. pc[c] = "alias"
      BY <1>1, <1>4
    <2>2. ~AliasSaved(c)
      <3>1. AliasSaved(c) => pc'[c] = "done"
        BY RefTypes DEF AliasSaved, Return, Goto
      <3>. QED
        BY <1>1, <3>1
    <2>3. disk' = disk
      BY <1>2, <1>4, <2>1, <2>2, SavingEnds DEF ClaimSaved, RecordSaved
    <2>. QED
      BY <1>4, <2>1, <2>3 DEF AliasInv, Key
  <1>5. ~BeginClaim(c) /\ ~BeginRecord(c)
    <2>1. /\ BeginClaim(c) => pc'[c] = "claim"
          /\ BeginRecord(c) => pc'[c] = "record"
      BY RefTypes DEF BeginClaim, BeginRecord, Goto
    <2>. QED
      BY <1>1, <2>1
  <1>. QED
    BY <1>1, <1>2, <1>3, <1>4, <1>5, CallMoves DEF Waiting, Saving

\* A call records accepted, failed or unknown.
LEMMA RecordStep ==
  ASSUME IInv, RecordInv, [Next]_vars
  PROVE  RecordInv'
  <1>1. SUFFICES ASSUME NEW c \in Calls, pc'[c] = "record"
                 PROVE  snap'[Rt(c)'][Key(c)'].status # "unsaved"
    BY DEF RecordInv
  <1>2. ~Crash
    <2>1. Crash => pc'[c] # "record"
      BY DEF Crash, InFlight, Admitted
    <2>. QED
      BY <1>1, <2>1
  <1>3. CASE BeginRecord(c)
    <2>1. /\ pc[c] = "finish" /\ req' = req
          /\ outcome[c] \in Outcomes \ {"none"}
          /\ snap' = [snap EXCEPT ![Rt(c)] = WithStatus(Here(c), Key(c), FinalStatus(c))]
      BY <1>3, RefTypes DEF BeginRecord, Save, IInv, OutcomeInv
    <2>2. Rt(c) \in Runtimes /\ Key(c) \in Keys /\ Here(c) \in Ledger
      BY <1>3, WriterServes
    <2>3. FinalStatus(c) \in Status \ {"unsaved"}
      BY <2>1 DEF FinalStatus, Outcomes, Status
    <2>4. Here(c)[Key(c)] # None
      BY <2>1, WaitingFacts DEF Waiting, Here
    <2>5. WithStatus(Here(c), Key(c), FinalStatus(c))[Key(c)].status = FinalStatus(c)
      BY <2>2, <2>3, <2>4, WithStatusLedger
    <2>. QED
      BY <2>1, <2>2, <2>3, <2>5, RefTypes DEF Rt, Key
  <1>4. CASE pc[c] \in Saving /\ pc'[c] = pc[c] /\ req'[c] = req[c]
    <2>1. pc[c] = "record"
      BY <1>1, <1>4
    <2>2. ~RecordSaved(c)
      <3>1. RecordSaved(c) => pc' = [pc EXCEPT ![c] = "done"]
        BY DEF RecordSaved, Return, Goto
      <3>2. RecordSaved(c) => pc'[c] = "done"
        BY <3>1, RefTypes
      <3>. QED
        BY <1>1, <3>2
    <2>3. snap'[Rt(c)] = snap[Rt(c)]
      BY <1>2, <1>4, <2>1, <2>2, SavingEnds DEF ClaimSaved, AliasSaved
    <2>. QED
      BY <1>4, <2>1, <2>3 DEF RecordInv, Rt, Key
  <1>5. ~BeginClaim(c) /\ ~BeginAlias(c)
    <2>1. /\ BeginClaim(c) => pc'[c] = "claim"
          /\ BeginAlias(c) => pc'[c] = "alias"
      BY RefTypes DEF BeginClaim, BeginAlias, Goto
    <2>. QED
      BY <1>1, <2>1
  <1>. QED
    BY <1>1, <1>2, <1>3, <1>4, <1>5, CallMoves DEF Waiting, Saving
-----------------------------------------------------------------------------
ReceiptsInv == ShownInv /\ UploadInv /\ AliasInv /\ RecordInv

\* Nothing is saved, and no call is under way.
LEMMA ReceiptsInit == Init => ReceiptsInv
  <1>1. SUFFICES ASSUME Init
                 PROVE  ReceiptsInv
    OBVIOUS
  <1>2. \A k \in Keys : \A t, u : ~Shown(k, t, u)
    BY <1>1 DEF Init, Shown, Lists, EmptyLedger
  <1>. QED
    BY <1>1, <1>2
    DEF Init, ReceiptsInv, ShownInv, UploadInv, AliasInv, RecordInv, Waiting, Saving

\* Every step keeps the invariant.
LEMMA ReceiptsStep ==
  IInv /\ AnswersInv /\ ReceiptsInv /\ [Next]_vars => ReceiptsInv'
  BY ShownStep, UploadStep, AliasStep, RecordStep DEF ReceiptsInv, AnswersInv

\* The steps that answer a caller with a status of its record.
LEMMA AnswersMoves ==
  ASSUME IInv, [Next]_vars, NEW c \in Calls, pc[c] # "done", pc'[c] = "done",
         answer'[c] \in Status \ {"unsaved"}
  PROVE  \/ Replay(c) /\ answer'[c] = Existing(c).status
         \/ AliasSaved(c) /\ Write(Rt(c), "ok")
         \/ RecordSaved(c)
  <1>1. answer'[c] \notin {"refused", "cancelled", "unsaved"}
    BY DEF Status
  <1>2. answer \in [Calls -> Answers]
    BY DEF IInv, TypeOK
  <1>3. \A a : answer' = [answer EXCEPT ![c] = a] => answer'[c] = a
    BY <1>2
  <1>4. \A d \in Calls : \A x : pc' = [pc EXCEPT ![d] = x] => d = c /\ x = "done"
    BY RefTypes
  <1>5. ASSUME NEW d \in Calls, BeginAlias(d) \/ BeginClaim(d) \/ BeginRecord(d)
        PROVE  FALSE
    BY <1>4, <1>5 DEF BeginAlias, BeginClaim, BeginRecord, Goto
  <1>6. ASSUME NEW d \in Calls, AliasSaved(d) \/ ClaimSaved(d) \/ RecordSaved(d)
        PROVE  (AliasSaved(c) /\ Write(Rt(c), "ok")) \/ RecordSaved(c)
    <2>1. d = c
      BY <1>4, <1>6 DEF AliasSaved, ClaimSaved, RecordSaved, Return, Goto
    <2>2. ~ClaimSaved(c)
      BY <1>1, <1>3, <1>4 DEF ClaimSaved, Return, Goto
    <2>3. AliasSaved(c) => Write(Rt(c), "ok")
      BY <1>1, <1>3 DEF AliasSaved, Return
    <2>. QED
      BY <1>6, <2>1, <2>2, <2>3
  <1>7. ASSUME NEW d \in Calls,
               \/ Refuse(d) \/ CancelWaiting(d) \/ Preflight(d) \/ Transmit(d)
               \/ Respond(d) \/ CancelFinish(d) \/ \E q \in Request : Arrive(d, q)
        PROVE  FALSE
    <2>1. d = c
      BY <1>4, <1>7 DEF Refuse, CancelWaiting, Preflight, Transmit, Respond, CancelFinish,
         Arrive, Return, Goto
    <2>2. ~Preflight(c) /\ ~Transmit(c) /\ ~Respond(c) /\ ~ \E q \in Request : Arrive(c, q)
      BY <1>4 DEF Preflight, Transmit, Respond, Arrive, Goto
    <2>3. ~Refuse(c) /\ ~CancelWaiting(c) /\ ~CancelFinish(c)
      BY <1>1, <1>3 DEF Refuse, CancelWaiting, CancelFinish, Return
    <2>. QED
      BY <1>7, <2>1, <2>2, <2>3
  <1>8. ASSUME NEW d \in Calls, Replay(d)
        PROVE  Replay(c) /\ answer'[c] = Existing(c).status
    <2>1. d = c
      BY <1>4, <1>8 DEF Replay, Return, Goto
    <2>. QED
      BY <1>3, <1>8, <2>1 DEF Replay, Return
  <1>9. ~RuntimeStep
    BY RuntimeFrame DEF callVars
  <1>10. ~Crash
    BY DEF Crash
  <1>. QED
    BY <1>5, <1>6, <1>7, <1>8, <1>9, <1>10, NextCases

\* A replay gives a receipt for what is recorded.
LEMMA ReplayRecorded ==
  ASSUME IInv, AnswersInv, ReceiptsInv, NEW c \in Calls, Replay(c),
         Existing(c).status # "unsaved", req[c].upload # None, ~Outlived(c)'
  PROVE  disk'[Key(c)] # None /\ req[c].upload \in disk'[Key(c)].uploads
  <1>1. /\ pc[c] = "lock" /\ lock[Rt(c)] = None
        /\ Existing(c) # None /\ req[c].upload \in Existing(c).uploads
        /\ mem' = [mem EXCEPT ![Rt(c)] = Pruned(c)]
        /\ UNCHANGED <<disk, available, req, now>>
    BY DEF envVars, Replay, Enters, Matches, NewAlias, KeepPruned
  <1>2. /\ Rt(c) \in Runtimes /\ Key(c) \in Keys /\ req[c].upload \in Uploads
        /\ Existing(c) \in Record /\ snap[Rt(c)] = None
    BY <1>1, CallTypes, LockFacts DEF IInv
  <1>3. /\ mem[Rt(c)][Key(c)] = Existing(c)
        /\ Here(c)'[Key(c)] = Existing(c)
    BY <1>1, <1>2, RefTypes DEF Existing, Pruned, Prune, Here, Rt
  <1>4. CASE Rt(c) \in available
    <2>1. disk[Key(c)] = Existing(c)
      BY <1>1, <1>2, <1>3, <1>4 DEF AnswersInv, MirrorInv
    <2>. QED
      BY <1>1, <2>1
  <1>5. CASE now < Existing(c).created + Retention
    <2>1. Existing(c).created \in 0 .. MaxTime
      BY <1>2 DEF Record
    <2>2. ~Listing(Rt(c), Key(c), req[c].upload)
      BY <1>1, LockFacts DEF Listing, Saving
    <2>3. Shown(Key(c), Existing(c).created, req[c].upload)
      BY <1>1, <1>2, <1>3, <2>2 DEF Shown, Lists
    <2>4. Recorded(Key(c), Existing(c).created, req[c].upload)
      BY <1>2, <1>5, <2>1, <2>3 DEF ReceiptsInv, ShownInv
    <2>. QED
      BY <1>1, <2>4 DEF Recorded, Lists
  <1>6. Existing(c).created \in Nat
    BY <1>2, BoundsAssumption DEF Record
  <1>7. Rt(c) \in available \/ now < Existing(c).created + Retention
    BY <1>1, <1>2, <1>3, <1>6, RefTypes, RetentionAssumption DEF Outlived, Rt, Key
  <1>. QED
    BY <1>4, <1>5, <1>7

\* A receipt for a staged upload is given only when the ledger file lists that
\* upload, so it can be had again after a restart, when the bytes are gone.
THEOREM ReceiptsDurableHolds == Spec => ReceiptsDurable
  <1>1. ASSUME IInv, AnswersInv, ReceiptsInv, [Next]_vars, NEW c \in Calls,
               pc[c] # "done", pc'[c] = "done", answer'[c] \in Status \ {"unsaved"},
               req[c].upload # None, ~Outlived(c)'
        PROVE  disk'[Key(c)] # None /\ req[c].upload \in disk'[Key(c)].uploads
    <2>1. CASE Replay(c) /\ answer'[c] = Existing(c).status
      BY <1>1, <2>1, ReplayRecorded
    <2>2. CASE AliasSaved(c) /\ Write(Rt(c), "ok")
      <3>1. pc[c] \in Saving /\ snap[Rt(c)] # None /\ disk' = snap[Rt(c)]
        BY <1>1, <2>2, EndsWrite DEF Write
      <3>2. Carried(c) /\ snap[Rt(c)][Key(c)] # None
        BY <1>1, <3>1 DEF ReceiptsInv, UploadInv, IInv, WrittenInv
      <3>. QED
        BY <3>1, <3>2 DEF Carried
    <2>3. CASE RecordSaved(c)
      <3>1. /\ pc[c] = "record" /\ pc[c] \in Saving /\ snap[Rt(c)] # None
            /\ disk' \in {disk, snap[Rt(c)]}
        BY <1>1, <2>3, EndsWrite DEF RecordSaved
      <3>2. /\ Carried(c) /\ snap[Rt(c)][Key(c)] # None
            /\ disk[Key(c)] # None
        BY <1>1, <3>1
        DEF ReceiptsInv, UploadInv, IInv, WrittenInv, AnswersInv, IntentStays, Pending
      <3>. QED
        BY <3>1, <3>2 DEF Carried
    <2>. QED
      BY <1>1, <2>1, <2>2, <2>3, AnswersMoves
  <1>2. IInv /\ AnswersInv /\ ReceiptsInv /\ [Next]_vars =>
          [\A c \in Calls :
             /\ pc[c] # "done" /\ pc'[c] = "done"
             /\ answer'[c] \in Status \ {"unsaved"}
             /\ req[c].upload # None
             /\ ~Outlived(c)'
             => disk'[Key(c)] # None /\ req[c].upload \in disk'[Key(c)].uploads]_pc
    BY <1>1
  <1>3. Spec => [](IInv /\ AnswersInv /\ ReceiptsInv)
    BY IInvInit, IInvStep, AnswersInit, AnswersStep, ReceiptsInit, ReceiptsStep, PTL
    DEF Spec
  <1>. QED
    BY <1>2, <1>3, PTL DEF Spec, ReceiptsDurable
-----------------------------------------------------------------------------
(***************************************************************************)
(* Snapshots fit                                                           *)
(***************************************************************************)

\* The memory of a runtime leaves room for the outcomes of its calls, and for an
\* unknown one in the place of an outcome that is being saved.
RoomInv ==
  \A c \in Calls :
    /\ pc[c] \in Waiting \cup {"claim"} => Fits(Here(c))
    /\ pc[c] = "record" => Fits(WithStatus(Here(c), Key(c), "unknown"))

\* What each key takes, and what it is charged.
Taken(m) == [k \in Keys |-> IF m[k] = None THEN 0 ELSE Size(m[k])]
Charged(m) == [k \in Keys |-> IF m[k] = None THEN 0 ELSE Reserved(m[k])]

\* A record is charged what it takes or one unit more.
LEMMA SizeFacts ==
  ASSUME NEW rec \in Record
  PROVE  /\ IsFiniteSet(rec.uploads)
         /\ Cardinality(rec.uploads) \in Nat
         /\ Size(rec) \in Nat /\ Reserved(rec) \in Nat
         /\ Size(rec) <= Reserved(rec)
  <1>1. rec.uploads \subseteq Uploads
    BY DEF Record
  <1>2. IsFiniteSet(rec.uploads)
    BY <1>1, FiniteAssumption, FS_Subset
  <1>3. Cardinality(rec.uploads) \in Nat
    BY <1>2, FS_CardinalityType
  <1>. QED
    BY <1>2, <1>3 DEF Size, Reserved

\* The statuses that are charged for a result.
Big == Unresolved \cup {"accepted"}

\* With fewer uploads and without a result that was not there, a record takes no
\* more; without one that was not paid for, it is charged no more.
LEMMA SizeShrinks ==
  ASSUME NEW rec \in Record, NEW new \in Record, new.uploads \subseteq rec.uploads
  PROVE  /\ (new.status = "accepted" => rec.status = "accepted") => Size(new) <= Size(rec)
         /\ (new.status \in Big => rec.status \in Big) => Reserved(new) <= Reserved(rec)
  <1>1. Cardinality(new.uploads) <= Cardinality(rec.uploads)
    BY SizeFacts, FS_Subset
  <1>2. Cardinality(new.uploads) \in Nat /\ Cardinality(rec.uploads) \in Nat
    BY SizeFacts
  <1>3. /\ Size(new) <= 1 + Cardinality(new.uploads) + 1
        /\ new.status # "accepted" => Size(new) = 1 + Cardinality(new.uploads)
        /\ rec.status = "accepted" => Size(rec) = 1 + Cardinality(rec.uploads) + 1
        /\ 1 + Cardinality(rec.uploads) <= Size(rec)
    BY <1>2 DEF Size
  <1>4. ASSUME NEW x \in {rec, new}
        PROVE  Reserved(x) = 1 + Cardinality(x.uploads) + (IF x.status \in Big THEN 1 ELSE 0)
    <2>1. CASE x.status \in Unresolved
      BY <1>2, <2>1 DEF Reserved, Size, Big, Unresolved
    <2>2. CASE x.status \notin Unresolved
      BY <1>2, <2>2 DEF Reserved, Size, Big
    <2>. QED
      BY <2>1, <2>2
  <1>5. (new.status = "accepted" => rec.status = "accepted") => Size(new) <= Size(rec)
    BY <1>1, <1>2, <1>3 DEF Size
  <1>6. (new.status \in Big => rec.status \in Big) => Reserved(new) <= Reserved(rec)
    BY <1>1, <1>2, <1>4
  <1>. QED
    BY <1>5, <1>6

\* A ledger without other keys holds no more.
LEMMA HeldShrinks ==
  ASSUME NEW m \in Ledger, NEW n \in Ledger, \A k \in Keys : n[k] # None => m[k] # None,
         Cardinality(Held(m)) <= MaxRecords
  PROVE  Cardinality(Held(n)) <= MaxRecords
  <1>1. Held(n) \subseteq Held(m) /\ IsFiniteSet(Held(m))
    BY FiniteAssumption, FS_Subset DEF Held
  <1>2. Cardinality(Held(n)) <= Cardinality(Held(m)) /\ IsFiniteSet(Held(n))
    BY <1>1, FS_Subset
  <1>3. Cardinality(Held(n)) \in Nat /\ Cardinality(Held(m)) \in Nat
    BY <1>1, <1>2, FS_CardinalityType
  <1>. QED
    BY <1>2, <1>3, LimitsAssumption

\* Sums over the keys.
LEMMA TakenSums ==
  ASSUME NEW m \in Ledger
  PROVE  /\ \A k \in Keys : Taken(m)[k] \in Nat /\ Charged(m)[k] \in Nat
         /\ SumFunctionOnSet(Taken(m), Keys) \in Nat
         /\ SumFunctionOnSet(Charged(m), Keys) \in Nat
         /\ SumFunctionOnSet(Taken(m), Keys) <= SumFunctionOnSet(Charged(m), Keys)
  <1>1. ASSUME NEW k \in Keys
        PROVE  /\ Taken(m)[k] \in Nat /\ Charged(m)[k] \in Nat
               /\ Taken(m)[k] <= Charged(m)[k]
    <2>1. CASE m[k] = None
      BY <2>1 DEF Taken, Charged
    <2>2. CASE m[k] # None
      <3>1. m[k] \in Record
        BY <2>2 DEF Ledger
      <3>. QED
        BY <2>2, <3>1, SizeFacts DEF Taken, Charged
    <2>. QED
      BY <2>1, <2>2
  <1>. QED
    BY <1>1, FiniteAssumption, SumNat, SumMonotone

\* What fits can be loaded.
LEMMA FitsLoadable ==
  ASSUME NEW m \in Ledger, Fits(m)
  PROVE  Loadable(m)
  BY TakenSums, LimitsAssumption DEF Fits, Loadable, Taken, Charged

\* A ledger that is charged no more for any key fits as well.
LEMMA FitsShrinks ==
  ASSUME NEW m \in Ledger, NEW n \in Ledger, Fits(m),
         \A k \in Keys : n[k] # None => m[k] # None /\ Reserved(n[k]) <= Reserved(m[k])
  PROVE  Fits(n)
  <1>1. Cardinality(Held(n)) <= MaxRecords
    BY HeldShrinks DEF Fits
  <1>2. ASSUME NEW k \in Keys
        PROVE  Charged(n)[k] <= Charged(m)[k]
    <2>1. Charged(m)[k] \in Nat
      BY TakenSums
    <2>. QED
      BY <2>1 DEF Charged
  <1>3. SumFunctionOnSet(Charged(n), Keys) <= SumFunctionOnSet(Charged(m), Keys)
    BY <1>2, TakenSums, FiniteAssumption, SumMonotone
  <1>4. SumFunctionOnSet(Charged(m), Keys) <= MaxBytes
    BY DEF Fits, Charged
  <1>5. SumFunctionOnSet(Charged(n), Keys) <= MaxBytes
    BY <1>3, <1>4, TakenSums, LimitsAssumption
  <1>. QED
    BY <1>1, <1>5 DEF Fits, Charged

\* One that takes no more for any key can be loaded as well.
LEMMA LoadableShrinks ==
  ASSUME NEW m \in Ledger, NEW n \in Ledger, Loadable(m),
         \A k \in Keys : n[k] # None => m[k] # None /\ Size(n[k]) <= Size(m[k])
  PROVE  Loadable(n)
  <1>1. Cardinality(Held(n)) <= MaxRecords
    BY HeldShrinks DEF Loadable
  <1>2. ASSUME NEW k \in Keys
        PROVE  Taken(n)[k] <= Taken(m)[k]
    <2>1. Taken(m)[k] \in Nat
      BY TakenSums
    <2>. QED
      BY <2>1 DEF Taken
  <1>3. SumFunctionOnSet(Taken(n), Keys) <= SumFunctionOnSet(Taken(m), Keys)
    BY <1>2, TakenSums, FiniteAssumption, SumMonotone
  <1>4. SumFunctionOnSet(Taken(m), Keys) <= MaxBytes
    BY DEF Loadable, Taken
  <1>5. SumFunctionOnSet(Taken(n), Keys) <= MaxBytes
    BY <1>3, <1>4, TakenSums, LimitsAssumption
  <1>. QED
    BY <1>1, <1>5 DEF Loadable, Taken
-----------------------------------------------------------------------------
\* Pruning, another status for a record that was charged for a result, and the
\* withdrawal of an alias leave a ledger that fits.
LEMMA FitsRevised ==
  ASSUME NEW m \in Ledger, Fits(m)
  PROVE  /\ Fits(Prune(m))
         /\ \A k \in Keys, s \in Status :
              m[k] # None /\ (m[k].status \in Big \/ s \notin Big) =>
                Fits(WithStatus(m, k, s))
         /\ \A c \in Calls : Key(c) \in Keys => Fits(Withdrawn(m, c))
  <1>1. Fits(Prune(m))
    <2>1. \A k \in Keys : Prune(m)[k] # None =>
            m[k] # None /\ Reserved(Prune(m)[k]) <= Reserved(m[k])
      <3>1. ASSUME NEW k \in Keys, Prune(m)[k] # None
            PROVE  m[k] # None /\ Reserved(Prune(m)[k]) <= Reserved(m[k])
        <4>1. Prune(m)[k] = m[k] /\ m[k] \in Record
          BY <3>1, PruneLedger DEF Ledger
        <4>. QED
          BY <3>1, <4>1, SizeFacts
      <3>. QED
        BY <3>1
    <2>. QED
      BY <2>1, PruneLedger, FitsShrinks
  <1>2. ASSUME NEW k \in Keys, NEW s \in Status, m[k] # None,
               m[k].status \in Big \/ s \notin Big
        PROVE  Fits(WithStatus(m, k, s))
    <2>. DEFINE n == WithStatus(m, k, s)
    <2>1. n \in Ledger
      BY WithStatusLedger
    <2>2. ASSUME NEW x \in Keys, n[x] # None
          PROVE  m[x] # None /\ Reserved(n[x]) <= Reserved(m[x])
      <3>1. m[x] # None /\ m[x] \in Record /\ n[x] \in Record
        BY <2>1, <2>2, WithStatusLedger DEF Ledger
      <3>2. n[x].uploads = m[x].uploads
        BY <3>1, StatusUploads
      <3>3. x = k => n[x].status = s
        BY <1>2, WithStatusLedger
      <3>4. x # k => n[x] = m[x]
        BY WithStatusLedger
      <3>5. n[x].status \in Big => m[x].status \in Big
        BY <1>2, <3>3, <3>4
      <3>. HIDE DEF n
      <3>. QED
        BY <3>1, <3>2, <3>5, SizeShrinks
    <2>. HIDE DEF n
    <2>3. Fits(n)
      BY <2>1, <2>2, FitsShrinks
    <2>. QED
      BY <2>3 DEF n
  <1>3. ASSUME NEW c \in Calls, Key(c) \in Keys
        PROVE  Fits(Withdrawn(m, c))
    <2>. DEFINE n == Withdrawn(m, c)
    <2>1. n \in Ledger
      BY <1>3, WithdrawnLedger
    <2>2. ASSUME NEW x \in Keys, n[x] # None
          PROVE  m[x] # None /\ Reserved(n[x]) <= Reserved(m[x])
      <3>1. m[x] # None /\ m[x] \in Record /\ n[x] \in Record /\ n[x].status = m[x].status
        BY <1>3, <2>1, <2>2, WithdrawnLedger DEF Ledger
      <3>2. n[x].uploads = IF x = Key(c) THEN m[x].uploads \ {req[c].upload} ELSE m[x].uploads
        BY <1>3, <3>1, WithdrawnUploads
      <3>3. n[x].uploads \subseteq m[x].uploads
        BY <3>2
      <3>. HIDE DEF n
      <3>. QED
        BY <3>1, <3>3, SizeShrinks
    <2>. HIDE DEF n
    <2>3. Fits(n)
      BY <2>1, <2>2, FitsShrinks
    <2>. QED
      BY <2>3 DEF n
  <1>. QED
    BY <1>1, <1>2, <1>3

\* The ledger that a call begins to write can be loaded, and what an alias or a
\* claim begins to write leaves room for the outcomes.
LEMMA BeginsFit ==
  ASSUME IInv, RoomInv, NEW c \in Calls, NEW m \in Ledger, Begins(c, m)
  PROVE  /\ Loadable(m)
         /\ Fits(m)
         /\ BeginRecord(c) => Fits(WithStatus(m, Key(c), "unknown"))
  <1>1. CASE BeginAlias(c) /\ m = WithAlias(c)
    <2>1. Fits(m)
      BY <1>1 DEF BeginAlias, AliasAllowed
    <2>2. ~BeginRecord(c)
      BY <1>1 DEF BeginAlias, BeginRecord, Enters
    <2>. QED
      BY <2>1, <2>2, FitsLoadable
  <1>2. CASE BeginClaim(c) /\ m = WithClaim(c)
    <2>1. Fits(m)
      BY <1>2 DEF BeginClaim, ClaimAllowed
    <2>2. ~BeginRecord(c)
      BY <1>2 DEF BeginClaim, BeginRecord, Enters
    <2>. QED
      BY <2>1, <2>2, FitsLoadable
  <1>3. CASE BeginRecord(c) /\ m = WithStatus(Here(c), Key(c), FinalStatus(c))
    <2>1. pc[c] = "finish" /\ outcome[c] \in Outcomes \ {"none"}
      BY <1>3, RefTypes DEF BeginRecord, IInv, OutcomeInv
    <2>2. Key(c) \in Keys /\ Here(c) \in Ledger
      BY <1>3, WriterServes
    <2>3. FinalStatus(c) \in Status /\ "unknown" \in Status
      BY <2>1 DEF FinalStatus, Outcomes, Status
    <2>4. /\ Here(c)[Key(c)] # None /\ Here(c)[Key(c)].status = "pending"
          /\ Fits(Here(c))
      BY <2>1 DEF IInv, IntentInv, RoomInv, Waiting
    <2>5. Here(c)[Key(c)].status \in Big
      BY <2>4 DEF Big, Unresolved
    <2>6. Fits(m)
      BY <1>3, <2>2, <2>3, <2>4, <2>5, FitsRevised
    <2>7. WithStatus(m, Key(c), "unknown") = WithStatus(Here(c), Key(c), "unknown")
      <3>1. Here(c)[Key(c)] \in Record /\ Here(c) \in [Keys -> Record \cup {None}]
        BY <2>2, <2>4 DEF Ledger
      <3>2. /\ m = [Here(c) EXCEPT ![Key(c)] = [@ EXCEPT !.status = FinalStatus(c)]]
            /\ m[Key(c)] = [Here(c)[Key(c)] EXCEPT !.status = FinalStatus(c)]
        BY <1>3, <2>2, <2>4, <3>1 DEF WithStatus
      <3>3. m[Key(c)] # None
        BY <1>3, <2>2, <2>3, <2>4, WithStatusLedger
      <3>4. [m[Key(c)] EXCEPT !.status = "unknown"]
              = [Here(c)[Key(c)] EXCEPT !.status = "unknown"]
        BY <3>1, <3>2 DEF Record
      <3>. QED
        BY <2>2, <2>4, <3>1, <3>2, <3>3, <3>4 DEF WithStatus
    <2>8. Fits(WithStatus(Here(c), Key(c), "unknown"))
      BY <2>2, <2>3, <2>4, <2>5, FitsRevised
    <2>. QED
      BY <2>6, <2>7, <2>8, FitsLoadable
  <1>. QED
    BY <1>1, <1>2, <1>3 DEF Begins

\* What is loaded and restored takes what it took in the file.
LEMMA RestoredLoadable ==
  ASSUME NEW m \in Ledger, Loadable(m)
  PROVE  Loadable(Restored(Prune(m)))
  <1>. DEFINE p == Prune(m)
              n == Restored(p)
  <1>1. p \in Ledger /\ n \in Ledger
    BY PruneLedger, RestoredLedger
  <1>2. ASSUME NEW k \in Keys, n[k] # None
        PROVE  m[k] # None /\ Size(n[k]) <= Size(m[k])
    <2>1. p[k] # None /\ p[k] = m[k] /\ m[k] \in Record /\ n[k] \in Record
      BY <1>1, <1>2, PruneLedger, RestoredLedger DEF Ledger
    <2>2. n[k].uploads = p[k].uploads
      BY <1>1, <2>1, StatusUploads DEF Status
    <2>3. n[k].status = "accepted" => p[k].status = "accepted"
      <3>1. [p[k] EXCEPT !.status = "unknown"].status = "unknown"
        BY <2>1 DEF Record
      <3>2. n[k] \in {p[k], [p[k] EXCEPT !.status = "unknown"]}
        BY DEF Restored
      <3>. QED
        BY <3>1, <3>2
    <2>. HIDE DEF n, p
    <2>. QED
      BY <2>1, <2>2, <2>3, SizeShrinks
  <1>. HIDE DEF n, p
  <1>3. Loadable(n)
    BY <1>1, <1>2, LoadableShrinks
  <1>. QED
    BY <1>3 DEF n, p

\* A runtime that begins to write begins to write a ledger that can be loaded.
LEMMA SnapshotsStep ==
  ASSUME IInv, RoomInv, SnapshotsFit, [Next]_vars
  PROVE  SnapshotsFit'
  <1>1. SUFFICES ASSUME NEW r \in Runtimes, snap'[r] # None
                 PROVE  Loadable(snap'[r])
    BY DEF SnapshotsFit, Loadable, Held, Size
  <1>2. ASSUME NEW c \in Calls, BeginAlias(c) \/ BeginClaim(c) \/ BeginRecord(c)
        PROVE  Loadable(snap'[r])
    <2>1. PICK m \in Ledger : Begins(c, m) /\ snap' = [snap EXCEPT ![Rt(c)] = m]
      BY <1>2, BeginsSaves
    <2>2. Loadable(m)
      BY <2>1, BeginsFit
    <2>. QED
      BY <1>1, <2>1, <2>2, RefTypes DEF SnapshotsFit
  <1>3. ASSUME NEW x \in Runtimes, Load(x)
        PROVE  Loadable(snap'[r])
    <2>1. /\ Loadable(disk)
          /\ snap' = snap \/ snap' = [snap EXCEPT ![x] = Restored(Prune(disk))]
      BY <1>3 DEF Load, Save
    <2>2. Loadable(Restored(Prune(disk)))
      BY <2>1, RefTypes, RestoredLoadable
    <2>. QED
      BY <1>1, <2>1, <2>2, RefTypes DEF SnapshotsFit
  <1>4. ASSUME snap'[r] \in {snap[r], None}
        PROVE  Loadable(snap'[r])
    BY <1>1, <1>4 DEF SnapshotsFit
  <1>5. ASSUME NEW c \in Calls,
               \/ \E q \in Request : Arrive(c, q)
               \/ AliasSaved(c) \/ ClaimSaved(c) \/ RecordSaved(c)
               \/ Replay(c) \/ Refuse(c) \/ CancelWaiting(c) \/ Preflight(c)
               \/ Transmit(c) \/ Respond(c) \/ CancelFinish(c)
        PROVE  snap'[r] \in {snap[r], None}
    BY <1>5, EndsWrite, NoWrite, RefTypes DEF Arrive, ledgerVars
  <1>6. ASSUME NEW x \in Runtimes,
               \/ EnterSlot(x) \/ FencePrevious(x) \/ TakeOver(x) \/ LoadFails(x)
               \/ CancelStart(x) \/ Stop(x) \/ LookUp(x) \/ StartSaved(x)
        PROVE  snap'[r] \in {snap[r], None}
    BY <1>6, RefTypes DEF EnterSlot, FencePrevious, TakeOver, LoadFails, CancelStart, Stop,
       LookUp, StartSaved, Write, ledgerVars
  <1>7. CASE Tick \/ UNCHANGED vars \/ Crash
    BY <1>4, <1>7 DEF Tick, vars, ledgerVars, Crash
  <1>. QED
    BY <1>2, <1>3, <1>4, <1>5, <1>6, <1>7, NextCases DEF RuntimeStep, StartStep

\* The memory of a runtime with a call under way goes on fitting.
LEMMA RoomKept ==
  ASSUME IInv, RoomInv, [Next]_vars, ~Crash, NEW c \in Calls,
         pc[c] \in Waiting \cup {"claim"}
  PROVE  Fits(mem'[Rt(c)])
  <1>. DEFINE r == Rt(c)
  <1>1. r \in Runtimes /\ mem[r] \in Ledger /\ Fits(mem[r])
    BY WaitingFacts DEF RoomInv, Here
  <1>2. ~Load(r)
    BY DEF Load, IInv, OwnerInv, InFlight, Admitted, Waiting
  <1>3. CASE mem'[r] \in {mem[r], Prune(mem[r])}
    BY <1>1, <1>3, FitsRevised
  <1>4. ASSUME NEW d \in Calls, BeginAlias(d) /\ mem'[r] = WithAlias(d)
        PROVE  Fits(mem'[r])
    BY <1>4 DEF BeginAlias, AliasAllowed
  <1>5. ASSUME NEW d \in Calls, BeginClaim(d) /\ mem'[r] = WithClaim(d)
        PROVE  Fits(mem'[r])
    BY <1>5 DEF BeginClaim, ClaimAllowed
  <1>6. ASSUME NEW d \in Calls, Rt(d) = r, Key(d) \in Keys, FinalStatus(d) \in Status,
               BeginRecord(d), mem'[r] = WithStatus(mem[r], Key(d), FinalStatus(d))
        PROVE  Fits(mem'[r])
    <2>1. mem[r][Key(d)] # None /\ mem[r][Key(d)].status = "pending"
      BY <1>6 DEF BeginRecord, IInv, IntentInv, Waiting, Here
    <2>. QED
      BY <1>1, <1>6, <2>1, FitsRevised DEF Big, Unresolved
  <1>7. ASSUME NEW d \in Calls, Key(d) \in Keys, mem'[r] = Withdrawn(mem[r], d)
        PROVE  Fits(mem'[r])
    BY <1>1, <1>7, FitsRevised
  <1>8. ASSUME NEW d \in Calls, Rt(d) = r, Key(d) \in Keys, ClaimSaved(d),
               NEW s \in Status, mem'[r] = WithStatus(mem[r], Key(d), s)
        PROVE  Fits(mem'[r])
    <2>1. mem[r][Key(d)] # None /\ mem[r][Key(d)].status = "pending"
      BY <1>8 DEF ClaimSaved, IInv, IntentInv, Waiting, Here
    <2>. QED
      BY <1>1, <1>8, <2>1, FitsRevised DEF Big, Unresolved
  <1>9. ASSUME NEW d \in Calls, Rt(d) = r, RecordSaved(d)
        PROVE  Fits(mem'[r])
    <2>1. pc[d] = "record" /\ mem' \in {mem, [mem EXCEPT ![r] = WithStatus(@, Key(d), "unknown")]}
      BY <1>9 DEF RecordSaved
    <2>2. Fits(WithStatus(mem[r], Key(d), "unknown"))
      BY <1>9, <2>1 DEF RoomInv, Here
    <2>. QED
      BY <1>1, <2>1, <2>2, RefTypes
  <1>10. "unknown" \in Status /\ "unsaved" \in Status
    BY DEF Status
  <1>. HIDE DEF r
  <1>. QED
    BY <1>1, <1>2, <1>3, <1>4, <1>5, <1>6, <1>7, <1>8, <1>9, <1>10, MemCases DEF r

\* There is room for every outcome.
LEMMA RoomStep ==
  ASSUME IInv, RoomInv, [Next]_vars
  PROVE  RoomInv'
  <1>1. SUFFICES ASSUME NEW c \in Calls, pc'[c] \in Waiting \cup {"claim", "record"}
                 PROVE  /\ pc'[c] \in Waiting \cup {"claim"} => Fits(Here(c)')
                        /\ pc'[c] = "record" =>
                             Fits(WithStatus(Here(c)', Key(c)', "unknown"))
    BY DEF RoomInv, Fits, WithStatus, Held, Reserved, Size, Unresolved
  <1>2. ~Crash
    <2>1. Crash => pc'[c] \notin Waiting \cup Saving
      BY DEF Crash, Waiting, Saving, InFlight, Admitted
    <2>. QED
      BY <1>1, <2>1 DEF Saving
  <1>3. pc'[c] \in Waiting \cup Saving /\ "record" \notin Waiting
    BY <1>1 DEF Saving, Waiting
  <1>4. CASE pc[c] \in Waiting /\ pc'[c] \in Waiting /\ req'[c] = req[c]
    BY <1>2, <1>3, <1>4, RoomKept DEF Here, Rt
  <1>5. ASSUME NEW m \in Ledger, Begins(c, m), mem' = [mem EXCEPT ![Rt(c)] = m], req' = req,
               Rt(c) \in Runtimes, BeginRecord(c) \/ pc'[c] # "record"
        PROVE  /\ pc'[c] \in Waiting \cup {"claim"} => Fits(Here(c)')
               /\ pc'[c] = "record" => Fits(WithStatus(Here(c)', Key(c)', "unknown"))
    <2>1. Here(c)' = m /\ Key(c)' = Key(c)
      BY <1>5, RefTypes DEF Here, Rt, Key
    <2>. QED
      BY <1>5, <2>1, BeginsFit
  <1>6. CASE BeginAlias(c) \/ BeginClaim(c) \/ BeginRecord(c)
    <2>1. PICK m \in Ledger : Begins(c, m) /\ mem' = [mem EXCEPT ![Rt(c)] = m]
      BY <1>6, BeginsSaves
    <2>2. req' = req /\ Rt(c) \in Runtimes
      BY <1>6, BeginsWrite
    <2>3. BeginRecord(c) \/ pc'[c] # "record"
      BY <1>6, RefTypes DEF BeginAlias, BeginClaim, Goto
    <2>. QED
      BY <1>5, <2>1, <2>2, <2>3
  <1>7. CASE ClaimSaved(c) /\ Write(Rt(c), "ok") /\ UNCHANGED mem /\ pc'[c] = "send"
    <2>1. pc[c] = "claim" /\ req' = req
      BY <1>7 DEF ClaimSaved
    <2>2. Fits(Here(c)) /\ Here(c)' = Here(c)
      BY <1>7, <2>1 DEF RoomInv, Here, Rt
    <2>. QED
      BY <1>7, <2>2
  <1>8. CASE pc[c] \in Saving /\ pc'[c] = pc[c] /\ req'[c] = req[c]
    <2>1. CASE pc[c] = "claim"
      BY <1>2, <1>8, <2>1, RoomKept DEF Here, Rt
    <2>2. CASE pc[c] = "record"
      <3>1. ~RecordSaved(c)
        <4>1. RecordSaved(c) => pc' = [pc EXCEPT ![c] = "done"]
          BY DEF RecordSaved, Return, Goto
        <4>2. RecordSaved(c) => pc'[c] = "done"
          BY <4>1, RefTypes
        <4>. QED
          BY <1>8, <2>2, <4>2
      <3>2. mem'[Rt(c)] \in {mem[Rt(c)], Prune(mem[Rt(c)])}
        BY <1>2, <1>8, <2>2, <3>1, SavingEnds DEF ClaimSaved, AliasSaved
      <3>3. mem[Rt(c)] \in Ledger /\ Key(c) \in Keys
        BY <2>2, CallTypes DEF IInv, Here
      <3>. DEFINE m == mem[Rt(c)]
                  n == WithStatus(m, Key(c), "unknown")
      <3>4. Fits(n) /\ n \in Ledger
        BY <2>2, <3>3, WithStatusLedger DEF RoomInv, Here, Status
      <3>5. Fits(WithStatus(Prune(m), Key(c), "unknown"))
        <4>. DEFINE q == WithStatus(Prune(m), Key(c), "unknown")
        <4>1. q \in Ledger
          BY <3>3, PruneLedger, WithStatusLedger DEF Status
        <4>2. \A k \in Keys : Prune(m)[k] \in {m[k], None}
          BY <3>3, PruneLedger
        <4>3. \A k \in Keys : q[k] # None => q[k] = n[k]
          BY <3>3, <4>2, PruneLedger DEF WithStatus, Ledger
        <4>4. \A k \in Keys : n[k] # None => n[k] \in Record
          BY <3>4 DEF Ledger
        <4>. HIDE DEF q, n
        <4>5. \A k \in Keys : q[k] # None => n[k] # None /\ Reserved(q[k]) <= Reserved(n[k])
          BY <4>3, <4>4, SizeFacts
        <4>6. Fits(q)
          BY <3>4, <4>1, <4>5, FitsShrinks
        <4>. QED
          BY <4>6 DEF q
      <3>6. Here(c)' = mem'[Rt(c)] /\ Key(c)' = Key(c)
        BY <1>8 DEF Here, Rt, Key
      <3>7. Fits(WithStatus(Here(c)', Key(c)', "unknown"))
        <4>1. CASE mem'[Rt(c)] = m
          BY <3>4, <3>6, <4>1
        <4>2. CASE mem'[Rt(c)] = Prune(m)
          BY <3>5, <3>6, <4>2
        <4>. QED
          BY <3>2, <4>1, <4>2
      <3>. QED
        BY <1>8, <2>2, <3>7 DEF Waiting
    <2>. QED
      BY <1>1, <1>8, <2>1, <2>2 DEF Waiting, Saving
  <1>. QED
    BY <1>2, <1>3, <1>4, <1>6, <1>7, <1>8, CallMoves

\* A ledger that is being written never exceeds the limits: an accepted send cannot
\* fail to be recorded for lack of space, and the file can always be loaded again.
THEOREM SnapshotsFitHolds == Spec => []SnapshotsFit
  <1>1. Init => RoomInv /\ SnapshotsFit
    BY DEF Init, RoomInv, SnapshotsFit, Waiting
  <1>2. IInv /\ RoomInv /\ SnapshotsFit /\ [Next]_vars => RoomInv' /\ SnapshotsFit'
    BY RoomStep, SnapshotsStep
  <1>. QED
    BY <1>1, <1>2, IInvInit, IInvStep, PTL DEF Spec

\* The file that a setup finds is within the limits, whatever was cut off.
THEOREM LedgerLoads == Spec => []Loadable(disk)
  <1>1. Init => Loadable(disk)
    <2>1. SUFFICES ASSUME Init
                   PROVE  Loadable(disk)
      OBVIOUS
    <2>2. disk = EmptyLedger /\ Held(disk) = {}
      BY <2>1 DEF Init, Held, EmptyLedger
    <2>3. \A k \in Keys : Taken(disk)[k] = 0
      BY <2>2 DEF Taken, EmptyLedger
    <2>4. SumFunctionOnSet(Taken(disk), Keys) = 0
      BY <2>3, FiniteAssumption, SumZero
    <2>5. Cardinality(Held(disk)) = 0
      BY <2>2, FS_EmptySet
    <2>. QED
      BY <2>4, <2>5, LimitsAssumption DEF Loadable, Taken
  <1>2. IInv /\ RoomInv /\ SnapshotsFit /\ Loadable(disk) /\ [Next]_vars => Loadable(disk')
    <2>1. ASSUME IInv, SnapshotsFit, Loadable(disk), [Next]_vars
          PROVE  Loadable(disk')
      BY <2>1, DiskMoves DEF SnapshotsFit
    <2>. QED
      BY <2>1
  <1>3. Loadable(disk)' <=> Loadable(disk')
    BY DEF Loadable, Held, Size
  <1>4. Init => RoomInv /\ SnapshotsFit
    BY DEF Init, RoomInv, SnapshotsFit, Waiting
  <1>5. IInv /\ RoomInv /\ SnapshotsFit /\ [Next]_vars => RoomInv' /\ SnapshotsFit'
    BY RoomStep, SnapshotsStep
  <1>. QED
    BY <1>1, <1>2, <1>3, <1>4, <1>5, IInvInit, IInvStep, PTL DEF Spec
=============================================================================
