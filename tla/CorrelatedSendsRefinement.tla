----------------------- MODULE CorrelatedSendsRefinement -----------------------
(***************************************************************************)
(* CorrelatedSends implements KeyedSend: whatever the runtimes, calls,     *)
(* crashes and failed writes, the ledger file and the transmissions of a   *)
(* key change only as KeyedSend allows.  A runtime changes its memory      *)
(* first, by several steps, and the file in one; so the invariant says     *)
(* that a memory, and a snapshot on its way to the file, are always one    *)
(* step of KeyedSend (or none) ahead of the file.                          *)
(***************************************************************************)
EXTENDS CorrelatedSendsProofs

Settled == {"accepted", "failed", "unsaved"}

\* The record may be forgotten, or replaced, at time t.
Yields(rec, t) ==
  rec = None \/ (rec.created + Retention <= t /\ rec.status # "unknown")

\* The outcome of a claim goes from a to b, as KeyedSend!Resolve allows.
Moves(a, b) ==
  \/ b = a
  \/ /\ b # "pending"
     /\ a = "unknown" => b = "unknown"
     /\ a \in Settled => b \in {a, "unknown"}

\* Record new of key k may replace record old in the file at time t, when S was
\* transmitted: it forgets it, is a new claim, or settles it.
Follows(k, old, new, S, t) ==
  \/ /\ new = None
     /\ Yields(old, t)
  \/ /\ new # None
     /\ Yields(old, t)
     /\ new.status \in {"pending", "unsaved"}
     /\ \A s \in S : s.key = k => s.created + Retention <= new.created
  \/ /\ new # None /\ old # None
     /\ new.created = old.created
     /\ Moves(old.status, new.status)
     /\ \/ new.status = old.status
        \/ new.status # "accepted"
        \/ \E s \in S : s.key = k /\ s.created = new.created

\* What is on its way to the file, and what a serving runtime has in memory,
\* may replace what the file has.
LeadInv ==
  \A r \in Runtimes, k \in Keys :
    /\ snap[r] # None => Follows(k, disk[k], snap[r][k], sends, now)
    /\ Serving(r) => Follows(k, disk[k], mem[r][k], sends, now)

\* A call that has transmitted, or is about to record that WAHA accepted, has
\* its transmission in the history.
SentInv ==
  \A c \in Calls :
    pc[c] = "sent" \/ (pc[c] = "finish" /\ outcome[c] = "accepted") =>
      \E s \in sends : s.key = Key(c) /\ s.created = Here(c)[Key(c)].created

\* A call that records an outcome writes a final one.
FinalInv ==
  \A c \in Calls : pc[c] = "record" /\ snap[Rt(c)] # None =>
    snap[Rt(c)][Key(c)].status \in {"accepted", "failed", "unknown"}

RefInv == MemInv /\ LeadInv /\ SentInv /\ FinalInv
-----------------------------------------------------------------------------
(***************************************************************************)
(* What Follows allows                                                     *)
(***************************************************************************)

\* A record that the clock has made older yields the more.
LEMMA YieldsLater ==
  ASSUME NEW rec \in Record \cup {None}, NEW t \in Nat, NEW u \in Nat, t <= u,
         Yields(rec, t)
  PROVE  Yields(rec, u)
  <1>1. rec # None => rec.created \in Nat
    BY BoundsAssumption DEF Record
  <1>. QED
    BY <1>1, RetentionAssumption DEF Yields

\* A replacement that was allowed stays allowed as time goes by.
LEMMA FollowsLater ==
  ASSUME NEW k \in Keys, NEW old \in Record \cup {None}, NEW new, NEW S,
         NEW t \in Nat, NEW u \in Nat, t <= u, Follows(k, old, new, S, t)
  PROVE  Follows(k, old, new, S, u)
  BY YieldsLater DEF Follows

\* Pruning a record is as good as keeping it.
LEMMA FollowsPrune ==
  ASSUME TypeOK, NEW k \in Keys, NEW old \in Record \cup {None},
         NEW new \in Record \cup {None}, NEW S, Follows(k, old, new, S, now)
  PROVE  Follows(k, old, IF IsExpired(new) THEN None ELSE new, S, now)
  <1>1. CASE IsExpired(new)
    <2>1. new.status \notin Unresolved /\ new # None
          /\ new.created + Retention <= now
      BY <1>1 DEF IsExpired
    <2>2. Yields(old, now)
      BY <2>1 DEF Follows, Yields, Moves, Unresolved
    <2>. QED
      BY <1>1, <2>2 DEF Follows
  <1>. QED
    BY <1>1

\* Pruning a ledger record by record.
LEMMA FollowsPruned ==
  ASSUME TypeOK, NEW m \in Ledger,
         \A k \in Keys : Follows(k, disk[k], m[k], sends, now)
  PROVE  \A k \in Keys : Follows(k, disk[k], Prune(m)[k], sends, now)
  BY FollowsPrune DEF TypeOK, Ledger, Prune

\* Only the age and the status of a record count.
LEMMA FollowsAlike ==
  ASSUME NEW k \in Keys, NEW old, NEW new, NEW rec, NEW S, NEW t,
         Follows(k, old, new, S, t),
         new = None <=> rec = None,
         new # None => rec.created = new.created /\ rec.status = new.status
  PROVE  Follows(k, old, rec, S, t)
  BY DEF Follows

\* Any claim can become uncertain, but a fresh one not before it is in the file.
LEMMA FollowsUnknown ==
  ASSUME NEW k \in Keys, NEW old, NEW new, NEW rec, NEW S, NEW t,
         Follows(k, old, new, S, t),
         new # None, new.status \notin {"pending", "unsaved"},
         rec # None, rec.created = new.created, rec.status = "unknown"
  PROVE  Follows(k, old, rec, S, t)
  BY DEF Follows, Moves

\* A claim whose intent was not saved is refused in memory.
LEMMA FollowsUnsaved ==
  ASSUME NEW k \in Keys, NEW old, NEW new, NEW rec, NEW S, NEW t,
         Follows(k, old, new, S, t),
         new # None, new.status = "pending",
         rec # None, rec.created = new.created, rec.status = "unsaved"
  PROVE  Follows(k, old, rec, S, t)
  BY DEF Follows, Moves, Settled

\* Every record may replace itself, and an expired one may be forgotten.
LEMMA FollowsItself ==
  ASSUME NEW k \in Keys, NEW old, NEW S, NEW new,
         new = old \/ (new = None /\ IsExpired(old))
  PROVE  Follows(k, old, new, S, now)
  BY DEF Follows, Moves, Yields, IsExpired, Unresolved
-----------------------------------------------------------------------------
(***************************************************************************)
(* RefInv is inductive relative to IInv                                    *)
(***************************************************************************)

\* What a call writes when it records an outcome is final.
LEMMA FinalStep ==
  ASSUME IInv, FinalInv, [Next]_vars
  PROVE  FinalInv'
  <1>0. \A c \in Calls : pc[c] = "record" => Rt(c) \in Runtimes
    BY CallTypes DEF IInv
  <1>1. ASSUME NEW c \in Calls, NEW q \in Request, Arrive(c, q)
        PROVE  FinalInv'
    <2>1. /\ pc[c] = "idle" /\ pc' = [pc EXCEPT ![c] = "lock"]
          /\ req' = [req EXCEPT ![c] = q] /\ UNCHANGED snap
      BY <1>1 DEF Arrive, Goto, ledgerVars
    <2>. QED
      BY <2>1, RefTypes DEF FinalInv, Rt, Key
  <1>2. ASSUME NEW c \in Calls, BeginAlias(c) \/ BeginClaim(c) \/ BeginRecord(c)
        PROVE  FinalInv'
    <2>1. PICK m \in Ledger : /\ Begins(c, m)
                              /\ snap' = [snap EXCEPT ![Rt(c)] = m]
      BY <1>2, BeginsSaves
    <2>2. /\ pc[c] # "idle" /\ Rt(c) \in Runtimes /\ Key(c) \in Keys
          /\ UNCHANGED req
          /\ \A d \in Calls : pc[d] \in Saving => Rt(d) # Rt(c)
      BY <1>2, BeginsWrite, LockFacts
    <2>3. \A d \in Calls : d # c => pc'[d] = pc[d]
      BY <1>2, BeginsWrite, RefTypes
    <2>4. ASSUME pc'[c] = "record"
          PROVE  m[Key(c)].status \in {"accepted", "failed", "unknown"}
      <3>1. BeginRecord(c)
        BY <1>2, <2>4, RefTypes DEF BeginAlias, BeginClaim, Goto
      <3>2. m = WithStatus(Here(c), Key(c), FinalStatus(c))
        BY <2>1, <3>1 DEF Begins, BeginRecord, BeginAlias, BeginClaim, Enters
      <3>3. /\ pc[c] = "finish" /\ outcome[c] \in Outcomes \ {"none"}
            /\ Here(c) \in Ledger /\ Here(c)[Key(c)] # None
        BY <3>1, WaitingFacts, RefTypes DEF BeginRecord, IInv, OutcomeInv, Waiting, Here
      <3>4. FinalStatus(c) \in {"accepted", "failed", "unknown"}
        BY <3>3 DEF FinalStatus, Outcomes
      <3>5. FinalStatus(c) \in Status
        BY <3>4 DEF Status
      <3>. QED
        BY <2>2, <3>2, <3>3, <3>4, <3>5, WithStatusLedger
    <2>. QED
      BY <2>1, <2>2, <2>3, <2>4, RefTypes DEF FinalInv, Rt, Key, Saving
  <1>3. ASSUME NEW c \in Calls,
               \/ AliasSaved(c) \/ ClaimSaved(c) \/ RecordSaved(c)
               \/ Replay(c) \/ Refuse(c) \/ CancelWaiting(c) \/ Preflight(c)
               \/ Transmit(c) \/ Respond(c) \/ CancelFinish(c)
        PROVE  FinalInv'
    <2>1. /\ Rt(c) \in Runtimes
          /\ \E x : pc' = [pc EXCEPT ![c] = x] /\ x # "record"
          /\ UNCHANGED req
          /\ snap' \in {snap, [snap EXCEPT ![Rt(c)] = None]}
      <3>1. CASE AliasSaved(c) \/ ClaimSaved(c) \/ RecordSaved(c)
        BY <3>1, EndsWrite
      <3>2. CASE ~(AliasSaved(c) \/ ClaimSaved(c) \/ RecordSaved(c))
        BY <1>3, <3>2, NoWrite
      <3>. QED
        BY <3>1, <3>2
    <2>. QED
      BY <1>0, <2>1, RefTypes DEF FinalInv, Rt, Key
  <1>4. CASE Crash
    BY <1>4 DEF Crash, FinalInv, InFlight, Admitted
  <1>5. CASE RuntimeStep
    <2>1. UNCHANGED <<pc, req>>
      BY <1>5, RuntimeFrame DEF callVars
    <2>2. \/ UNCHANGED snap
          \/ \E r \in Runtimes : \E m : /\ phase[r] \in {"load", "save"}
                                         /\ snap' = [snap EXCEPT ![r] = m]
      BY <1>5 DEF RuntimeStep, StartStep, EnterSlot, FencePrevious, TakeOver,
         Load, LoadFails, StartSaved, CancelStart, Stop, LookUp, Tick, vars,
         ledgerVars, Save, Write
    <2>3. \A c \in Calls : pc[c] = "record" => phase[Rt(c)] = "up"
      BY DEF IInv, OwnerInv, InFlight, Admitted
    <2>. QED
      BY <1>0, <2>1, <2>2, <2>3, RefTypes DEF FinalInv, Rt, Key
  <1>. QED
    BY <1>1, <1>2, <1>3, <1>4, <1>5, NextCases

\* A transmission stays in the history, with the age of its intent.
LEMMA SentStep ==
  ASSUME IInv, SentInv, [Next]_vars
  PROVE  SentInv'
  <1>. DEFINE Has(c) == pc[c] = "sent" \/ (pc[c] = "finish" /\ outcome[c] = "accepted")
  <1>1. SUFFICES ASSUME NEW c \in Calls, Has(c)'
                 PROVE  \E s \in sends' : /\ s.key = Key(c)'
                                          /\ s.created = mem'[Rt(c)'][Key(c)'].created
    BY DEF SentInv, Here
  <1>2. ~Crash
    BY <1>1 DEF Crash, InFlight, Admitted
  <1>3. pc[c] \in {"send", "sent", "finish"} /\ (Has(c) \/ Transmit(c))
    <2>1. ASSUME NEW d \in Calls, NEW q \in Request, Arrive(d, q)
          PROVE  Has(c)
      BY <1>1, <2>1, RefTypes DEF Arrive, Goto
    <2>2. ASSUME NEW d \in Calls, BeginAlias(d) \/ BeginClaim(d) \/ BeginRecord(d)
          PROVE  Has(c)
      <3>1. UNCHANGED outcome /\ \E x \in Saving : pc' = [pc EXCEPT ![d] = x]
        BY <2>2, BeginsWrite DEF BeginAlias, BeginClaim, BeginRecord
      <3>. QED
        BY <1>1, <3>1, RefTypes DEF Saving
    <2>3. ASSUME NEW d \in Calls, AliasSaved(d) \/ ClaimSaved(d) \/ RecordSaved(d)
          PROVE  Has(c)
      <3>1. UNCHANGED outcome
        BY <2>3 DEF AliasSaved, ClaimSaved, RecordSaved
      <3>. QED
        BY <1>1, <2>3, <3>1, EndsWrite, RefTypes
    <2>4. ASSUME NEW d \in Calls,
                 \/ Replay(d) \/ Refuse(d) \/ CancelWaiting(d) \/ CancelFinish(d)
          PROVE  Has(c)
      BY <1>1, <2>4, RefTypes
      DEF Replay, Refuse, CancelWaiting, CancelFinish, Return, Goto
    <2>5. ASSUME NEW d \in Calls, Preflight(d)
          PROVE  Has(c)
      BY <1>1, <2>5, RefTypes DEF Preflight, Goto
    <2>6. ASSUME NEW d \in Calls, Respond(d)
          PROVE  Has(c)
      BY <1>1, <2>6, RefTypes DEF Respond, Goto
    <2>7. ASSUME NEW d \in Calls, Transmit(d)
          PROVE  Has(c) \/ (Transmit(c) /\ pc[c] = "send")
      BY <1>1, <2>7, RefTypes DEF Transmit, Goto
    <2>8. CASE RuntimeStep
      BY <1>1, <2>8, RuntimeFrame DEF callVars
    <2>. QED
      BY <1>2, <2>1, <2>2, <2>3, <2>4, <2>5, <2>6, <2>7, <2>8, NextCases
  <1>4. /\ Rt(c)' = Rt(c) /\ Key(c)' = Key(c)
        /\ mem'[Rt(c)][Key(c)].created = mem[Rt(c)][Key(c)].created
    BY <1>1, <1>2, <1>3, AgeKept DEF Waiting
  <1>5. CASE Has(c)
    <2>1. sends \subseteq sends'
      BY SendsStep
    <2>. QED
      BY <1>4, <1>5, <2>1 DEF SentInv, Here
  <1>6. CASE Transmit(c)
    <2>. DEFINE s == [call |-> c, key |-> Key(c), created |-> Here(c)[Key(c)].created]
    <2>1. s \in sends'
      BY <1>6 DEF Transmit
    <2>2. s.key = Key(c) /\ s.created = Here(c)[Key(c)].created
      OBVIOUS
    <2>. HIDE DEF s
    <2>. QED
      BY <1>4, <2>1, <2>2 DEF Here
  <1>. QED
    BY <1>3, <1>5, <1>6

\* Every record of ledger m may replace that of the ledger in the file.
Leads(m) == \A k \in Keys : Follows(k, disk[k], m[k], sends, now)

\* The ledger that a call is about to write may replace the one in the file.
LEMMA BeginsLeads ==
  ASSUME IInv, RefInv, NEW c \in Calls, NEW m \in Ledger, Begins(c, m)
  PROVE  Leads(m)
  <1>1. /\ Serving(Rt(c)) /\ Rt(c) \in Runtimes /\ Key(c) \in Keys
        /\ Here(c) = mem[Rt(c)] /\ Here(c) \in Ledger
    BY WriterServes DEF Begins
  <1>2. Leads(Here(c))
    BY <1>1 DEF RefInv, LeadInv, Leads
  <1>3. Leads(Pruned(c))
    BY <1>1, <1>2, RefTypes, FollowsPruned DEF Leads, Pruned
  <1>4. CASE BeginAlias(c) /\ m = WithAlias(c)
    <2>1. \A k \in Keys : /\ m[k] = None <=> Pruned(c)[k] = None
                          /\ Pruned(c)[k] # None =>
                               /\ m[k].created = Pruned(c)[k].created
                               /\ m[k].status = Pruned(c)[k].status
      BY <1>4, AliasLedger DEF BeginAlias, Enters, Matches, IInv
    <2>. QED
      BY <1>3, <2>1, FollowsAlike DEF Leads
  <1>5. CASE BeginClaim(c) /\ m = WithClaim(c)
    <2>1. /\ \A k \in Keys : k # Key(c) => m[k] = Pruned(c)[k]
          /\ Pending(m[Key(c)], now)
          /\ Pruned(c)[Key(c)] = None
      BY <1>5, ClaimLedger DEF BeginClaim, Enters, Existing, IInv
    <2>2. Fenced(Pruned(c), sends, now)
      BY <1>1, RefTypes, FencedPrune DEF IInv, FenceInv, Pruned
    <2>3. \A s \in sends : s.key = Key(c) => s.created + Retention <= now
      BY <2>1, <2>2 DEF Fenced
    <2>4. Yields(disk[Key(c)], now)
      BY <1>1, <1>3, <2>1 DEF Leads, Follows
    <2>5. Follows(Key(c), disk[Key(c)], m[Key(c)], sends, now)
      BY <2>1, <2>3, <2>4 DEF Follows, Pending
    <2>. QED
      BY <1>3, <2>1, <2>5 DEF Leads
  <1>6. CASE BeginRecord(c) /\ m = WithStatus(Here(c), Key(c), FinalStatus(c))
    <2>1. /\ pc[c] = "finish" /\ outcome[c] \in Outcomes \ {"none"}
          /\ Here(c)[Key(c)] # None /\ Intent(c)
      BY <1>1, <1>6, WaitingFacts, RefTypes
      DEF BeginRecord, IInv, OutcomeInv, Waiting
    <2>2. FinalStatus(c) \in {"accepted", "failed", "unknown"}
          /\ (FinalStatus(c) = "accepted" => outcome[c] = "accepted")
      BY <2>1 DEF FinalStatus, Outcomes
    <2>3. FinalStatus(c) \in Status
      BY <2>2 DEF Status
    <2>4. /\ \A k \in Keys : k # Key(c) => m[k] = Here(c)[k]
          /\ m[Key(c)] # None
          /\ m[Key(c)].created = Here(c)[Key(c)].created
          /\ m[Key(c)].status = FinalStatus(c)
      BY <1>1, <1>6, <2>1, <2>3, WithStatusLedger
    <2>5. Pending(disk[Key(c)], Here(c)[Key(c)].created)
      BY <2>1 DEF Intent, Waiting
    <2>6. FinalStatus(c) = "accepted" =>
            \E s \in sends : s.key = Key(c) /\ s.created = Here(c)[Key(c)].created
      BY <2>1, <2>2 DEF RefInv, SentInv
    <2>7. Follows(Key(c), disk[Key(c)], m[Key(c)], sends, now)
      BY <2>2, <2>4, <2>5, <2>6 DEF Follows, Moves, Pending, Settled
    <2>. QED
      BY <1>2, <2>4, <2>7 DEF Leads
  <1>. QED
    BY <1>4, <1>5, <1>6 DEF Begins

\* When a write ends, the memory may replace what the file has then.
LEMMA EndsLeads ==
  ASSUME IInv, RefInv, NEW c \in Calls,
         AliasSaved(c) \/ ClaimSaved(c) \/ RecordSaved(c)
  PROVE  \A k \in Keys : Follows(k, disk'[k], mem'[Rt(c)][k], sends, now)
  <1>1. /\ Serving(Rt(c)) /\ Rt(c) \in Runtimes /\ Key(c) \in Keys
        /\ Here(c) = mem[Rt(c)] /\ Here(c) \in Ledger
    BY WriterServes
  <1>2. snap[Rt(c)] # None /\ disk' \in {disk, snap[Rt(c)]} /\ pc[c] \in Saving
    BY EndsWrite
  <1>3. \A k \in Keys : Follows(k, disk'[k], Here(c)[k], sends, now)
    <2>1. CASE disk' = disk
      BY <1>1, <2>1 DEF RefInv, LeadInv
    <2>2. CASE disk' = snap[Rt(c)]
      BY <1>1, <1>2, <2>2, FollowsItself DEF RefInv, MemInv
    <2>. QED
      BY <1>2, <2>1, <2>2
  <1>4. CASE UNCHANGED mem
    BY <1>1, <1>3, <1>4
  <1>5. CASE mem' = [mem EXCEPT ![Rt(c)] = Withdrawn(Here(c), c)]
    <2>1. mem'[Rt(c)] = Withdrawn(Here(c), c)
      BY <1>1, <1>5, RefTypes
    <2>. QED
      BY <1>1, <1>3, <2>1, WithdrawnLedger, FollowsAlike
  <1>6. ASSUME NEW st \in {"unknown", "unsaved"},
               mem' = [mem EXCEPT ![Rt(c)] = WithStatus(Here(c), Key(c), st)],
               \/ pc[c] = "claim" /\ (st = "unknown" => disk' = snap[Rt(c)])
               \/ pc[c] = "record" /\ st = "unknown"
        PROVE  \A k \in Keys : Follows(k, disk'[k], mem'[Rt(c)][k], sends, now)
    <2>. DEFINE m == WithStatus(Here(c), Key(c), st)
    <2>1. mem'[Rt(c)] = m
      BY <1>1, <1>6, RefTypes
    <2>2. /\ \A k \in Keys : k # Key(c) => m[k] = Here(c)[k]
          /\ m[Key(c)] = None <=> Here(c)[Key(c)] = None
          /\ Here(c)[Key(c)] # None => /\ m[Key(c)].created = Here(c)[Key(c)].created
                                       /\ m[Key(c)].status = st
      <3>1. st \in Status
        BY <1>6 DEF Status
      <3>. QED
        BY <1>1, <3>1, WithStatusLedger
    <2>. HIDE DEF m
    <2>3. CASE Here(c)[Key(c)] = None
      BY <1>3, <2>1, <2>2, <2>3
    <2>4. CASE Here(c)[Key(c)] # None /\ pc[c] = "record"
      <3>1. Here(c)[Key(c)].status \in {"accepted", "failed", "unknown"}
        BY <1>1, <1>2, <2>4 DEF RefInv, MemInv, FinalInv
      <3>2. Follows(Key(c), disk'[Key(c)], m[Key(c)], sends, now)
        BY <1>1, <1>3, <1>6, <2>2, <2>4, <3>1, FollowsUnknown
      <3>. QED
        BY <1>3, <2>1, <2>2, <3>2
    <2>5. CASE Here(c)[Key(c)] # None /\ pc[c] = "claim"
      <3>1. Here(c)[Key(c)].status = "pending"
        BY <2>5 DEF IInv, IntentInv
      <3>2. CASE st = "unsaved"
        <4>1. Follows(Key(c), disk'[Key(c)], m[Key(c)], sends, now)
          BY <1>1, <1>3, <2>2, <2>5, <3>1, <3>2, FollowsUnsaved
        <4>. QED
          BY <1>3, <2>1, <2>2, <4>1
      <3>3. CASE st = "unknown"
        <4>1. disk'[Key(c)] = Here(c)[Key(c)]
          BY <1>1, <1>2, <1>6, <2>5, <3>3 DEF RefInv, MemInv
        <4>2. Follows(Key(c), disk'[Key(c)], m[Key(c)], sends, now)
          BY <2>2, <2>5, <3>1, <3>3, <4>1 DEF Follows, Moves, Settled
        <4>. QED
          BY <1>3, <2>1, <2>2, <4>2
      <3>. QED
        BY <1>6, <3>2, <3>3
    <2>. QED
      BY <1>6, <2>3, <2>4, <2>5
  <1>7. \/ UNCHANGED mem
        \/ mem' = [mem EXCEPT ![Rt(c)] = Withdrawn(Here(c), c)]
        \/ \E st \in {"unknown", "unsaved"} :
             /\ mem' = [mem EXCEPT ![Rt(c)] = WithStatus(Here(c), Key(c), st)]
             /\ \/ pc[c] = "claim" /\ (st = "unknown" => disk' = snap[Rt(c)])
                \/ pc[c] = "record" /\ st = "unknown"
    <2>1. CASE AliasSaved(c)
      BY <1>1, <2>1 DEF AliasSaved
    <2>2. CASE ClaimSaved(c)
      BY <1>1, <2>2 DEF ClaimSaved, Write
    <2>3. CASE RecordSaved(c)
      BY <1>1, <2>3 DEF RecordSaved
    <2>. QED
      BY <2>1, <2>2, <2>3
  <1>. QED
    BY <1>4, <1>5, <1>6, <1>7

\* Memories and snapshots stay one step ahead of the file.
LEMMA LeadStep ==
  ASSUME IInv, RefInv, [Next]_vars
  PROVE  LeadInv'
  <1>1. LeadInv /\ TypeOK
    BY RefTypes DEF RefInv
  <1>2. ASSUME NEW c \in Calls, NEW q \in Request, Arrive(c, q)
        PROVE  LeadInv'
    BY <1>1, <1>2 DEF Arrive, LeadInv, Serving, ledgerVars, runtimeVars,
                      historyVars, envVars
  <1>3. ASSUME NEW c \in Calls, BeginAlias(c) \/ BeginClaim(c) \/ BeginRecord(c)
        PROVE  LeadInv'
    <2>1. PICK m \in Ledger : /\ Begins(c, m)
                              /\ mem' = [mem EXCEPT ![Rt(c)] = m]
                              /\ snap' = [snap EXCEPT ![Rt(c)] = m]
      BY <1>3, BeginsSaves
    <2>2. UNCHANGED <<disk, phase, available, active, sends, now>>
      BY <1>3, BeginsWrite DEF runtimeVars
    <2>3. Leads(m)
      BY <2>1, BeginsLeads
    <2>. QED
      BY <1>1, <2>1, <2>2, <2>3, RefTypes DEF LeadInv, Leads, Serving
  <1>4. ASSUME NEW c \in Calls, AliasSaved(c) \/ ClaimSaved(c) \/ RecordSaved(c)
        PROVE  LeadInv'
    <2>1. \A k \in Keys : Follows(k, disk'[k], mem'[Rt(c)][k], sends, now)
      BY <1>4, EndsLeads
    <2>2. /\ Rt(c) \in Runtimes /\ owner = Rt(c)
          /\ snap' = [snap EXCEPT ![Rt(c)] = None]
          /\ available' \subseteq available
          /\ UNCHANGED <<phase, sends, now>>
      BY <1>4, EndsWrite, WriterOwns DEF runtimeVars
    <2>3. \A r \in Runtimes : Serving(r)' => r = Rt(c)
      <3>1. \/ \A r \in Runtimes : active'[r] \subseteq active[r]
            \/ active' = [active EXCEPT ![Rt(c)] = @ \cup {c}]
        BY <1>4, <2>2, RefTypes DEF AliasSaved, ClaimSaved, RecordSaved, Retire
      <3>2. \A r \in Runtimes : Serving(r)' => r = Rt(c) \/ Serving(r)
        BY <2>2, <3>1, RefTypes DEF Serving
      <3>. QED
        BY <2>2, <3>2, ServingFacts
    <2>4. \A r \in Runtimes : snap'[r] = None
      BY <2>2, WriterOwns, RefTypes
    <2>. QED
      BY <2>1, <2>2, <2>3, <2>4 DEF LeadInv
  <1>5. ASSUME NEW r \in Runtimes, mem' \in {mem, [mem EXCEPT ![r] = Prune(@)]},
               UNCHANGED <<disk, snap, phase, sends, now>>,
               available' \subseteq available,
               \A x \in Runtimes : active'[x] \subseteq active[x]
        PROVE  LeadInv'
    <2>1. \A x \in Runtimes : Serving(x)' => Serving(x)
      BY <1>5 DEF Serving
    <2>2. Serving(r) => Leads(Prune(mem[r]))
      BY <1>1, <1>5, RefTypes, FollowsPruned DEF LeadInv, Leads
    <2>. QED
      BY <1>1, <1>5, <2>1, <2>2, RefTypes DEF LeadInv, Leads
  <1>6. ASSUME NEW c \in Calls,
               \/ Replay(c) \/ Refuse(c) \/ CancelWaiting(c) \/ Preflight(c)
               \/ Respond(c) \/ CancelFinish(c)
        PROVE  LeadInv'
    <2>1. /\ Rt(c) \in Runtimes
          /\ mem' \in {mem, [mem EXCEPT ![Rt(c)] = Prune(@)]}
          /\ UNCHANGED <<disk, snap, phase, available, now>>
      BY <1>6, NoWrite DEF runtimeVars
    <2>2. UNCHANGED sends
      BY <1>6 DEF Replay, Refuse, CancelWaiting, Preflight, Respond, CancelFinish,
                  historyVars
    <2>3. \A r \in Runtimes : active'[r] \subseteq active[r]
      BY <1>6, <2>1, RefTypes DEF Replay, Refuse, CancelWaiting, Preflight, Respond,
                  CancelFinish, Retire
    <2>. QED
      BY <1>5, <2>1, <2>2, <2>3
  <1>7. ASSUME NEW r \in Runtimes,
               \/ EnterSlot(r) \/ FencePrevious(r) \/ TakeOver(r) \/ LoadFails(r)
               \/ CancelStart(r) \/ Stop(r)
        PROVE  LeadInv'
    <2>1. /\ \/ UNCHANGED phase
             \/ \E p \in {"slot", "drain", "load", "up", "aborted"} :
                  phase' = [phase EXCEPT ![r] = p]
          /\ available' \subseteq available
          /\ UNCHANGED <<disk, mem, snap, active, sends, now>>
      BY <1>7 DEF EnterSlot, FencePrevious, TakeOver, LoadFails, CancelStart, Stop,
         Fence, LeaveStart, ledgerVars, runtimeVars, historyVars, envVars
    <2>2. \A x \in Runtimes : Serving(x)' => Serving(x)
      BY <2>1, RefTypes DEF Serving
    <2>. QED
      BY <1>1, <2>1, <2>2 DEF LeadInv
  <1>8. ASSUME NEW r \in Runtimes, LookUp(r)
        PROVE  LeadInv'
    BY <1>5, <1>8, RefTypes DEF LookUp, runtimeVars, historyVars, envVars
  <1>9. ASSUME NEW r \in Runtimes, Load(r)
        PROVE  LeadInv'
    <2>. DEFINE m == Restored(Prune(disk))
    <2>1. Leads(m)
      <3>1. Leads(Prune(disk))
        BY FollowsItself DEF Leads, Prune
      <3>2. Prune(disk) \in Ledger
        BY RefTypes, PruneLedger
      <3>3. ASSUME NEW k \in Keys
            PROVE  Follows(k, disk[k], m[k], sends, now)
        <4>. DEFINE rec == Prune(disk)[k]
                    unknown == [rec EXCEPT !.status = "unknown"]
        <4>1. rec \in {disk[k], None} /\ rec \in Record \cup {None}
          BY <3>2, RefTypes, PruneLedger DEF Ledger
        <4>2. rec # None => /\ unknown \in Record /\ unknown # None
                            /\ unknown.status = "unknown"
                            /\ unknown.created = rec.created
          BY <4>1, NoneAssumption DEF Record, Status
        <4>3. m[k] = IF rec # None /\ rec.status = "pending" THEN unknown ELSE rec
          BY DEF Restored
        <4>. HIDE DEF unknown, rec, m
        <4>4. CASE rec # None /\ rec.status = "pending"
          BY <4>1, <4>2, <4>3, <4>4 DEF Follows, Moves, Settled
        <4>5. CASE ~(rec # None /\ rec.status = "pending")
          BY <3>1, <4>3, <4>5 DEF Leads, rec
        <4>. QED
          BY <4>4, <4>5
      <3>. QED
        BY <3>3 DEF Leads
    <2>2. /\ mem' = [mem EXCEPT ![r] = m]
          /\ snap' \in {snap, [snap EXCEPT ![r] = m]}
          /\ available' \subseteq available \cup {r}
          /\ \E p : phase' = [phase EXCEPT ![r] = p]
          /\ UNCHANGED <<disk, active, sends, now>>
      BY <1>9 DEF Load, Save, LeaveStart, historyVars, envVars
    <2>. HIDE DEF m
    <2>3. \A x \in Runtimes : x # r /\ Serving(x)' => Serving(x)
      BY <2>2, RefTypes DEF Serving
    <2>. QED
      BY <1>1, <2>1, <2>2, <2>3, RefTypes DEF LeadInv, Leads
  <1>10. ASSUME NEW r \in Runtimes, StartSaved(r)
         PROVE  LeadInv'
    <2>1. /\ phase[r] = "save" /\ snap[r] # None
          /\ snap' = [snap EXCEPT ![r] = None]
          /\ disk' \in {disk, snap[r]}
          /\ available' \subseteq available \cup {r}
          /\ \E p : phase' = [phase EXCEPT ![r] = p]
          /\ UNCHANGED <<mem, active, sends, now>>
      BY <1>10 DEF StartSaved, Write, LeaveStart, historyVars, envVars
    <2>2. Serving(r) /\ owner = r
      BY <2>1, WriterOwns DEF Serving
    <2>3. \A x \in Runtimes : Serving(x)' => x = r
      BY <2>1, <2>2, RefTypes, ServingFacts DEF Serving
    <2>4. \A x \in Runtimes : snap'[x] = None
      BY <2>1, <2>2, WriterOwns, RefTypes
    <2>5. \A k \in Keys : Follows(k, disk'[k], mem[r][k], sends, now)
      <3>1. CASE disk' = disk
        BY <1>1, <2>2, <3>1 DEF LeadInv
      <3>2. CASE disk' = snap[r]
        BY <2>1, <3>2, FollowsItself DEF RefInv, MemInv
      <3>. QED
        BY <2>1, <3>1, <3>2
    <2>. QED
      BY <2>1, <2>3, <2>4, <2>5 DEF LeadInv
  <1>11. ASSUME NEW c \in Calls, Transmit(c)
         PROVE  LeadInv'
    <2>. DEFINE t == Here(c)[Key(c)].created
                s == [call |-> c, key |-> Key(c), created |-> t]
    <2>1. /\ pc[c] = "send"
          /\ sends' = sends \cup {s}
          /\ UNCHANGED <<disk, mem, snap, phase, available, active, now>>
      BY <1>11 DEF Transmit, ledgerVars, runtimeVars, envVars
    <2>2. /\ Rt(c) \in Runtimes /\ Key(c) \in Keys /\ Intent(c)
          /\ owner = Rt(c) /\ Here(c) = mem[Rt(c)]
      BY <2>1, WaitingFacts DEF Waiting, Here
    <2>3. /\ Pending(disk[Key(c)], t)
          /\ Pending(Here(c)[Key(c)], t)
          /\ snap[Rt(c)] # None => Pending(snap[Rt(c)][Key(c)], t)
      BY <2>1, <2>2 DEF Intent, Pending, Waiting
    <2>4. s.key = Key(c)
      OBVIOUS
    <2>. HIDE DEF t, s
    <2>5. \A n : Pending(n, t) => Follows(Key(c), disk[Key(c)], n, sends', now)
      BY <2>3 DEF Pending, Follows, Moves
    <2>6. \A k \in Keys : \A n : k # Key(c) /\ Follows(k, disk[k], n, sends, now) =>
            Follows(k, disk[k], n, sends', now)
      BY <2>1, <2>4 DEF Follows
    <2>7. \A r \in Runtimes : snap[r] # None \/ Serving(r) => r = Rt(c)
      BY <2>2, WriterOwns, ServingFacts
    <2>8. ASSUME NEW k \in Keys
          PROVE  /\ snap[Rt(c)] # None =>
                      Follows(k, disk[k], snap[Rt(c)][k], sends', now)
                 /\ Serving(Rt(c)) =>
                      Follows(k, disk[k], mem[Rt(c)][k], sends', now)
      BY <1>1, <2>2, <2>3, <2>5, <2>6 DEF LeadInv
    <2>. QED
      BY <2>1, <2>7, <2>8 DEF LeadInv, Serving
  <1>12. CASE Crash
    <2>1. \A r \in Runtimes : snap'[r] = None /\ ~Serving(r)'
      BY <1>12, RefTypes DEF Crash, Serving
    <2>. QED
      BY <2>1 DEF LeadInv
  <1>13. CASE Tick
    <2>1. /\ now' \in Nat /\ now <= now'
          /\ UNCHANGED <<disk, mem, snap, phase, available, active, sends>>
      BY <1>13, RefTypes DEF Tick, ledgerVars, runtimeVars, historyVars
    <2>2. \A k \in Keys : disk[k] \in Record \cup {None}
      BY RefTypes DEF Ledger
    <2>3. \A k \in Keys : \A n : Follows(k, disk[k], n, sends, now) =>
            Follows(k, disk[k], n, sends, now')
      BY <2>1, <2>2, RefTypes, FollowsLater
    <2>. QED
      BY <1>1, <2>1, <2>3 DEF LeadInv, Serving
  <1>14. CASE UNCHANGED vars
    BY <1>1, <1>14 DEF LeadInv, Serving, vars, ledgerVars, runtimeVars, historyVars,
                       envVars
  <1>. QED
    BY <1>2, <1>3, <1>4, <1>6, <1>7, <1>8, <1>9, <1>10, <1>11, <1>12, <1>13, <1>14,
       NextCases DEF RuntimeStep, StartStep

\* Nothing is in memory, under way or sent.
LEMMA RefInvInit == Init => RefInv
  <1>1. SUFFICES ASSUME Init
                 PROVE  RefInv
    OBVIOUS
  <1>. QED
    BY <1>1 DEF Init, RefInv, MemInv, LeadInv, SentInv, FinalInv, Serving

\* Every step keeps RefInv.
LEMMA RefInvStep == IInv /\ RefInv /\ [Next]_vars => RefInv'
  BY MemStep, LeadStep, SentStep, FinalStep DEF RefInv
-----------------------------------------------------------------------------
(***************************************************************************)
(* Every step of CorrelatedSends is one of KeyedSend, for every key        *)
(***************************************************************************)

\* How a step can change what KeyedSend sees.
LEMMA VisibleStep ==
  ASSUME IInv, [Next]_vars
  PROVE  \/ UNCHANGED <<disk, sends, now>>
         \/ /\ \E r \in Runtimes : snap[r] # None /\ disk' = snap[r]
            /\ UNCHANGED <<sends, now>>
         \/ \E c \in Calls : Transmit(c)
         \/ Tick
  <1>1. ASSUME NEW c \in Calls,
               \/ \E q \in Request : Arrive(c, q)
               \/ BeginAlias(c) \/ BeginClaim(c) \/ BeginRecord(c)
               \/ Replay(c) \/ Refuse(c) \/ CancelWaiting(c) \/ Preflight(c)
               \/ Respond(c) \/ CancelFinish(c)
        PROVE  UNCHANGED <<disk, sends, now>>
    BY <1>1 DEF Arrive, BeginAlias, BeginClaim, BeginRecord, Replay, Refuse,
       CancelWaiting, Preflight, Respond, CancelFinish, ledgerVars, historyVars,
       envVars
  <1>2. ASSUME NEW c \in Calls, AliasSaved(c) \/ ClaimSaved(c) \/ RecordSaved(c)
        PROVE  /\ \/ disk' = disk
                  \/ \E r \in Runtimes : snap[r] # None /\ disk' = snap[r]
               /\ UNCHANGED <<sends, now>>
    BY <1>2, EndsWrite
  <1>3. CASE Crash
    BY <1>3 DEF Crash, historyVars
  <1>4. CASE RuntimeStep /\ ~Tick
    BY <1>4 DEF RuntimeStep, StartStep, EnterSlot, FencePrevious, TakeOver, Load,
       LoadFails, StartSaved, Write, CancelStart, Stop, LookUp, vars, ledgerVars,
       historyVars, envVars
  <1>. QED
    BY <1>1, <1>2, <1>3, <1>4, NextCases

\* A replacement that Follows allows is a step of KeyedSend.
LEMMA ReplacementKeeps ==
  ASSUME IInv, NEW k \in Keys, disk'[k] \in Record \cup {None},
         Follows(k, disk[k], disk'[k], sends, now), UNCHANGED <<sends, now>>
  PROVE  [Promise(k)!Next]_(Promise(k)!vars)
  <1>. DEFINE old == disk[k]
              new == disk'[k]
              e == IF old = None THEN None
                   ELSE [status |-> old.status, created |-> old.created]
              f == IF new = None THEN None
                   ELSE [status |-> new.status, created |-> new.created]
              log == {[call |-> s.call, created |-> s.created] :
                        s \in {x \in sends : x.key = k}}
  <1>1. old \in Record \cup {None} /\ new \in Record \cup {None}
    BY RefTypes DEF Ledger
  <1>2. /\ e = None <=> old = None
        /\ f = None <=> new = None
    BY <1>1, NoneAssumption DEF Record
  <1>3. ASSUME NEW s \in sends, s.key = k
        PROVE  \E t \in log : t.created = s.created
    <2>1. [call |-> s.call, created |-> s.created] \in log
      BY <1>3
    <2>. QED
      BY <2>1
  <1>4. \A t \in log : \E s \in sends : s.key = k /\ t.created = s.created
    OBVIOUS
  <1>5. CASE old = None /\ new = None
    BY <1>5 DEF Promise!vars
  <1>6. CASE old # None /\ new = None /\ Yields(old, now)
    BY <1>2, <1>6 DEF Promise!Next, Promise!Forget, Promise!Expired, Yields
  <1>7. CASE /\ new # None /\ Yields(old, now)
             /\ new.status \in {"pending", "unsaved"}
             /\ \A s \in sends : s.key = k => s.created + Retention <= new.created
    BY <1>2, <1>4, <1>7 DEF Promise!Next, Promise!Claim, Promise!Expired, Yields
  <1>8. CASE /\ new # None /\ old # None
             /\ new.created = old.created /\ new.status = old.status
    BY <1>8 DEF Promise!vars
  <1>9. CASE /\ new # None /\ old # None
             /\ new.created = old.created /\ new.status # old.status
             /\ Moves(old.status, new.status)
             /\ \/ new.status # "accepted"
                \/ \E s \in sends : s.key = k /\ s.created = new.created
    BY <1>2, <1>3, <1>9
    DEF Promise!Next, Promise!Resolve, Promise!Transmitted, Promise!Settled, Moves,
        Settled
  <1>. QED
    BY <1>5, <1>6, <1>7, <1>8, <1>9 DEF Follows

\* The one transmission of a claim is a step of KeyedSend for its key, and no
\* step for any other.
LEMMA TransmitKeeps ==
  ASSUME IInv, NEW c \in Calls, Transmit(c), NEW k \in Keys
  PROVE  [Promise(k)!Next]_(Promise(k)!vars)
  <1>. DEFINE t == Here(c)[Key(c)].created
              s == [call |-> c, key |-> Key(c), created |-> t]
  <1>1. pc[c] = "send" /\ sends' = sends \cup {s} /\ UNCHANGED <<disk, now>>
    BY DEF Transmit, ledgerVars, envVars
  <1>2. s.key = Key(c) /\ s.call = c /\ s.created = t
    OBVIOUS
  <1>. HIDE DEF s
  <1>3. CASE k # Key(c)
    <2>1. {x \in sends' : x.key = k} = {x \in sends : x.key = k}
      BY <1>1, <1>2, <1>3
    <2>. QED
      BY <1>1, <2>1 DEF Promise!vars
  <1>4. CASE k = Key(c)
    <2>. DEFINE log == {[call |-> x.call, created |-> x.created] :
                          x \in {x \in sends : x.key = k}}
                e == [status |-> disk[k].status, created |-> disk[k].created]
                new == [call |-> c, created |-> t]
    <2>1. Pending(disk[k], t) /\ t \in Nat
      BY <1>1, <1>4, WaitingFacts, BoundsAssumption
      DEF Intent, Waiting, Here, Ledger, Record
    <2>2. disk[k] \in Record
      BY <2>1, RefTypes DEF Ledger, Pending
    <2>3. e # None
      BY <2>2, NoneAssumption DEF Record
    <2>4. \A x \in log : x.created # t
      <3>1. \A x \in sends : x.key = k => x.created + Retention <= t
        BY <1>1, <1>4 DEF IInv, SpacingInv
      <3>2. \A x \in sends : x.created \in Nat
        BY BoundsAssumption DEF IInv, TypeOK
      <3>3. \A x \in sends : x.key = k => x.created # t
        BY <2>1, <3>1, <3>2, RetentionAssumption
      <3>. QED
        BY <3>3
    <2>5. {[call |-> x.call, created |-> x.created] :
             x \in {x \in sends' : x.key = k}} = log \cup {new}
      BY <1>1, <1>2, <1>4
    <2>6. new.created = t
      OBVIOUS
    <2>. QED
      BY <1>1, <2>1, <2>3, <2>4, <2>5, <2>6
      DEF Promise!Next, Promise!Transmit, Promise!Transmitted, Pending
  <1>. QED
    BY <1>3, <1>4

\* The next-state relation implements that of KeyedSend for every key.
LEMMA StepKeeps ==
  ASSUME IInv, RefInv, [Next]_vars, NEW k \in Keys
  PROVE  [Promise(k)!Next]_(Promise(k)!vars)
  <1>1. CASE UNCHANGED <<disk, sends, now>>
    BY <1>1 DEF Promise!vars
  <1>2. ASSUME NEW r \in Runtimes, snap[r] # None, disk' = snap[r],
               UNCHANGED <<sends, now>>
        PROVE  [Promise(k)!Next]_(Promise(k)!vars)
    <2>1. Follows(k, disk[k], disk'[k], sends, now)
      BY <1>2 DEF RefInv, LeadInv
    <2>2. disk'[k] \in Record \cup {None}
      BY <1>2, RefTypes DEF Ledger
    <2>. QED
      BY <1>2, <2>1, <2>2, ReplacementKeeps
  <1>3. ASSUME NEW c \in Calls, Transmit(c)
        PROVE  [Promise(k)!Next]_(Promise(k)!vars)
    BY <1>3, TransmitKeeps
  <1>4. CASE Tick
    <2>1. now' = now + 1 /\ UNCHANGED <<disk, sends>>
      BY <1>4 DEF Tick, ledgerVars, historyVars
    <2>2. now' > now
      BY <2>1, RefTypes
    <2>. QED
      BY <2>1, <2>2 DEF Promise!Next, Promise!Tick
  <1>. QED
    BY <1>1, <1>2, <1>3, <1>4, VisibleStep

\* The initial state is one of KeyedSend.
LEMMA InitKeeps == Init => \A k \in Keys : Promise(k)!Init
  BY DEF Init, EmptyLedger, Promise!Init

\* The correlated-send ledger keeps the promise of KeyedSend for every key: a
\* durable claim comes first, it is transmitted at most once, an uncertain
\* entry is never forgotten and any other one only after its retention.
THEOREM KeepsPromiseHolds == Spec => KeepsPromise
  <1>1. Init => IInv /\ RefInv /\ \A k \in Keys : Promise(k)!Init
    BY IInvInit, RefInvInit, InitKeeps
  <1>2. IInv /\ RefInv /\ [Next]_vars => IInv' /\ RefInv'
    BY IInvStep, RefInvStep
  <1>3. IInv /\ RefInv /\ [Next]_vars =>
          [\A k \in Keys : [Promise(k)!Next]_(Promise(k)!vars)]_vars
    BY StepKeeps
  <1>. QED
    BY <1>1, <1>2, <1>3, PTL DEF Spec, KeepsPromise
=============================================================================
