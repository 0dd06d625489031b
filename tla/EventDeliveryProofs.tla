-------------------------- MODULE EventDeliveryProofs --------------------------
(***************************************************************************)
(* Proofs about EventDelivery, for any number of events, runtimes, tasks   *)
(* and crashes.  The first half is about publications: the channel file    *)
(* has one writer, no event is published before the file holds its claim,  *)
(* and none is published twice.  The second half is about the tables: they *)
(* keep their limits, they keep every claim and token that has not lost    *)
(* its place to younger ones, and what is resolved is in the file.         *)
(***************************************************************************)
EXTENDS EventDelivery, FiniteSetTheorems, TLAPS

\* What is proved of the types: TypeOK without the limits of the tables, which
\* are not needed here.
Typed ==
  /\ disk \in Tables
  /\ mem \in [Runtimes -> Tables]
  /\ undo \in [Runtimes -> Tables]
  /\ snap \in [Runtimes -> Tables \cup {None}]
  /\ lock \in [Runtimes -> Tasks \cup Runtimes \cup {None}]
  /\ phase \in [Runtimes -> Phases]
  /\ stopping \subseteq Runtimes
  /\ volatile \subseteq Runtimes
  /\ slotLock \in Runtimes \cup {None}
  /\ owner \in Runtimes \cup {None}
  /\ task \in [Tasks -> Job \cup {None}]
  /\ born \in [Events -> Times]
  /\ published \in [Events -> Seq([rt : Runtimes, claim : Times])]
  /\ now \in Times

\* Who is in the writer slot, and who can still admit a write.
SlotInv ==
  \A r \in Runtimes :
    /\ phase[r] \in {"slot", "drain", "load"} => slotLock = r
    /\ phase[r] = "load" => owner = r /\ lock[r] = r
    /\ lock[r] \in Runtimes => lock[r] = r /\ phase[r] = "load"
    /\ phase[r] = "drain" => owner # None /\ owner \in stopping
    /\ phase[r] = "up" /\ r \notin stopping => owner = r
    /\ owner = r => phase[r] \in {"load", "up", "failed"}
    /\ r \in volatile => phase[r] \in {"up", "gone"}

\* A task that writes holds the lock of its runtime, which owns the slot; what
\* it writes is what its runtime has in memory.
LockInv ==
  /\ \A t \in Tasks : task[t] # None =>
       /\ phase[Rt(t)] = "up"
       /\ task[t].at \in Writing => lock[Rt(t)] = t
  /\ \A r \in Runtimes : lock[r] \in Tasks =>
       /\ task[lock[r]] # None
       /\ task[lock[r]].at \in Writing
       /\ Rt(lock[r]) = r
       /\ owner = r
       /\ snap[r] # None /\ mem[r] = snap[r]
  /\ \A r \in Runtimes : snap[r] # None => lock[r] \in Tasks

\* The handler of an event was started in time, and does not take too long.
InTime(j) ==
  /\ j.since <= now /\ now <= j.since + HandlingTime
  /\ j.at \in {"claim", "claiming", "publish"} => j.id \in Events
  /\ j.at \in {"remember", "remembering"} => j.id \in Messages
  /\ j.id \in Events =>
       /\ born[j.id] <= j.since + FutureSkew
       /\ j.since <= born[j.id] + MaxAge \/ j.at \in {"claiming", "publish"}

TimeInv == \A t \in Tasks : task[t] # None => InTime(task[t])

\* No table has a claim of the future.
Past(m) == \A e \in Events : m.evs[e] # None => m.evs[e] <= now

PastInv ==
  /\ Past(disk)
  /\ \A r \in Runtimes : Past(mem[r]) /\ Past(undo[r])
  /\ \A r \in Runtimes : snap[r] # None => Past(snap[r])

\* A claim of e at time c is covered by table m: it is in it, or a later one is,
\* or it is over.
Covers(m, e, c) ==
  (m.evs[e] # None /\ m.evs[e] >= c) \/ c + EventTTL <= now

\* Runtimes whose memory can still suppress an event.
Admits(r) == Serving(r) \/ lock[r] \in Tasks

\* Runtime q claimed event e at time c, and published it or is about to.
IsClaim(e, q, c) ==
  \/ \E i \in DOMAIN published[e] : published[e][i] = [rt |-> q, claim |-> c]
  \/ \E t \in Tasks : /\ At(t, "publish") /\ Id(t) = e
                      /\ Rt(t) = q /\ task[t].since = c

\* Such a claim is in the file and in every memory that could suppress the event
\* again, and in the one a failing write falls back to.
Covered(e, q, c) ==
  /\ q \notin volatile => Covers(disk, e, c)
  /\ \A r \in Runtimes : q = r \/ {q, r} \cap volatile = {} =>
       /\ Admits(r) => Covers(mem[r], e, c)
       /\ lock[r] \in Tasks => Covers(undo[r], e, c)

\* A claim was made in time by a runtime that was up, and is covered unless it
\* made room for others.
Sound(e, q, c) ==
  /\ phase[q] \in {"up", "gone"}
  /\ c <= now
  /\ born[e] <= c + FutureSkew
  /\ e \notin evicted => Covered(e, q, c)

CoverInv ==
  \A e \in Events, q \in Runtimes, c \in Times : IsClaim(e, q, c) => Sound(e, q, c)

\* A claim that is being written is in the tables that are written.
ClaimingInv ==
  \A t \in Tasks : At(t, "claiming") /\ Id(t) \notin evicted =>
    mem[Rt(t)].evs[Id(t)] = task[t].since

\* Runtimes q and r are different, and one of them keeps no file.
Apart(q, r) == q # r /\ {q, r} \cap volatile # {}

\* Task t has claimed its event, or is writing the claim.
Claims(t) == (At(t, "claiming") \/ At(t, "publish")) /\ Id(t) \notin evicted

\* An event is claimed and published by runtimes that are apart.
OnceInv ==
  /\ PublishedOnce
  /\ \A t \in Tasks : Claims(t) =>
       \A i \in DOMAIN published[Id(t)] : Apart(published[Id(t)][i].rt, Rt(t))
  /\ \A t, u \in Tasks : t # u /\ Claims(t) /\ Claims(u) /\ Id(t) = Id(u) =>
       Apart(Rt(t), Rt(u))

IInv ==
  /\ Typed /\ SlotInv /\ LockInv /\ TimeInv /\ PastInv
  /\ CoverInv /\ ClaimingInv /\ OnceInv
-----------------------------------------------------------------------------
(***************************************************************************)
(* Types, and the operators on tables                                      *)
(***************************************************************************)

\* The numbers are numbers.
LEMMA Numbers ==
  /\ EventTTL \in Nat /\ MessageTTL \in Nat /\ MaxAge \in Nat
  /\ FutureSkew \in Nat /\ HandlingTime \in Nat /\ MaxTime \in Nat
  /\ Times \subseteq Nat
  BY EventBoundsAssumption DEF Times

\* None is nothing else, and tasks are not runtimes.
LEMMA Nothing ==
  /\ None \notin Nat /\ None \notin Tasks /\ None \notin Runtimes
  /\ None \notin Tables /\ None \notin Job
  /\ Tasks \cap Runtimes = {}
  BY EventNoneAssumption

\* The fields of a table.
LEMMA TableFields ==
  ASSUME NEW m \in Tables
  PROVE  /\ m.msgs \in [Messages -> 0 .. MaxTime + MessageTTL \cup {None}]
         /\ m.evs \in [Events -> Times \cup {None}]
         /\ m # None
  BY Nothing DEF Tables

\* A table with other messages or other claims.
LEMMA TableUpdates ==
  ASSUME NEW m \in Tables
  PROVE  /\ \A f \in [Messages -> 0 .. MaxTime + MessageTTL \cup {None}] :
              /\ [m EXCEPT !.msgs = f] \in Tables
              /\ [m EXCEPT !.msgs = f].evs = m.evs
         /\ \A f \in [Events -> Times \cup {None}] :
              /\ [m EXCEPT !.evs = f] \in Tables
              /\ [m EXCEPT !.evs = f].evs = f
  BY DEF Tables

\* Forgetting what is over leaves a table, with fewer claims.
LEMMA FreshTables ==
  ASSUME NEW m \in Tables
  PROVE  /\ Fresh(m) \in Tables
         /\ \A e \in Events :
              Fresh(m).evs[e] = IF m.evs[e] # None /\ m.evs[e] + EventTTL > now
                                THEN m.evs[e] ELSE None
  <1>. DEFINE f == [x \in Messages |->
                      IF m.msgs[x] # None /\ m.msgs[x] > now THEN m.msgs[x] ELSE None]
              g == [e \in Events |->
                      IF m.evs[e] # None /\ m.evs[e] + EventTTL > now
                      THEN m.evs[e] ELSE None]
  <1>1. f \in [Messages -> 0 .. MaxTime + MessageTTL \cup {None}]
        /\ g \in [Events -> Times \cup {None}]
    BY TableFields
  <1>2. Fresh(m) = [msgs |-> f, evs |-> g]
    BY DEF Fresh
  <1>. HIDE DEF f
  <1>. QED
    BY <1>1, <1>2 DEF Tables

\* Trimming a table leaves a table.
LEMMA TrimmedEntries ==
  ASSUME NEW S, NEW T, NEW f \in [S -> T \cup {None}], NEW new, NEW max,
         NEW g \in Trimmed(f, new, max)
  PROVE  g \in [S -> T \cup {None}]
  <1>1. g = f \/ \E x \in Held(f) : g = [f EXCEPT ![x] = None]
    BY DEF Trimmed, Oldest
  <1>. QED
    BY <1>1 DEF Held

\* What a load makes of the file.
LEMMA RestoredTables ==
  ASSUME disk \in Tables
  PROVE  /\ Restored \in Tables
         /\ \A e \in Events :
              Restored.evs[e] = IF disk.evs[e] # None /\ disk.evs[e] > now
                                THEN None ELSE Fresh(disk).evs[e]
  <1>. DEFINE f == [m \in Messages |->
                      IF m \in Unrouted THEN None ELSE Fresh(disk).msgs[m]]
              g == [e \in Events |->
                      IF disk.evs[e] # None /\ disk.evs[e] > now THEN None
                      ELSE Fresh(disk).evs[e]]
  <1>1. f \in [Messages -> 0 .. MaxTime + MessageTTL \cup {None}]
        /\ g \in [Events -> Times \cup {None}]
    BY FreshTables, TableFields
  <1>2. Restored = [msgs |-> f, evs |-> g]
    BY DEF Restored
  <1>. HIDE DEF f
  <1>. QED
    BY <1>1, <1>2 DEF Tables

\* The job of a task.
LEMMA JobFields ==
  ASSUME Typed, NEW t \in Tasks, task[t] # None
  PROVE  /\ task[t] \in Job
         /\ task[t].at \in Before \cup Writing \cup {"publish"}
         /\ Rt(t) \in Runtimes /\ Id(t) \in Ids /\ task[t].since \in Times
  BY DEF Typed, Job, Rt, Id

\* A publication.
LEMMA PublishedFields ==
  ASSUME Typed, NEW e \in Events, NEW i \in DOMAIN published[e]
  PROVE  \E q \in Runtimes, c \in Times : published[e][i] = [rt |-> q, claim |-> c]
  <1>. DEFINE P == [rt : Runtimes, claim : Times]
  <1>1. published[e] \in Seq(P)
    BY DEF Typed
  <1>2. published[e][i] \in P
    <2>. HIDE DEF P
    <2>1. i \in 1 .. Len(published[e])
      BY <1>1
    <2>. QED
      BY <1>1, <2>1
  <1>. QED
    BY <1>2
-----------------------------------------------------------------------------
(***************************************************************************)
(* What the steps do                                                       *)
(***************************************************************************)

\* The steps of a starting or stopping runtime that write no table.
SlotStep(r) ==
  EnterSlot(r) \/ Stop(r) \/ FencePrevious(r) \/ TakeOver(r) \/ LoadFails(r)
  \/ CancelStart(r)

\* The steps of a task that change no table.
QuietStep(t) ==
  \/ \E r \in Runtimes, e \in Events : Deliver(t, r, e)
  \/ \E r \in Runtimes, m \in Messages \ Events : Track(t, r, m)
  \/ Verified(t) \/ Revoked(t) \/ Refused(t) \/ Abandoned(t) \/ Interrupted(t)

\* The steps, by what they change.
LEMMA NextCases ==
  ASSUME [Next]_vars
  PROVE  \/ \E r \in Runtimes : SlotStep(r) \/ Load(r)
         \/ \E t \in Tasks : \/ QuietStep(t) \/ Duplicate(t) \/ Publish(t)
                             \/ BeginRemember(t) \/ BeginClaim(t)
                             \/ Remembered(t) \/ Claimed(t)
         \/ Tick
         \/ Crash
         \/ (\E id \in Ids : Reroute(id)) \/ UNCHANGED vars
  BY DEF Next, StartStep, TaskStep, SlotStep, QuietStep

\* A task goes on.
LEMMA Goes ==
  ASSUME Typed, NEW t \in Tasks, task[t] # None,
         NEW a \in Before \cup Writing \cup {"publish"}, NEW s \in Times,
         \/ s = task[t].since /\ Goto(t, a)
         \/ task' = [task EXCEPT ![t].at = a, ![t].since = s]
  PROVE  \E j \in Job : /\ task' = [task EXCEPT ![t] = j]
                       /\ j = [at |-> a, rt |-> Rt(t), id |-> Id(t), since |-> s]
  <1>. DEFINE j == [at |-> a, rt |-> Rt(t), id |-> Id(t), since |-> s]
  <1>1. task[t] \in Job /\ j \in Job
    BY JobFields DEF Job
  <1>2. PICK x \in Before \cup Writing \cup {"publish"}, q \in Runtimes, i \in Ids,
             c \in Times : task[t] = [at |-> x, rt |-> q, id |-> i, since |-> c]
    BY <1>1, Zenon DEF Job
  <1>3. Rt(t) = q /\ Id(t) = i /\ task[t].since = c
    BY <1>2 DEF Rt, Id
  <1>4. [task[t] EXCEPT !.at = a] = [at |-> a, rt |-> q, id |-> i, since |-> c]
    BY <1>2
  <1>5. [[task[t] EXCEPT !.at = a] EXCEPT !.since = s] = j
    <2>1. [[at |-> a, rt |-> q, id |-> i, since |-> c] EXCEPT !.since = s]
            = [at |-> a, rt |-> q, id |-> i, since |-> s]
      OBVIOUS
    <2>. QED
      BY ONLY <1>3, <1>4, <2>1
  <1>6. task \in [Tasks -> Job \cup {None}]
    BY DEF Typed
  <1>7. CASE s = task[t].since /\ Goto(t, a)
    BY <1>1, <1>3, <1>4, <1>6, <1>7 DEF Goto
  <1>8. CASE task' = [task EXCEPT ![t].at = a, ![t].since = s]
    <2>1. task' = [task EXCEPT ![t] = [[task[t] EXCEPT !.at = a] EXCEPT !.since = s]]
      BY <1>6, <1>8
    <2>. QED
      BY <1>1, <1>5, <2>1
  <1>. QED
    BY <1>7, <1>8

\* A write begins under the lock, in a runtime that serves.
LEMMA BeginsWrite ==
  ASSUME IInv, NEW t \in Tasks, BeginRemember(t) \/ BeginClaim(t)
  PROVE  /\ task[t] # None /\ Rt(t) \in Runtimes
         /\ lock[Rt(t)] = None /\ Serving(Rt(t)) /\ owner = Rt(t)
         /\ \E m \in Tables :
              /\ mem' = [mem EXCEPT ![Rt(t)] = m]
              /\ snap' = [snap EXCEPT ![Rt(t)] = m]
              /\ Past(m)
              /\ BeginRemember(t) => m.evs = Fresh(mem[Rt(t)]).evs
              /\ BeginClaim(t) =>
                   \A e \in Events :
                     \/ m.evs[e] = IF e = Id(t) THEN now ELSE Fresh(mem[Rt(t)]).evs[e]
                     \/ m.evs[e] = None /\ e \in evicted'
         /\ \E j \in Job :
              /\ task' = [task EXCEPT ![t] = j]
              /\ j.rt = Rt(t) /\ j.id = Id(t)
              /\ \/ /\ BeginRemember(t) /\ At(t, "remember") /\ j.at = "remembering"
                    /\ j.since = task[t].since
                 \/ /\ BeginClaim(t) /\ At(t, "claim") /\ j.at = "claiming"
                    /\ j.since = now
         /\ evicted \subseteq evicted'
         /\ undo' = [undo EXCEPT ![Rt(t)] = mem[Rt(t)]]
         /\ lock' = [lock EXCEPT ![Rt(t)] = t]
         /\ UNCHANGED <<disk, runtimeVars, published, envVars>>
  <1>1. /\ task[t] # None /\ lock[Rt(t)] = None /\ Rt(t) \notin stopping
        /\ undo' = [undo EXCEPT ![Rt(t)] = mem[Rt(t)]]
        /\ lock' = [lock EXCEPT ![Rt(t)] = t]
        /\ UNCHANGED <<disk, runtimeVars, published, envVars>>
    BY DEF BeginRemember, BeginClaim, At, Fenced, Save, historyVars
  <1>2. Rt(t) \in Runtimes /\ Id(t) \in Ids
    BY <1>1, JobFields DEF IInv
  <1>3. Serving(Rt(t)) /\ owner = Rt(t)
    BY <1>1, <1>2 DEF IInv, LockInv, SlotInv, Serving
  <1>. DEFINE h == mem[Rt(t)]
              m0 == Fresh(h)
  <1>4. /\ h \in Tables /\ m0 \in Tables /\ Past(h) /\ now \in Times
        /\ \A e \in Events : m0.evs[e] \in {h.evs[e], None}
    BY <1>2, FreshTables DEF IInv, Typed, PastInv
  <1>5. Past(m0)
    BY <1>4 DEF Past
  <1>6. \E j \in Job :
          /\ task' = [task EXCEPT ![t] = j]
          /\ j.rt = Rt(t) /\ j.id = Id(t)
          /\ \/ /\ BeginRemember(t) /\ At(t, "remember") /\ j.at = "remembering"
                /\ j.since = task[t].since
             \/ /\ BeginClaim(t) /\ At(t, "claim") /\ j.at = "claiming"
                /\ j.since = now
    <2>1. /\ {"remembering", "claiming"} \subseteq Before \cup Writing \cup {"publish"}
          /\ task[t].since \in Times /\ now \in Times /\ Typed
      BY <1>1, JobFields DEF Writing, IInv, Typed
    <2>2. CASE BeginRemember(t)
      <3>1. At(t, "remember") /\ Goto(t, "remembering")
        BY <2>2 DEF BeginRemember
      <3>2. PICK j \in Job : /\ task' = [task EXCEPT ![t] = j]
                           /\ j = [at |-> "remembering", rt |-> Rt(t), id |-> Id(t),
                                   since |-> task[t].since]
        BY <1>1, <2>1, <3>1, Goes
      <3>. QED
        BY <2>2, <3>1, <3>2
    <2>3. CASE BeginClaim(t)
      <3>1. /\ At(t, "claim")
            /\ task' = [task EXCEPT ![t].at = "claiming", ![t].since = now]
        BY <2>3 DEF BeginClaim
      <3>2. PICK j \in Job : /\ task' = [task EXCEPT ![t] = j]
                           /\ j = [at |-> "claiming", rt |-> Rt(t), id |-> Id(t),
                                   since |-> now]
        BY <1>1, <2>1, <3>1, Goes
      <3>. QED
        BY <2>3, <3>1, <3>2
    <2>. QED
      BY <2>2, <2>3
  <1>7. evicted \subseteq evicted'
    BY DEF BeginRemember, BeginClaim, historyVars
  <1>8. CASE BeginRemember(t)
    <2>1. PICK f \in Trimmed([m0.msgs EXCEPT ![Id(t)] = now + MessageTTL], Id(t),
                             MaxMessages) :
            Save(t, [m0 EXCEPT !.msgs = f])
      BY <1>8 DEF BeginRemember
    <2>2. now + MessageTTL \in 0 .. MaxTime + MessageTTL
      BY <1>4, Numbers DEF Times
    <2>3. [m0.msgs EXCEPT ![Id(t)] = now + MessageTTL]
            \in [Messages -> 0 .. MaxTime + MessageTTL \cup {None}]
      BY <1>4, <2>2, TableFields
    <2>4. f \in [Messages -> 0 .. MaxTime + MessageTTL \cup {None}]
      BY <2>1, <2>3, TrimmedEntries
    <2>. DEFINE m == [m0 EXCEPT !.msgs = f]
    <2>5. m \in Tables /\ m.evs = m0.evs
      BY <1>4, <2>4, TableUpdates
    <2>6. Past(m)
      BY <1>5, <2>5 DEF Past
    <2>7. ~BeginClaim(t)
      BY <1>8 DEF BeginRemember, BeginClaim, At
    <2>8. mem' = [mem EXCEPT ![Rt(t)] = m] /\ snap' = [snap EXCEPT ![Rt(t)] = m]
      BY <2>1 DEF Save
    <2>. HIDE DEF m
    <2>. QED
      BY <1>1, <1>2, <1>3, <1>6, <1>7, <2>5, <2>6, <2>7, <2>8
  <1>9. CASE BeginClaim(t)
    <2>. DEFINE claims == [m0.evs EXCEPT ![Id(t)] = now]
    <2>1. PICK f \in Trimmed(claims, Id(t), MaxEvents) :
            /\ Save(t, [m0 EXCEPT !.evs = f])
            /\ evicted' = evicted \cup (Held(claims) \ Held(f))
      BY <1>9 DEF BeginClaim
    <2>2. claims \in [Events -> Times \cup {None}]
      BY <1>4, TableFields
    <2>3. \A e \in Events : claims[e] = IF e = Id(t) THEN now ELSE m0.evs[e]
      BY <1>4, TableFields
    <2>. HIDE DEF claims
    <2>4. /\ f \in [Events -> Times \cup {None}]
          /\ \A e \in Events : f[e] = claims[e] \/ (f[e] = None /\ claims[e] # None)
      <3>1. f \in Trimmed(claims, Id(t), MaxEvents)
        BY <2>1
      <3>2. f \in [Events -> Times \cup {None}]
        BY <2>2, <3>1, TrimmedEntries
      <3>3. f = claims \/ \E x \in Held(claims) : f = [claims EXCEPT ![x] = None]
        BY <3>1 DEF Trimmed, Oldest
      <3>. QED
        BY <2>2, <3>2, <3>3 DEF Held
    <2>. DEFINE m == [m0 EXCEPT !.evs = f]
    <2>5. m \in Tables /\ m.evs = f
      BY <1>4, <2>4, TableUpdates
    <2>6. Past(m)
      BY <1>4, <1>5, <2>3, <2>4, <2>5, Numbers DEF Past
    <2>7. \A e \in Events : f[e] = None /\ claims[e] # None => e \in evicted'
      BY <2>1, <2>2, <2>4 DEF Held
    <2>8. ~BeginRemember(t)
      BY <1>9 DEF BeginRemember, BeginClaim, At
    <2>9. mem' = [mem EXCEPT ![Rt(t)] = m] /\ snap' = [snap EXCEPT ![Rt(t)] = m]
      BY <2>1 DEF Save
    <2>. HIDE DEF m
    <2>10. \A e \in Events :
             \/ m.evs[e] = IF e = Id(t) THEN now ELSE m0.evs[e]
             \/ m.evs[e] = None /\ e \in evicted'
      BY <2>3, <2>4, <2>5, <2>7
    <2>. QED
      BY <1>1, <1>2, <1>3, <1>6, <1>7, <2>5, <2>6, <2>8, <2>9, <2>10
  <1>. QED
    BY <1>8, <1>9

\* A write ends: its task goes on, or its memory is rolled back.
LEMMA EndsWrite ==
  ASSUME IInv, NEW t \in Tasks, Remembered(t) \/ Claimed(t)
  PROVE  LET r == Rt(t) IN
         /\ task[t] # None /\ r \in Runtimes /\ lock[r] = t /\ owner = r
         /\ phase[r] = "up" /\ snap[r] = mem[r] /\ mem[r] \in Tables
         /\ snap' = [snap EXCEPT ![r] = None]
         /\ lock' = [lock EXCEPT ![r] = None]
         /\ undo' = [undo EXCEPT ![r] = EmptyTables]
         /\ r \in volatile => disk' = disk
         /\ \/ /\ mem' = mem
               /\ r \notin volatile => disk' = mem[r]
               /\ \/ At(t, "remembering") /\ task' = [task EXCEPT ![t] = None]
                  \/ \E j \in Job :
                       /\ task' = [task EXCEPT ![t] = j]
                       /\ j.rt = r /\ j.id = Id(t) /\ j.since = task[t].since
                       /\ \/ At(t, "remembering") /\ Id(t) \in Events /\ j.at = "claim"
                          \/ At(t, "claiming") /\ j.at = "publish"
            \/ /\ mem' = [mem EXCEPT ![r] = undo[r]]
               /\ disk' \in {disk, mem[r]} /\ r \notin volatile
               /\ task' = [task EXCEPT ![t] = None]
         /\ UNCHANGED <<runtimeVars, published, evicted, envVars>>
  <1>. DEFINE r == Rt(t)
  <1>1. task[t] # None /\ task[t].at \in Writing
    BY DEF Remembered, Claimed, At, Writing
  <1>2. r \in Runtimes
    BY <1>1, JobFields DEF IInv
  <1>3. lock[r] = t /\ phase[r] = "up"
    BY <1>1 DEF IInv, LockInv
  <1>4. lock[r] \in Tasks
    BY <1>3
  <1>5. owner = r /\ snap[r] = mem[r]
    BY <1>2, <1>4 DEF IInv, LockInv
  <1>6. mem[r] \in Tables
    BY <1>2 DEF IInv, Typed
  <1>7. UNCHANGED <<runtimeVars, published, evicted, envVars>>
    BY DEF Remembered, Claimed, historyVars
  <1>8. PICK result \in {"ok", "cancelled", "failed"} :
          /\ Write(r, result)
          /\ result # "ok" => Finish(t)
          /\ result = "ok" =>
               \/ At(t, "remembering") /\ AfterToken(t)
               \/ At(t, "claiming") /\ Goto(t, "publish")
    <2>1. CASE Remembered(t)
      BY <2>1 DEF Remembered
    <2>2. CASE Claimed(t)
      BY <2>2 DEF Claimed
    <2>. QED
      BY <2>1, <2>2
  <1>9. /\ snap' = [snap EXCEPT ![r] = None]
        /\ lock' = [lock EXCEPT ![r] = None]
        /\ undo' = [undo EXCEPT ![r] = EmptyTables]
        /\ r \in volatile => disk' = disk /\ result = "ok"
        /\ disk' \in {disk, mem[r]}
        /\ result = "ok" => mem' = mem /\ (r \notin volatile => disk' = mem[r])
        /\ result # "ok" => mem' = [mem EXCEPT ![r] = undo[r]]
    BY <1>5, <1>8 DEF Write
  <1>10. ASSUME NEW a \in {"claim", "publish"}, Goto(t, a)
         PROVE  \E j \in Job :
                  /\ task' = [task EXCEPT ![t] = j]
                  /\ j.rt = r /\ j.id = Id(t) /\ j.since = task[t].since /\ j.at = a
    <2>1. /\ a \in Before \cup Writing \cup {"publish"}
          /\ task[t].since \in Times /\ Typed
      BY <1>1, JobFields DEF Before, IInv
    <2>2. PICK j \in Job : /\ task' = [task EXCEPT ![t] = j]
                         /\ j = [at |-> a, rt |-> Rt(t), id |-> Id(t),
                                 since |-> task[t].since]
      BY <1>1, <1>10, <2>1, Goes
    <2>. QED
      BY <2>2
  <1>11. CASE result = "ok"
    <2>1. \/ At(t, "remembering") /\ task' = [task EXCEPT ![t] = None]
          \/ At(t, "remembering") /\ Id(t) \in Events /\ Goto(t, "claim")
          \/ At(t, "claiming") /\ Goto(t, "publish")
      BY <1>8, <1>11 DEF AfterToken, Finish
    <2>. QED
      BY <1>1, <1>2, <1>3, <1>5, <1>6, <1>7, <1>9, <1>10, <1>11, <2>1
  <1>12. CASE result # "ok"
    BY <1>1, <1>2, <1>3, <1>5, <1>6, <1>7, <1>8, <1>9, <1>12 DEF Finish
  <1>. QED
    BY <1>11, <1>12

\* The steps of a task that change no table.
LEMMA Quiet ==
  ASSUME IInv, NEW t \in Tasks, QuietStep(t)
  PROVE  /\ UNCHANGED <<fileVars, runtimeVars, published, evicted, envVars>>
         /\ \E j \in Job \cup {None} :
              /\ task' = [task EXCEPT ![t] = j]
              /\ j # None => j.at \in Before /\ phase[j.rt] = "up" /\ InTime(j)
  <1>1. UNCHANGED <<fileVars, runtimeVars, published, evicted, envVars>>
    BY DEF QuietStep, Deliver, Track, Verified, Revoked, Refused, Abandoned,
           Interrupted, historyVars
  <1>2. CASE Finish(t)
    BY <1>1, <1>2 DEF Finish
  <1>3. ASSUME NEW r \in Runtimes, NEW e \in Events, Deliver(t, r, e)
        PROVE  \E j \in Job : /\ task' = [task EXCEPT ![t] = j]
                             /\ j.at \in Before /\ phase[j.rt] = "up" /\ InTime(j)
    <2>. DEFINE j == [at |-> IF e \in Managed THEN "verify" ELSE FirstWrite(e),
                      rt |-> r, id |-> e, since |-> now]
    <2>1. j \in Job /\ j.at \in Before
      BY DEF Job, Before, FirstWrite, Ids, IInv, Typed
    <2>2. phase[r] = "up" /\ task' = [task EXCEPT ![t] = j]
      BY <1>3 DEF Deliver
    <2>3. InTime(j)
      <3>1. now \in Nat /\ born[e] \in Nat
        BY DEF IInv, Typed, Times
      <3>2. now <= born[e] + MaxAge /\ born[e] <= now + FutureSkew
        BY <1>3 DEF Deliver, Timely
      <3>3. /\ j.since = now /\ j.id = e
            /\ j.at \in {"verify", "remember", "claim"}
            /\ j.at = "remember" => e \in Messages
        BY DEF FirstWrite
      <3>. HIDE DEF j
      <3>. QED
        BY <3>1, <3>2, <3>3, Numbers DEF InTime
    <2>. QED
      BY <2>1, <2>2, <2>3
  <1>4. ASSUME NEW r \in Runtimes, NEW m \in Messages \ Events, Track(t, r, m)
        PROVE  \E j \in Job : /\ task' = [task EXCEPT ![t] = j]
                             /\ j.at \in Before /\ phase[j.rt] = "up" /\ InTime(j)
    <2>. DEFINE j == [at |-> "remember", rt |-> r, id |-> m, since |-> now]
    <2>1. j \in Job /\ j.at \in Before /\ now \in Nat
      BY Numbers DEF Job, Before, Ids, IInv, Typed
    <2>2. phase[r] = "up" /\ task' = [task EXCEPT ![t] = j]
      BY <1>4 DEF Track
    <2>3. InTime(j)
      <3>1. /\ j.since = now /\ j.id \notin Events /\ j.id \in Messages
            /\ j.at = "remember"
        OBVIOUS
      <3>. HIDE DEF j
      <3>. QED
        BY <2>1, <3>1, Numbers DEF InTime
    <2>. QED
      BY <2>1, <2>2, <2>3
  <1>5. CASE Verified(t)
    <2>1. /\ task[t] # None /\ task[t].at = "verify"
          /\ task' = [task EXCEPT ![t].at = FirstWrite(Id(t))]
      BY <1>5 DEF Verified, At, Goto
    <2>2. /\ task[t].since \in Times /\ Id(t) \in Ids
          /\ InTime(task[t]) /\ phase[Rt(t)] = "up"
      BY <2>1, JobFields DEF IInv, TimeInv, LockInv
    <2>3. FirstWrite(Id(t)) \in Before
      BY DEF FirstWrite, Before
    <2>4. PICK j \in Job : /\ task' = [task EXCEPT ![t] = j]
                          /\ j = [at |-> FirstWrite(Id(t)), rt |-> Rt(t), id |-> Id(t),
                                  since |-> task[t].since]
      <3>1. FirstWrite(Id(t)) \in Before \cup Writing \cup {"publish"} /\ Typed
        BY <2>3 DEF IInv
      <3>2. Goto(t, FirstWrite(Id(t)))
        BY <2>1 DEF Goto
      <3>3. task[t] # None /\ task[t].since \in Times
        BY <2>1, <2>2
      <3>. QED
        BY <3>1, <3>2, <3>3, Goes
    <2>5. /\ j.since = task[t].since /\ j.id = task[t].id
          /\ j.at = "claim" => j.id \in Events
          /\ j.at = "remember" => j.id \in Messages
          /\ j.at \in {"claim", "remember"} /\ task[t].at = "verify"
      BY <2>1, <2>2, <2>4 DEF FirstWrite, Id, Ids
    <2>6. InTime(j)
      BY <2>2, <2>5, Numbers DEF InTime
    <2>. QED
      BY <1>1, <2>2, <2>3, <2>4, <2>6
  <1>. QED
    BY <1>1, <1>2, <1>3, <1>4, <1>5
    DEF QuietStep, Revoked, Refused, Abandoned, Interrupted
-----------------------------------------------------------------------------
(***************************************************************************)
(* Every step keeps the invariant                                          *)
(***************************************************************************)

\* The table of a runtime that has not started.
LEMMA EmptyTable == EmptyTables \in Tables /\ \A e \in Events : EmptyTables.evs[e] = None
  BY DEF EmptyTables, Tables

\* What only grows, or stays.
LEMMA Grows ==
  ASSUME IInv, [Next]_vars
  PROVE  /\ now \in Nat /\ now' \in Nat /\ now <= now'
         /\ volatile \subseteq volatile' /\ evicted \subseteq evicted' /\ born' = born
         /\ \A r \in Runtimes : phase[r] \in {"up", "gone"} => phase'[r] \in {"up", "gone"}
  <1>. DEFINE Goal == /\ now' \in {now, now + 1} /\ born' = born
                      /\ volatile \subseteq volatile' /\ evicted \subseteq evicted'
                      /\ \A r \in Runtimes :
                           phase[r] \in {"up", "gone"} => phase'[r] \in {"up", "gone"}
  <1>1. ASSUME NEW r \in Runtimes, SlotStep(r) \/ Load(r)
        PROVE  Goal
    BY <1>1 DEF SlotStep, EnterSlot, Stop, FencePrevious, TakeOver, Load, LoadFails,
       CancelStart, LeaveStart, IInv, Typed, historyVars, envVars
  <1>2. ASSUME NEW t \in Tasks, QuietStep(t) \/ Duplicate(t) \/ Publish(t)
        PROVE  Goal
    BY <1>2, Quiet DEF Duplicate, Publish, runtimeVars, historyVars, envVars
  <1>3. ASSUME NEW t \in Tasks,
               BeginRemember(t) \/ BeginClaim(t) \/ Remembered(t) \/ Claimed(t)
        PROVE  Goal
    <2>1. UNCHANGED <<runtimeVars, envVars>> /\ evicted \subseteq evicted'
      BY <1>3, BeginsWrite, EndsWrite
    <2>. QED
      BY <2>1 DEF runtimeVars, envVars
  <1>4. ASSUME Tick \/ (\E id \in Ids : Reroute(id)) \/ UNCHANGED vars
        PROVE  Goal
    BY <1>4 DEF Tick, Reroute, vars, runtimeVars, historyVars, envVars
  <1>5. ASSUME Crash
        PROVE  Goal
    BY <1>5 DEF Crash, historyVars
  <1>6. Goal
    <2>. HIDE DEF Goal
    <2>. QED
      BY <1>1, <1>2, <1>3, <1>4, <1>5, NextCases
  <1>. QED
    BY <1>6, Numbers DEF IInv, Typed

\* Every step keeps the types.
LEMMA TypedKept ==
  ASSUME IInv, [Next]_vars
  PROVE  Typed'
  <1>. USE DEF IInv
  <1>1. ASSUME NEW r \in Runtimes, SlotStep(r)
        PROVE  Typed'
    <2>1. CASE EnterSlot(r)
      BY <2>1 DEF EnterSlot, Typed, Phases, fileVars, historyVars, envVars
    <2>2. CASE Stop(r)
      BY <2>2 DEF Stop, Typed, fileVars, historyVars, envVars
    <2>3. CASE FencePrevious(r)
      BY <2>3 DEF FencePrevious, Typed, Phases, fileVars, historyVars, envVars
    <2>4. CASE TakeOver(r)
      BY <2>4 DEF TakeOver, Typed, Phases, historyVars, envVars
    <2>5. CASE LoadFails(r)
      BY <2>5 DEF LoadFails, LeaveStart, Typed, Phases, historyVars, envVars
    <2>6. CASE CancelStart(r)
      BY <2>6 DEF CancelStart, LeaveStart, Typed, Phases, historyVars, envVars
    <2>. QED
      BY <1>1, <2>1, <2>2, <2>3, <2>4, <2>5, <2>6 DEF SlotStep
  <1>2. ASSUME NEW r \in Runtimes, Load(r)
        PROVE  Typed'
    <2>1. Restored \in Tables
      BY RestoredTables DEF Typed
    <2>. QED
      BY <1>2, <2>1 DEF Load, LeaveStart, Typed, Phases, envVars
  <1>3. ASSUME NEW t \in Tasks, QuietStep(t)
        PROVE  Typed'
    <2>1. /\ UNCHANGED <<fileVars, runtimeVars, published, evicted, envVars>>
          /\ \E j \in Job \cup {None} : task' = [task EXCEPT ![t] = j]
      BY <1>3, Quiet
    <2>. QED
      BY <2>1 DEF Typed, fileVars, runtimeVars, envVars
  <1>4. ASSUME NEW t \in Tasks, Duplicate(t)
        PROVE  Typed'
    <2>1. task[t] # None
      BY <1>4 DEF Duplicate, At
    <2>2. Rt(t) \in Runtimes
      BY <2>1, JobFields
    <2>3. Fresh(mem[Rt(t)]) \in Tables
      BY <2>2, FreshTables DEF Typed
    <2>. QED
      BY <1>4, <2>2, <2>3 DEF Duplicate, Finish, Typed, runtimeVars, historyVars, envVars
  <1>5. ASSUME NEW t \in Tasks, Publish(t)
        PROVE  Typed'
    <2>. DEFINE p == [rt |-> Rt(t), claim |-> task[t].since]
    <2>1. task[t] # None /\ task[t].at = "publish"
      BY <1>5 DEF Publish, At
    <2>2. p \in [rt : Runtimes, claim : Times] /\ Id(t) \in Events
      BY <2>1, JobFields DEF TimeInv, InTime, Id
    <2>. HIDE DEF p
    <2>3. Noted(Id(t), p) \in Seq([rt : Runtimes, claim : Times])
      <3>1. published[Id(t)] \in Seq([rt : Runtimes, claim : Times])
        BY <2>2 DEF Typed
      <3>2. Append(published[Id(t)], p) \in Seq([rt : Runtimes, claim : Times])
        BY <2>2, <3>1
      <3>. QED
        BY <3>1, <3>2 DEF Noted
    <2>4. published' = [published EXCEPT ![Id(t)] = Noted(Id(t), p)]
      BY <1>5 DEF Publish, p
    <2>. QED
      BY <1>5, <2>2, <2>3, <2>4 DEF Publish, Finish, Typed, fileVars, runtimeVars, envVars
  <1>6. ASSUME NEW t \in Tasks, BeginRemember(t) \/ BeginClaim(t)
        PROVE  Typed'
    <2>1. /\ task[t] # None /\ Rt(t) \in Runtimes
          /\ \E m \in Tables : /\ mem' = [mem EXCEPT ![Rt(t)] = m]
                              /\ snap' = [snap EXCEPT ![Rt(t)] = m]
          /\ \E j \in Job : task' = [task EXCEPT ![t] = j]
          /\ undo' = [undo EXCEPT ![Rt(t)] = mem[Rt(t)]]
          /\ lock' = [lock EXCEPT ![Rt(t)] = t]
          /\ UNCHANGED <<disk, runtimeVars, published, envVars>>
      BY <1>6, BeginsWrite
    <2>2. /\ mem' \in [Runtimes -> Tables] /\ snap' \in [Runtimes -> Tables \cup {None}]
          /\ task' \in [Tasks -> Job \cup {None}] /\ undo' \in [Runtimes -> Tables]
      BY <2>1 DEF Typed
    <2>. QED
      BY <2>1, <2>2 DEF Typed, runtimeVars, envVars
  <1>7. ASSUME NEW t \in Tasks, Remembered(t) \/ Claimed(t)
        PROVE  Typed'
    <2>1. task' \in [Tasks -> Job \cup {None}]
      <3>1. \E j \in Job \cup {None} : task' = [task EXCEPT ![t] = j]
        BY <1>7, EndsWrite
      <3>. QED
        BY <3>1 DEF Typed
    <2>2. /\ mem' \in [Runtimes -> Tables] /\ disk' \in Tables
          /\ snap' \in [Runtimes -> Tables \cup {None}]
          /\ undo' \in [Runtimes -> Tables]
          /\ lock' \in [Runtimes -> Tasks \cup Runtimes \cup {None}]
          /\ UNCHANGED <<runtimeVars, published, envVars>>
      <3>1. PICK r \in Runtimes :
              /\ mem[r] \in Tables
              /\ mem' \in {mem, [mem EXCEPT ![r] = undo[r]]} /\ disk' \in {disk, mem[r]}
              /\ snap' = [snap EXCEPT ![r] = None]
              /\ undo' = [undo EXCEPT ![r] = EmptyTables]
              /\ lock' = [lock EXCEPT ![r] = None]
              /\ UNCHANGED <<runtimeVars, published, envVars>>
        BY <1>7, EndsWrite
      <3>. QED
        BY <3>1, EmptyTable DEF Typed
    <2>. QED
      BY <2>1, <2>2 DEF Typed, runtimeVars, envVars
  <1>8. CASE Tick
    <2>1. now \in 0 .. MaxTime /\ now < MaxTime /\ now' = now + 1
      BY <1>8 DEF Tick, Typed, Times
    <2>2. now' \in Times
      BY <2>1, Numbers DEF Times
    <2>. QED
      BY <1>8, <2>2 DEF Tick, Typed, fileVars, runtimeVars, historyVars
  <1>9. CASE Crash
    BY <1>9, EmptyTable DEF Crash, Typed, Phases, historyVars
  <1>10. CASE (\E id \in Ids : Reroute(id)) \/ UNCHANGED vars
    BY <1>10 DEF Reroute, vars, Typed, fileVars, runtimeVars, historyVars, envVars
  <1>. QED
    BY <1>1, <1>2, <1>3, <1>4, <1>5, <1>6, <1>7, <1>8, <1>9, <1>10, NextCases

\* The slot has one owner, who was alone when it took over.
LEMMA SlotKept ==
  ASSUME IInv, [Next]_vars
  PROVE  SlotInv'
  <1>. USE DEF IInv
  <1>1. ASSUME NEW r \in Runtimes, SlotStep(r)
        PROVE  SlotInv'
    <2>. USE Nothing DEF Typed, SlotInv
    <2>1. CASE EnterSlot(r)
      BY <2>1 DEF EnterSlot, fileVars
    <2>2. CASE Stop(r)
      BY <2>2 DEF Stop, fileVars
    <2>3. CASE FencePrevious(r)
      BY <2>3 DEF FencePrevious, fileVars
    <2>4. CASE TakeOver(r)
      BY <2>4 DEF TakeOver
    <2>5. CASE LoadFails(r)
      BY <2>5 DEF LoadFails, LeaveStart
    <2>6. CASE CancelStart(r)
      BY <2>6 DEF CancelStart, LeaveStart
    <2>. QED
      BY <1>1, <2>1, <2>2, <2>3, <2>4, <2>5, <2>6 DEF SlotStep
  <1>2. ASSUME NEW r \in Runtimes, Load(r)
        PROVE  SlotInv'
    BY <1>2, Nothing DEF Load, LeaveStart, Typed, SlotInv
  <1>3. ASSUME NEW t \in Tasks, QuietStep(t) \/ Duplicate(t) \/ Publish(t)
        PROVE  SlotInv'
    <2>1. UNCHANGED <<phase, stopping, volatile, slotLock, owner, lock>>
      BY <1>3, Quiet DEF Duplicate, Publish, runtimeVars, fileVars
    <2>. QED
      BY <2>1 DEF SlotInv
  <1>4. ASSUME NEW t \in Tasks,
               BeginRemember(t) \/ BeginClaim(t) \/ Remembered(t) \/ Claimed(t)
        PROVE  SlotInv'
    <2>1. /\ UNCHANGED runtimeVars
          /\ phase[Rt(t)] = "up" /\ Rt(t) \in Runtimes
          /\ \E k \in Tasks \cup {None} : lock' = [lock EXCEPT ![Rt(t)] = k]
      BY <1>4, BeginsWrite, EndsWrite DEF Serving
    <2>. QED
      BY <2>1, Nothing DEF runtimeVars, Typed, SlotInv
  <1>5. CASE Tick \/ (\E id \in Ids : Reroute(id)) \/ UNCHANGED vars
    BY <1>5 DEF Tick, Reroute, vars, fileVars, runtimeVars, SlotInv
  <1>6. CASE Crash
    BY <1>6, Nothing DEF Crash, Typed, SlotInv, Phases
  <1>. QED
    BY <1>1, <1>2, <1>3, <1>4, <1>5, <1>6, NextCases

\* A lock and the write under it begin and end together.
LEMMA LockKept ==
  ASSUME IInv, [Next]_vars
  PROVE  LockInv'
  <1>. USE DEF IInv
  <1>1. ASSUME NEW r \in Runtimes, SlotStep(r) \/ Load(r)
        PROVE  LockInv'
    <2>1. task' = task /\ snap' = snap /\ DOMAIN lock' = Runtimes
      BY <1>1 DEF SlotStep, EnterSlot, Stop, FencePrevious, TakeOver, Load, LoadFails,
         CancelStart, LeaveStart, Typed, fileVars
    <2>2. \A q \in Runtimes : phase[q] = "up" => phase'[q] = "up"
      BY <1>1 DEF SlotStep, EnterSlot, Stop, FencePrevious, TakeOver, Load, LoadFails,
         CancelStart, LeaveStart, Typed
    <2>3. \A q \in Runtimes : lock[q] \in Tasks \/ lock'[q] \in Tasks =>
            lock'[q] = lock[q] /\ mem'[q] = mem[q] /\ owner' = owner
      <3>1. \A q \in Runtimes : lock[q] \in Tasks => phase[q] = "up" /\ owner = q
        BY DEF LockInv
      <3>2. CASE EnterSlot(r) \/ Stop(r) \/ FencePrevious(r)
        BY <3>2 DEF EnterSlot, Stop, FencePrevious, fileVars
      <3>3. CASE TakeOver(r)
        <4>1. \A q \in Runtimes : lock[q] \notin Tasks
          BY <3>1, <3>3, Nothing DEF TakeOver
        <4>2. \A q \in Runtimes : lock'[q] \notin Tasks
          BY <3>3, <4>1, Nothing DEF TakeOver, Typed
        <4>. QED
          BY <4>1, <4>2
      <3>4. CASE Load(r) \/ LoadFails(r) \/ CancelStart(r)
        <4>1. /\ phase[r] # "up" /\ owner' = owner
              /\ lock' = [lock EXCEPT ![r] = None]
              /\ \A q \in Runtimes : q # r => mem'[q] = mem[q]
          BY <3>4 DEF Load, LoadFails, CancelStart, LeaveStart, Typed
        <4>. QED
          BY <3>1, <4>1, Nothing DEF Typed
      <3>. QED
        BY <1>1, <3>2, <3>3, <3>4 DEF SlotStep
    <2>4. \A t \in Tasks : task[t] # None =>
            /\ Rt(t) \in Runtimes /\ phase[Rt(t)] = "up"
            /\ task[t].at \in Writing => lock[Rt(t)] = t
      BY JobFields DEF LockInv
    <2>5. \A q \in Runtimes : snap'[q] # None => lock'[q] \in Tasks
      BY <2>1, <2>3 DEF LockInv
    <2>. QED
      BY <2>1, <2>2, <2>3, <2>4, <2>5 DEF LockInv, Rt
  <1>2. ASSUME NEW t \in Tasks, QuietStep(t)
        PROVE  LockInv'
    <2>1. PICK j \in Job \cup {None} :
            /\ task' = [task EXCEPT ![t] = j]
            /\ j # None => j.at \in Before /\ phase[j.rt] = "up"
      BY <1>2, Quiet
    <2>2. UNCHANGED <<mem, snap, lock, phase, owner>>
      BY <1>2, Quiet DEF fileVars, runtimeVars
    <2>3. task[t] = None \/ task[t].at \notin Writing
      BY <1>2 DEF QuietStep, Deliver, Track, Verified, Revoked, Refused, Abandoned,
         Interrupted, At, Before, Writing
    <2>. QED
      BY <2>1, <2>2, <2>3 DEF LockInv, Rt, Typed, Before, Writing
  <1>3. ASSUME NEW t \in Tasks, Duplicate(t) \/ Publish(t)
        PROVE  LockInv'
    <2>1. /\ task' = [task EXCEPT ![t] = None]
          /\ task[t].at \notin Writing
          /\ UNCHANGED <<snap, lock, phase, owner>>
          /\ mem' = mem \/ (lock[Rt(t)] = None /\ \E m : mem' = [mem EXCEPT ![Rt(t)] = m])
      BY <1>3 DEF Duplicate, Publish, Finish, At, Writing, fileVars, runtimeVars
    <2>. QED
      BY <2>1, Nothing DEF LockInv, Rt, Typed
  <1>4. ASSUME NEW t \in Tasks, BeginRemember(t) \/ BeginClaim(t)
        PROVE  LockInv'
    <2>1. PICK j \in Job : /\ task' = [task EXCEPT ![t] = j]
                         /\ j.rt = Rt(t) /\ j.at \in Writing
      BY <1>4, BeginsWrite DEF Writing
    <2>2. PICK m \in Tables : /\ mem' = [mem EXCEPT ![Rt(t)] = m]
                            /\ snap' = [snap EXCEPT ![Rt(t)] = m]
      BY <1>4, BeginsWrite
    <2>3. /\ Rt(t) \in Runtimes /\ lock[Rt(t)] = None /\ owner = Rt(t)
          /\ phase[Rt(t)] = "up"
          /\ lock' = [lock EXCEPT ![Rt(t)] = t]
          /\ UNCHANGED <<phase, owner>>
      BY <1>4, BeginsWrite DEF Serving, runtimeVars
    <2>4. task'[t] = j /\ \A u \in Tasks : u # t => task'[u] = task[u]
      BY <2>1 DEF Typed
    <2>. QED
      BY <2>1, <2>2, <2>3, <2>4, Nothing DEF LockInv, Rt, Typed
  <1>5. ASSUME NEW t \in Tasks, Remembered(t) \/ Claimed(t)
        PROVE  LockInv'
    <2>1. PICK j \in Job \cup {None} :
            /\ task' = [task EXCEPT ![t] = j]
            /\ j # None => j.at \notin Writing /\ j.rt = Rt(t)
      BY <1>5, EndsWrite DEF Writing
    <2>2. /\ Rt(t) \in Runtimes /\ lock[Rt(t)] = t /\ phase[Rt(t)] = "up"
          /\ snap' = [snap EXCEPT ![Rt(t)] = None]
          /\ lock' = [lock EXCEPT ![Rt(t)] = None]
          /\ mem' \in {mem, [mem EXCEPT ![Rt(t)] = undo[Rt(t)]]}
          /\ UNCHANGED <<phase, owner>>
      BY <1>5, EndsWrite DEF runtimeVars
    <2>3. task'[t] = j /\ \A u \in Tasks : u # t => task'[u] = task[u]
      BY <2>1 DEF Typed
    <2>. QED
      BY <2>1, <2>2, <2>3, Nothing DEF LockInv, Rt, Typed
  <1>6. CASE Tick \/ (\E id \in Ids : Reroute(id)) \/ UNCHANGED vars
    BY <1>6 DEF Tick, Reroute, vars, fileVars, runtimeVars, LockInv, Rt
  <1>7. CASE Crash
    BY <1>7, Nothing DEF Crash, LockInv
  <1>. QED
    BY <1>1, <1>2, <1>3, <1>4, <1>5, <1>6, <1>7, NextCases

\* Time passes only while every handler still has some.
LEMMA TimeKept ==
  ASSUME IInv, [Next]_vars
  PROVE  TimeInv'
  <1>. USE DEF IInv
  <1>1. now \in Nat /\ \A e \in Events : born[e] \in Nat
    BY Numbers DEF Typed
  <1>2. \A t \in Tasks : task[t] # None => InTime(task[t]) /\ task[t].since \in Nat
    BY JobFields, Numbers DEF TimeInv
  <1>3. ASSUME NEW t \in Tasks, NEW j \in Job \cup {None},
               task' = [task EXCEPT ![t] = j], UNCHANGED envVars,
               j # None => InTime(j)
        PROVE  TimeInv'
    <2>1. \A u \in Tasks : task'[u] # None => InTime(task'[u])
      BY <1>2, <1>3 DEF Typed
    <2>. QED
      BY <1>3, <2>1 DEF TimeInv, InTime, envVars
  <1>4. CASE \E r \in Runtimes : SlotStep(r) \/ Load(r)
    <2>1. UNCHANGED <<task, envVars>>
      BY <1>4 DEF SlotStep, EnterSlot, Stop, FencePrevious, TakeOver, Load, LoadFails,
         CancelStart
    <2>. QED
      BY <2>1 DEF TimeInv, InTime, envVars
  <1>5. ASSUME NEW t \in Tasks, QuietStep(t)
        PROVE  TimeInv'
    <2>1. UNCHANGED envVars
      BY <1>5, Quiet
    <2>. QED
      BY <1>3, <1>5, <2>1, Quiet
  <1>6. ASSUME NEW t \in Tasks, Duplicate(t) \/ Publish(t)
        PROVE  TimeInv'
    BY <1>3, <1>6 DEF Duplicate, Publish, Finish
  <1>7. ASSUME NEW t \in Tasks, BeginRemember(t) \/ BeginClaim(t)
        PROVE  TimeInv'
    <2>1. PICK j \in Job :
            /\ task' = [task EXCEPT ![t] = j]
            /\ j.id = Id(t)
            /\ \/ At(t, "remember") /\ j.at = "remembering" /\ j.since = task[t].since
               \/ At(t, "claim") /\ j.at = "claiming" /\ j.since = now
      BY <1>7, BeginsWrite
    <2>2. task[t] # None /\ UNCHANGED envVars
      BY <1>7, BeginsWrite
    <2>3. InTime(j)
      BY <1>1, <1>2, <2>1, <2>2, Numbers DEF InTime, At, Id
    <2>. QED
      BY <1>3, <2>1, <2>2, <2>3
  <1>8. ASSUME NEW t \in Tasks, Remembered(t) \/ Claimed(t)
        PROVE  TimeInv'
    <2>1. PICK j \in Job \cup {None} :
            /\ task' = [task EXCEPT ![t] = j]
            /\ j # None =>
                 /\ j.id = Id(t) /\ j.since = task[t].since
                 /\ \/ At(t, "remembering") /\ Id(t) \in Events /\ j.at = "claim"
                    \/ At(t, "claiming") /\ j.at = "publish"
      BY <1>8, EndsWrite
    <2>2. task[t] # None /\ UNCHANGED envVars
      BY <1>8, EndsWrite
    <2>3. j # None => InTime(j)
      BY <1>1, <1>2, <2>1, <2>2, Numbers DEF InTime, At, Id
    <2>. QED
      BY <1>3, <2>1, <2>2, <2>3
  <1>9. CASE Tick
    <2>1. /\ now' = now + 1 /\ UNCHANGED <<task, born>>
          /\ \A t \in Tasks : task[t] # None => now < task[t].since + HandlingTime
      BY <1>9 DEF Tick
    <2>2. \A t \in Tasks : task[t] # None =>
            task[t].since <= now + 1 /\ now + 1 <= task[t].since + HandlingTime
      BY <1>1, <1>2, <2>1, Numbers DEF InTime
    <2>. QED
      BY <1>2, <2>1, <2>2 DEF TimeInv, InTime
  <1>10. CASE Crash
    BY <1>10 DEF Crash, TimeInv
  <1>11. CASE (\E id \in Ids : Reroute(id)) \/ UNCHANGED vars
    BY <1>11 DEF Reroute, vars, envVars, TimeInv, InTime
  <1>. QED
    BY <1>4, <1>5, <1>6, <1>7, <1>8, <1>9, <1>10, <1>11, NextCases

\* No write, no load and no rollback brings a claim of the future.
LEMMA PastKept ==
  ASSUME IInv, [Next]_vars
  PROVE  PastInv'
  <1>. USE DEF IInv
  <1>1. \A m \in Tables, e \in Events : m.evs[e] = None \/ m.evs[e] \in Nat
    BY TableFields, Numbers
  <1>2. now \in Nat /\ now' \in Nat /\ now <= now'
    BY Grows
  <1>3. ASSUME NEW m \in Tables, Past(m)
        PROVE  Past(m)'
    BY <1>1, <1>2, <1>3 DEF Past
  <1>4. ASSUME UNCHANGED <<disk, mem, undo, snap>>
        PROVE  PastInv'
    BY <1>3, <1>4 DEF PastInv, Typed, Past
  <1>5. CASE \E r \in Runtimes : SlotStep(r)
    BY <1>4, <1>5 DEF SlotStep, EnterSlot, Stop, FencePrevious, TakeOver, LoadFails,
       CancelStart, fileVars
  <1>6. ASSUME NEW r \in Runtimes, Load(r)
        PROVE  PastInv'
    <2>1. Restored \in Tables /\ Past(Restored)
      <3>1. Past(disk) /\ Restored \in Tables /\ Fresh(disk) \in Tables
        BY RestoredTables, FreshTables DEF Typed, PastInv
      <3>2. \A e \in Events : Fresh(disk).evs[e] \in {disk.evs[e], None}
                             /\ Restored.evs[e] \in {Fresh(disk).evs[e], None}
        BY RestoredTables, FreshTables DEF Typed
      <3>. QED
        BY <3>1, <3>2 DEF Past
    <2>2. /\ mem' = [mem EXCEPT ![r] = Restored]
          /\ UNCHANGED <<disk, undo, snap, now>>
      BY <1>6 DEF Load, envVars
    <2>. QED
      BY <2>1, <2>2 DEF PastInv, Typed, Past
  <1>7. ASSUME NEW t \in Tasks, QuietStep(t) \/ Publish(t)
        PROVE  PastInv'
    <2>1. UNCHANGED fileVars
      BY <1>7, Quiet DEF Publish
    <2>. QED
      BY <1>4, <2>1 DEF fileVars
  <1>8. ASSUME NEW t \in Tasks, Duplicate(t)
        PROVE  PastInv'
    <2>1. Rt(t) \in Runtimes
      BY <1>8, JobFields DEF Duplicate, At
    <2>2. /\ mem' = [mem EXCEPT ![Rt(t)] = Fresh(mem[Rt(t)])]
          /\ UNCHANGED <<disk, undo, snap, now>>
      BY <1>8 DEF Duplicate, envVars
    <2>3. Past(mem[Rt(t)]) /\ mem[Rt(t)] \in Tables
      BY <2>1 DEF PastInv, Typed
    <2>4. \A e \in Events : Fresh(mem[Rt(t)]).evs[e] \in {mem[Rt(t)].evs[e], None}
      BY <2>3, FreshTables
    <2>5. Past(Fresh(mem[Rt(t)]))
      BY <2>3, <2>4 DEF Past
    <2>. QED
      BY <2>1, <2>2, <2>5 DEF PastInv, Typed, Past
  <1>9. ASSUME NEW t \in Tasks, BeginRemember(t) \/ BeginClaim(t)
        PROVE  PastInv'
    <2>1. PICK m \in Tables : /\ mem' = [mem EXCEPT ![Rt(t)] = m]
                            /\ snap' = [snap EXCEPT ![Rt(t)] = m]
                            /\ Past(m)
      BY <1>9, BeginsWrite
    <2>2. /\ Rt(t) \in Runtimes
          /\ undo' = [undo EXCEPT ![Rt(t)] = mem[Rt(t)]]
          /\ UNCHANGED <<disk, now>>
      BY <1>9, BeginsWrite DEF envVars
    <2>. QED
      BY <2>1, <2>2 DEF PastInv, Typed, Past
  <1>10. ASSUME NEW t \in Tasks, Remembered(t) \/ Claimed(t)
         PROVE  PastInv'
    <2>1. PICK r \in Runtimes :
            /\ mem' \in {mem, [mem EXCEPT ![r] = undo[r]]}
            /\ disk' = disk \/ disk' = mem[r]
            /\ snap' = [snap EXCEPT ![r] = None]
            /\ undo' = [undo EXCEPT ![r] = EmptyTables]
            /\ UNCHANGED now
      BY <1>10, EndsWrite DEF envVars
    <2>. QED
      BY <2>1, EmptyTable DEF PastInv, Typed, Past
  <1>11. CASE Tick \/ (\E id \in Ids : Reroute(id)) \/ UNCHANGED vars
    BY <1>4, <1>11 DEF Tick, Reroute, vars, fileVars
  <1>12. CASE Crash
    <2>1. /\ disk' = disk \/ \E r \in Runtimes : snap[r] # None /\ disk' = snap[r]
          /\ mem' = [r \in Runtimes |-> EmptyTables] /\ undo' = mem'
          /\ snap' = [r \in Runtimes |-> None] /\ UNCHANGED now
      BY <1>12 DEF Crash
    <2>. QED
      BY <2>1, EmptyTable DEF PastInv, Past
  <1>. QED
    BY <1>5, <1>6, <1>7, <1>8, <1>9, <1>10, <1>11, <1>12, NextCases

\* Forgetting what is over uncovers no claim.
LEMMA FreshCovers ==
  ASSUME IInv, NEW m \in Tables, NEW e \in Events, NEW c \in Times, Covers(m, e, c)
  PROVE  Covers(Fresh(m), e, c)
  <1>1. m.evs[e] = None \/ m.evs[e] \in Nat
    BY TableFields, Numbers
  <1>2. now \in Nat /\ c \in Nat /\ EventTTL \in Nat
    BY Numbers DEF IInv, Typed
  <1>3. Fresh(m).evs[e] = IF m.evs[e] # None /\ m.evs[e] + EventTTL > now
                          THEN m.evs[e] ELSE None
    BY FreshTables
  <1>. QED
    BY <1>1, <1>2, <1>3 DEF Covers

\* A claim that is covered stays covered.
LEMMA SoundKept ==
  ASSUME IInv, [Next]_vars, NEW e \in Events, NEW q \in Runtimes, NEW c \in Times,
         Sound(e, q, c)
  PROVE  Sound(e, q, c)'
  <1>. USE DEF IInv
  <1>1. /\ now \in Nat /\ now' \in Nat /\ now <= now' /\ c \in Nat /\ EventTTL \in Nat
        /\ volatile \subseteq volatile' /\ evicted \subseteq evicted' /\ born' = born
        /\ phase'[q] \in {"up", "gone"}
    BY Grows, Numbers DEF Sound
  <1>2. SUFFICES ASSUME e \notin evicted', Covered(e, q, c)
                 PROVE  Covered(e, q, c)'
    BY <1>1 DEF Sound
  <1>3. ASSUME NEW m, Covers(m, e, c)
        PROVE  Covers(m, e, c)'
    BY <1>1, <1>3 DEF Covers
  <1>4. q \notin volatile' => Covers(disk, e, c)
    BY <1>1, <1>2 DEF Covered
  <1>5. \A r \in Runtimes : q = r \/ {q, r} \cap volatile' = {} =>
          /\ Admits(r) => Covers(mem[r], e, c)
          /\ lock[r] \in Tasks => Covers(undo[r], e, c)
          /\ snap[r] # None => lock[r] \in Tasks /\ Covers(snap[r], e, c)
    <2>1. \A r \in Runtimes : snap[r] # None => lock[r] \in Tasks /\ snap[r] = mem[r]
      BY DEF LockInv
    <2>. QED
      BY <1>1, <1>2, <2>1 DEF Covered, Admits
  <1>6. ASSUME q \notin volatile' => Covers(disk', e, c),
               \A r \in Runtimes : q = r \/ {q, r} \cap volatile' = {} =>
                 /\ Admits(r)' => Covers(mem'[r], e, c)
                 /\ lock'[r] \in Tasks => Covers(undo'[r], e, c)
        PROVE  Covered(e, q, c)'
    BY <1>3, <1>6 DEF Covered
  <1>7. ASSUME UNCHANGED <<disk, mem, undo>>,
               \A r \in Runtimes : q = r \/ {q, r} \cap volatile' = {} =>
                 /\ Admits(r)' => Admits(r)
                 /\ lock'[r] \in Tasks => lock[r] \in Tasks
        PROVE  Covered(e, q, c)'
    BY <1>4, <1>5, <1>6, <1>7
  <1>8. ASSUME NEW r \in Runtimes, SlotStep(r)
        PROVE  Covered(e, q, c)'
    <2>1. UNCHANGED <<disk, mem, undo>>
      BY <1>8 DEF SlotStep, EnterSlot, Stop, FencePrevious, TakeOver, LoadFails,
         CancelStart, fileVars
    <2>2. \A x \in Runtimes : lock'[x] \in Tasks => lock[x] \in Tasks
      BY <1>8, Nothing DEF SlotStep, EnterSlot, Stop, FencePrevious, TakeOver, LoadFails,
         CancelStart, LeaveStart, fileVars, Typed
    <2>3. ASSUME NEW x \in Runtimes, q = x \/ {q, x} \cap volatile' = {}, Serving(x)'
          PROVE  Serving(x)
      <3>1. CASE LoadFails(r)
        BY <2>3, <3>1, <1>2 DEF LoadFails, LeaveStart, Serving, Typed, Sound
      <3>2. CASE ~LoadFails(r)
        BY <1>8, <2>3, <3>2 DEF SlotStep, EnterSlot, Stop, FencePrevious, TakeOver,
           CancelStart, LeaveStart, Serving, Typed
      <3>. QED
        BY <3>1, <3>2
    <2>. QED
      BY <1>7, <2>1, <2>2, <2>3 DEF Admits
  <1>9. ASSUME NEW r \in Runtimes, Load(r)
        PROVE  Covered(e, q, c)'
    <2>1. /\ mem' = [mem EXCEPT ![r] = Restored] /\ phase[r] = "load"
          /\ lock' = [lock EXCEPT ![r] = None] /\ phase' = [phase EXCEPT ![r] = "up"]
          /\ UNCHANGED <<disk, undo, stopping, volatile>>
      BY <1>9 DEF Load, LeaveStart
    <2>2. q # r
      BY <2>1 DEF Sound
    <2>3. q \notin volatile => Covers(Restored, e, c)
      <3>1. Covers(disk, e, c) => Covers(Fresh(disk), e, c)
        BY FreshCovers DEF Typed
      <3>2. Restored.evs[e] = IF disk.evs[e] # None /\ disk.evs[e] > now
                              THEN None ELSE Fresh(disk).evs[e]
        BY RestoredTables DEF Typed
      <3>3. disk.evs[e] # None => disk.evs[e] \in Nat /\ disk.evs[e] <= now
        BY TableFields, Numbers DEF Typed, PastInv, Past
      <3>4. disk.evs[e] # None => ~(disk.evs[e] > now)
        BY <1>1, <3>3
      <3>5. Restored.evs[e] = Fresh(disk).evs[e]
        BY <3>2, <3>4
      <3>. QED
        BY <1>4, <2>1, <3>1, <3>5 DEF Covers
    <2>4. \A x \in Runtimes : x # r =>
            /\ mem'[x] = mem[x] /\ undo'[x] = undo[x] /\ lock'[x] = lock[x]
            /\ Admits(x)' => Admits(x)
      BY <2>1 DEF Admits, Serving, Typed
    <2>5. mem'[r] = Restored /\ lock'[r] \notin Tasks
      BY <2>1, Nothing DEF Typed
    <2>. QED
      BY <1>4, <1>5, <1>6, <2>1, <2>2, <2>3, <2>4, <2>5
  <1>10. ASSUME NEW t \in Tasks, QuietStep(t) \/ Publish(t)
         PROVE  Covered(e, q, c)'
    <2>1. UNCHANGED <<fileVars, runtimeVars>>
      BY <1>10, Quiet DEF Publish
    <2>. QED
      BY <1>7, <2>1 DEF fileVars, runtimeVars, Admits, Serving
  <1>11. ASSUME NEW t \in Tasks, Duplicate(t)
         PROVE  Covered(e, q, c)'
    <2>1. /\ Rt(t) \in Runtimes
          /\ mem' = [mem EXCEPT ![Rt(t)] = Fresh(mem[Rt(t)])]
          /\ UNCHANGED <<disk, undo, lock, runtimeVars>>
      BY <1>11, JobFields DEF Duplicate, At
    <2>2. \A r \in Runtimes : Covers(mem[r], e, c) => Covers(mem'[r], e, c)
      <3>1. ASSUME Covers(mem[Rt(t)], e, c)
            PROVE  Covers(Fresh(mem[Rt(t)]), e, c)
        BY <2>1, <3>1, FreshCovers DEF Typed
      <3>. QED
        BY <2>1, <3>1 DEF Typed
    <2>. QED
      BY <1>4, <1>5, <1>6, <2>1, <2>2 DEF runtimeVars, Admits, Serving
  <1>12. ASSUME NEW t \in Tasks, BeginRemember(t) \/ BeginClaim(t)
         PROVE  Covered(e, q, c)'
    <2>1. PICK m \in Tables :
            /\ mem' = [mem EXCEPT ![Rt(t)] = m]
            /\ m.evs[e] = Fresh(mem[Rt(t)]).evs[e] \/ m.evs[e] = now
      BY <1>2, <1>12, BeginsWrite
    <2>2. /\ Rt(t) \in Runtimes /\ Serving(Rt(t))
          /\ undo' = [undo EXCEPT ![Rt(t)] = mem[Rt(t)]]
          /\ lock' = [lock EXCEPT ![Rt(t)] = t]
          /\ UNCHANGED <<disk, runtimeVars>>
      BY <1>12, BeginsWrite
    <2>3. ASSUME Covers(mem[Rt(t)], e, c)
          PROVE  Covers(m, e, c)
      <3>1. Covers(Fresh(mem[Rt(t)]), e, c)
        BY <2>2, <2>3, FreshCovers DEF Typed
      <3>2. c <= now /\ now # None
        BY <1>1, Nothing DEF Sound
      <3>. QED
        BY <1>1, <2>1, <3>1, <3>2 DEF Covers
    <2>4. \A r \in Runtimes : r # Rt(t) =>
            mem'[r] = mem[r] /\ undo'[r] = undo[r] /\ lock'[r] = lock[r]
      BY <2>1, <2>2 DEF Typed
    <2>5. mem'[Rt(t)] = m /\ undo'[Rt(t)] = mem[Rt(t)]
      BY <2>1, <2>2 DEF Typed
    <2>6. \A r \in Runtimes : Admits(r)' => Admits(r)
      BY <2>2, <2>4 DEF Admits, Serving, runtimeVars
    <2>7. Admits(Rt(t)) /\ disk' = disk /\ volatile' = volatile
      BY <2>2 DEF Admits, runtimeVars
    <2>. QED
      BY <1>4, <1>5, <1>6, <2>2, <2>3, <2>4, <2>5, <2>6, <2>7
  <1>13. ASSUME NEW t \in Tasks, Remembered(t) \/ Claimed(t)
         PROVE  Covered(e, q, c)'
    <2>1. PICK r \in Runtimes :
            /\ lock[r] \in Tasks
            /\ mem' \in {mem, [mem EXCEPT ![r] = undo[r]]}
            /\ disk' = disk \/ (disk' = mem[r] /\ r \notin volatile)
            /\ undo' = [undo EXCEPT ![r] = EmptyTables]
            /\ lock' = [lock EXCEPT ![r] = None]
            /\ UNCHANGED runtimeVars
      BY <1>13, EndsWrite
    <2>2. \A x \in Runtimes : /\ Admits(x)' => Admits(x)
                              /\ mem'[x] = mem[x] \/ (mem'[x] = undo[x] /\ lock[x] \in Tasks)
                              /\ lock'[x] \in Tasks => lock[x] \in Tasks /\ undo'[x] = undo[x]
      BY <2>1, Nothing DEF Admits, Serving, runtimeVars, Typed
    <2>3. q \notin volatile' => Covers(disk', e, c)
      BY <1>4, <1>5, <2>1 DEF Admits, runtimeVars
    <2>. QED
      BY <1>5, <1>6, <2>2, <2>3
  <1>14. CASE Tick \/ (\E id \in Ids : Reroute(id)) \/ UNCHANGED vars
    <2>1. UNCHANGED <<fileVars, runtimeVars>>
      BY <1>14 DEF Tick, Reroute, vars
    <2>. QED
      BY <1>7, <2>1 DEF fileVars, runtimeVars, Admits, Serving
  <1>15. CASE Crash
    <2>1. \A r \in Runtimes : lock'[r] \notin Tasks /\ phase'[r] # "up"
      BY <1>15, Nothing DEF Crash
    <2>2. \A r \in Runtimes : ~Admits(r)'
      BY <2>1 DEF Admits, Serving
    <2>3. /\ volatile' = volatile
          /\ disk' = disk \/ \E r \in Runtimes \ volatile : snap[r] # None /\ disk' = snap[r]
      BY <1>15 DEF Crash
    <2>. QED
      BY <1>4, <1>5, <1>6, <2>1, <2>2, <2>3
  <1>. QED
    BY <1>8, <1>9, <1>10, <1>11, <1>12, <1>13, <1>14, <1>15, NextCases

\* A claim is made by a write that is acknowledged.
LEMMA NewClaims ==
  ASSUME IInv, [Next]_vars, NEW e \in Events, NEW q \in Runtimes, NEW c \in Times,
         IsClaim(e, q, c)', ~IsClaim(e, q, c)
  PROVE  \E t \in Tasks :
           /\ Remembered(t) \/ Claimed(t)
           /\ At(t, "claiming") /\ Id(t) = e /\ Rt(t) = q /\ task[t].since = c
           /\ mem' = mem /\ (q \notin volatile => disk' = mem[q])
  <1>. USE DEF IInv
  <1>. DEFINE Goal == \E t \in Tasks :
                        /\ Remembered(t) \/ Claimed(t)
                        /\ At(t, "claiming") /\ Id(t) = e /\ Rt(t) = q
                        /\ task[t].since = c
                        /\ mem' = mem /\ (q \notin volatile => disk' = mem[q])
  <1>1. CASE \E t \in Tasks : At(t, "publish")' /\ Id(t)' = e /\ Rt(t)' = q
                             /\ (task[t].since)' = c
    <2>1. PICK t \in Tasks : /\ task'[t] # None /\ task'[t].at = "publish"
                             /\ task'[t].id = e /\ task'[t].rt = q /\ task'[t].since = c
      BY <1>1 DEF At, Id, Rt
    <2>2. task'[t] # task[t]
      BY <2>1 DEF IsClaim, At, Id, Rt
    <2>3. ASSUME NEW u \in Tasks, NEW j \in Job \cup {None},
                 task' = [task EXCEPT ![u] = j]
          PROVE  t = u /\ task'[t] = j
      BY <2>2, <2>3 DEF Typed
    <2>4. task' # task
      BY <2>2
    <2>5. ~(\E r \in Runtimes : SlotStep(r) \/ Load(r))
      BY <2>4 DEF SlotStep, EnterSlot, Stop, FencePrevious, TakeOver, Load, LoadFails,
         CancelStart
    <2>6. ~(Tick \/ Crash \/ (\E id \in Ids : Reroute(id)) \/ UNCHANGED vars)
      BY <2>1, <2>4 DEF Tick, Crash, Reroute, vars
    <2>7. ASSUME NEW u \in Tasks, QuietStep(u)
          PROVE  FALSE
      <3>1. PICK j \in Job \cup {None} : /\ task' = [task EXCEPT ![u] = j]
                                         /\ j # None => j.at \in Before
        BY <2>7, Quiet
      <3>. QED
        BY <2>1, <2>3, <3>1 DEF Before
    <2>8. ASSUME NEW u \in Tasks, Duplicate(u) \/ Publish(u)
          PROVE  FALSE
      BY <2>1, <2>3, <2>8 DEF Duplicate, Publish, Finish
    <2>9. ASSUME NEW u \in Tasks, BeginRemember(u) \/ BeginClaim(u)
          PROVE  FALSE
      <3>1. PICK j \in Job : /\ task' = [task EXCEPT ![u] = j]
                             /\ j.at \in Writing
        BY <2>9, BeginsWrite DEF Writing
      <3>. QED
        BY <2>1, <2>3, <3>1 DEF Writing
    <2>10. ASSUME NEW u \in Tasks, Remembered(u) \/ Claimed(u)
           PROVE  Goal
      <3>1. PICK j \in Job \cup {None} :
              /\ task' = [task EXCEPT ![u] = j]
              /\ j # None /\ j.at = "publish" =>
                   /\ At(u, "claiming")
                   /\ j.rt = Rt(u) /\ j.id = Id(u) /\ j.since = task[u].since
                   /\ mem' = mem /\ (Rt(u) \notin volatile => disk' = mem[Rt(u)])
        BY <2>10, EndsWrite
      <3>2. j # None /\ j.at = "publish" /\ j.id = e /\ j.rt = q /\ j.since = c
        BY <2>1, <2>3, <3>1
      <3>. QED
        BY <2>10, <3>1, <3>2
    <2>. QED
      BY <2>5, <2>6, <2>7, <2>8, <2>9, <2>10, NextCases
  <1>2. CASE \E i \in DOMAIN published'[e] : published'[e][i] = [rt |-> q, claim |-> c]
    <2>1. published'[e] # published[e]
      BY <1>2 DEF IsClaim
    <2>2. ~(\E r \in Runtimes : SlotStep(r) \/ Load(r))
      BY <2>1 DEF SlotStep, EnterSlot, Stop, FencePrevious, TakeOver, Load, LoadFails,
         CancelStart, historyVars
    <2>3. ~(Tick \/ Crash \/ (\E id \in Ids : Reroute(id)) \/ UNCHANGED vars)
      BY <2>1 DEF Tick, Crash, Reroute, vars, historyVars
    <2>4. \A t \in Tasks : ~(QuietStep(t) \/ Duplicate(t) \/ BeginRemember(t)
                             \/ BeginClaim(t) \/ Remembered(t) \/ Claimed(t))
      BY <2>1, Quiet, BeginsWrite, EndsWrite DEF Duplicate, historyVars
    <2>5. PICK t \in Tasks : Publish(t)
      BY <2>2, <2>3, <2>4, NextCases
    <2>. DEFINE p == [rt |-> Rt(t), claim |-> task[t].since]
    <2>6. /\ At(t, "publish")
          /\ published' = [published EXCEPT ![Id(t)] = Noted(Id(t), p)]
      BY <2>5 DEF Publish
    <2>7. Id(t) = e /\ published'[e] = Append(published[e], p)
      BY <2>1, <2>6 DEF Typed, Noted
    <2>8. published[e] \in Seq([rt : Runtimes, claim : Times])
      BY DEF Typed
    <2>9. p = [rt |-> q, claim |-> c]
      <3>. HIDE DEF p
      <3>1. PICK i \in DOMAIN published'[e] : published'[e][i] = [rt |-> q, claim |-> c]
        BY <1>2
      <3>2. i \in 1 .. Len(published[e]) + 1
        BY <2>7, <2>8, <3>1
      <3>3. i \in DOMAIN published[e] => published'[e][i] = published[e][i]
        BY <2>7, <2>8
      <3>4. i \notin DOMAIN published[e]
        BY <3>1, <3>3 DEF IsClaim
      <3>5. i = Len(published[e]) + 1
        BY <2>8, <3>2, <3>4
      <3>. QED
        BY <2>7, <2>8, <3>1, <3>5
    <2>10. Rt(t) = q /\ task[t].since = c
      BY <2>9
    <2>. QED
      BY <2>6, <2>7, <2>10 DEF IsClaim
  <1>. QED
    BY <1>1, <1>2 DEF IsClaim

\* A new claim is in every table that counts: it was acknowledged, and its writer
\* is the only runtime that can admit anything.
LEMMA CoverKept ==
  ASSUME IInv, [Next]_vars
  PROVE  CoverInv'
  <1>. USE DEF IInv
  <1>1. SUFFICES ASSUME NEW e \in Events, NEW q \in Runtimes, NEW c \in Times,
                        IsClaim(e, q, c)'
                 PROVE  Sound(e, q, c)'
    BY DEF CoverInv
  <1>2. CASE IsClaim(e, q, c)
    BY <1>2, SoundKept DEF CoverInv
  <1>3. CASE ~IsClaim(e, q, c)
    <2>1. PICK t \in Tasks :
            /\ Remembered(t) \/ Claimed(t)
            /\ At(t, "claiming") /\ Id(t) = e /\ Rt(t) = q /\ task[t].since = c
            /\ mem' = mem /\ (q \notin volatile => disk' = mem[q])
      BY <1>1, <1>3, NewClaims
    <2>2. /\ lock[q] = t /\ owner = q /\ phase[q] = "up"
          /\ lock' = [lock EXCEPT ![q] = None]
          /\ UNCHANGED <<runtimeVars, evicted, envVars>>
      BY <2>1, EndsWrite
    <2>3. c <= now /\ born[e] <= c + FutureSkew
      BY <2>1 DEF TimeInv, InTime, At, Id
    <2>4. e \notin evicted => mem[q].evs[e] = c
      BY <2>1 DEF ClaimingInv
    <2>5. c \in Nat /\ c # None
      BY Numbers, Nothing
    <2>6. \A r \in Runtimes : r # q => ~Admits(r)'
      <3>1. \A r \in Runtimes : lock[r] \in Tasks \/ Serving(r) => owner = r
        BY DEF LockInv, SlotInv, Serving
      <3>2. \A r \in Runtimes : Admits(r)' => lock[r] \in Tasks \/ Serving(r)
        BY <2>2, Nothing DEF Admits, Serving, runtimeVars, Typed
      <3>. QED
        BY <2>2, <3>1, <3>2
    <2>7. ASSUME e \notin evicted
          PROVE  Covered(e, q, c)'
      <3>1. mem'[q].evs[e] # None /\ mem'[q].evs[e] >= c
        BY <2>1, <2>4, <2>5, <2>7
      <3>2. Covers(mem[q], e, c)' /\ (q \notin volatile' => Covers(disk, e, c)')
        BY <2>1, <2>2, <3>1 DEF Covers, runtimeVars
      <3>3. \A r \in Runtimes : lock'[r] \in Tasks => Admits(r)'
        BY DEF Admits
      <3>4. lock'[q] \notin Tasks
        BY <2>2, Nothing DEF Typed
      <3>. QED
        BY <2>6, <3>2, <3>3, <3>4 DEF Covered
    <2>. QED
      BY <2>2, <2>3, <2>7 DEF Sound, runtimeVars, envVars
  <1>. QED
    BY <1>2, <1>3

\* The memory of a runtime that writes is changed by nobody else.
LEMMA ClaimingKept ==
  ASSUME IInv, [Next]_vars
  PROVE  ClaimingInv'
  <1>. USE DEF IInv
  <1>1. evicted \subseteq evicted'
    BY Grows
  <1>2. \A u \in Tasks : At(u, "claiming") =>
          /\ Rt(u) \in Runtimes /\ lock[Rt(u)] = u /\ phase[Rt(u)] = "up"
          /\ Id(u) \notin evicted => mem[Rt(u)].evs[Id(u)] = task[u].since
    BY JobFields DEF ClaimingInv, LockInv, At, Writing
  <1>3. ASSUME \A u \in Tasks : At(u, "claiming")' =>
                 task'[u] = task[u] /\ mem'[Rt(u)] = mem[Rt(u)]
        PROVE  ClaimingInv'
    BY <1>1, <1>2, <1>3 DEF ClaimingInv, At, Rt, Id
  <1>4. ASSUME NEW r \in Runtimes, SlotStep(r) \/ Load(r)
        PROVE  ClaimingInv'
    <2>1. task' = task /\ \A x \in Runtimes : phase[x] = "up" => mem'[x] = mem[x]
      BY <1>4 DEF SlotStep, EnterSlot, Stop, FencePrevious, TakeOver, Load, LoadFails,
         CancelStart, LeaveStart, Typed, fileVars
    <2>. QED
      BY <1>2, <1>3, <2>1 DEF At
  <1>5. ASSUME NEW t \in Tasks, QuietStep(t)
        PROVE  ClaimingInv'
    <2>1. PICK j \in Job \cup {None} : /\ task' = [task EXCEPT ![t] = j]
                                       /\ j # None => j.at \in Before
      BY <1>5, Quiet
    <2>2. mem' = mem
      BY <1>5, Quiet DEF fileVars
    <2>. QED
      BY <1>3, <2>1, <2>2 DEF At, Before, Typed
  <1>6. ASSUME NEW t \in Tasks, Duplicate(t) \/ Publish(t)
        PROVE  ClaimingInv'
    <2>1. /\ task' = [task EXCEPT ![t] = None]
          /\ mem' = mem \/ (lock[Rt(t)] = None /\ \E m : mem' = [mem EXCEPT ![Rt(t)] = m])
      BY <1>6 DEF Duplicate, Publish, Finish, fileVars
    <2>. QED
      BY <1>2, <1>3, <2>1, Nothing DEF At, Typed
  <1>7. ASSUME NEW t \in Tasks, BeginRemember(t) \/ BeginClaim(t)
        PROVE  ClaimingInv'
    <2>1. PICK m \in Tables :
            /\ mem' = [mem EXCEPT ![Rt(t)] = m]
            /\ BeginClaim(t) =>
                 \A e \in Events :
                   \/ m.evs[e] = IF e = Id(t) THEN now ELSE Fresh(mem[Rt(t)]).evs[e]
                   \/ m.evs[e] = None /\ e \in evicted'
      BY <1>7, BeginsWrite
    <2>2. PICK j \in Job :
            /\ task' = [task EXCEPT ![t] = j]
            /\ j.rt = Rt(t) /\ j.id = Id(t)
            /\ \/ j.at = "remembering"
               \/ BeginClaim(t) /\ At(t, "claim") /\ j.since = now
      BY <1>7, BeginsWrite
    <2>3. Rt(t) \in Runtimes /\ lock[Rt(t)] = None
      BY <1>7, BeginsWrite
    <2>4. ASSUME NEW u \in Tasks, u # t, At(u, "claiming")'
          PROVE  task'[u] = task[u] /\ mem'[Rt(u)] = mem[Rt(u)]
      <3>1. task'[u] = task[u] /\ At(u, "claiming")
        BY <2>2, <2>4 DEF At, Typed
      <3>. QED
        BY <1>2, <2>1, <2>3, <3>1, Nothing DEF Typed
    <2>5. ASSUME At(t, "claiming")', Id(t)' \notin evicted'
          PROVE  mem'[Rt(t)'].evs[Id(t)'] = task'[t].since
      <3>1. task'[t] = j
        BY <2>2 DEF Typed
      <3>2. BeginClaim(t) /\ At(t, "claim") /\ j.since = now
        BY <2>2, <2>5, <3>1 DEF At
      <3>3. Id(t) \in Events /\ Rt(t)' = Rt(t) /\ Id(t)' = Id(t)
        BY <2>2, <3>1, <3>2 DEF TimeInv, InTime, At, Rt, Id
      <3>4. mem'[Rt(t)] = m
        BY <2>1, <2>3 DEF Typed
      <3>. QED
        BY <2>1, <2>5, <3>1, <3>2, <3>3, <3>4
    <2>6. ASSUME NEW u \in Tasks, At(u, "claiming")', Id(u)' \notin evicted'
          PROVE  mem'[Rt(u)'].evs[Id(u)'] = task'[u].since
      <3>1. CASE u = t
        BY <2>5, <2>6, <3>1
      <3>2. CASE u # t
        <4>1. task'[u] = task[u] /\ mem'[Rt(u)] = mem[Rt(u)]
          BY <2>4, <2>6, <3>2
        <4>. QED
          BY <1>1, <1>2, <2>6, <4>1 DEF At, Rt, Id
      <3>. QED
        BY <3>1, <3>2
    <2>. QED
      BY <2>6 DEF ClaimingInv
  <1>8. ASSUME NEW t \in Tasks, Remembered(t) \/ Claimed(t)
        PROVE  ClaimingInv'
    <2>1. PICK j \in Job \cup {None} : /\ task' = [task EXCEPT ![t] = j]
                                       /\ j # None => j.at \in {"claim", "publish"}
      BY <1>8, EndsWrite
    <2>2. /\ Rt(t) \in Runtimes /\ lock[Rt(t)] = t
          /\ mem' \in {mem, [mem EXCEPT ![Rt(t)] = undo[Rt(t)]]}
      BY <1>8, EndsWrite
    <2>. QED
      BY <1>2, <1>3, <2>1, <2>2 DEF At, Typed
  <1>9. CASE Tick \/ (\E id \in Ids : Reroute(id)) \/ UNCHANGED vars
    BY <1>3, <1>9 DEF Tick, Reroute, vars, fileVars
  <1>10. CASE Crash
    BY <1>10 DEF Crash, ClaimingInv, At
  <1>. QED
    BY <1>4, <1>5, <1>6, <1>7, <1>8, <1>9, <1>10, NextCases

\* A claim that is not a duplicate is apart from every claim of its event: the
\* age limit has left no room for a second one.
LEMMA ClaimsApart ==
  ASSUME IInv, NEW t \in Tasks, BeginClaim(t), Id(t) \notin evicted,
         NEW q \in Runtimes, NEW c \in Times, IsClaim(Id(t), q, c)
  PROVE  Apart(q, Rt(t))
  <1>. USE DEF IInv
  <1>. DEFINE e == Id(t)
              r == Rt(t)
  <1>1. /\ task[t] # None /\ task[t].at = "claim" /\ ~Known(t)
        /\ r \in Runtimes /\ Serving(r)
    BY BeginsWrite DEF BeginClaim, At
  <1>2. InTime(task[t]) /\ e \in Events /\ task[t].since \in Nat
    BY <1>1, JobFields, Numbers DEF TimeInv, InTime, Id
  <1>3. Sound(e, q, c)
    BY <1>2 DEF CoverInv
  <1>4. /\ c \in Nat /\ now \in Nat /\ born[e] \in Nat /\ EventTTL \in Nat
        /\ MaxAge \in Nat /\ FutureSkew \in Nat /\ HandlingTime \in Nat
        /\ MaxAge + FutureSkew + HandlingTime < EventTTL
    BY <1>2, Numbers, WindowAssumption DEF Typed
  <1>5. /\ born[e] <= c + FutureSkew
        /\ task[t].since <= born[e] + MaxAge
        /\ now <= task[t].since + HandlingTime
    BY <1>1, <1>2, <1>3 DEF Sound, InTime, Id
  <1>6. ~(c + EventTTL <= now)
    BY <1>2, <1>4, <1>5
  <1>7. Fresh(mem[r]).evs[e] = None
    BY <1>1 DEF Known
  <1>8. SUFFICES ASSUME q = r \/ {q, r} \cap volatile = {}
                 PROVE  FALSE
    BY DEF Apart
  <1>9. Covers(mem[r], e, c)
    BY <1>1, <1>3, <1>8 DEF Sound, Covered, Admits
  <1>10. Covers(Fresh(mem[r]), e, c)
    BY <1>1, <1>2, <1>9, FreshCovers DEF Typed
  <1>. QED
    BY <1>6, <1>7, <1>10 DEF Covers

\* No other task is writing when a write begins.
LEMMA NoOtherWrite ==
  ASSUME IInv, NEW t \in Tasks, BeginRemember(t) \/ BeginClaim(t), NEW u \in Tasks,
         task[u] # None
  PROVE  task[u].at \notin Writing
  <1>1. lock[Rt(t)] = None /\ owner = Rt(t)
    BY BeginsWrite
  <1>2. Rt(u) \in Runtimes
    BY JobFields DEF IInv
  <1>. QED
    BY <1>1, <1>2, Nothing DEF IInv, LockInv

\* No event is claimed by two runtimes that are not apart.
LEMMA OnceKept ==
  ASSUME IInv, [Next]_vars
  PROVE  OnceInv'
  <1>. USE DEF IInv
  <1>1. evicted \subseteq evicted' /\ volatile \subseteq volatile'
    BY Grows
  <1>2. \A q, r : Apart(q, r) => Apart(q, r)' /\ Apart(r, q)'
    BY <1>1 DEF Apart
  <1>3. \A e \in Events \ evicted : \A i, j \in DOMAIN published[e] :
          i # j => Apart(published[e][i].rt, published[e][j].rt)
    BY DEF OnceInv, PublishedOnce, Apart
  <1>4. \A t \in Tasks : Claims(t) => Id(t) \in Events
    BY DEF Claims, At, TimeInv, InTime, Id
  <1>5. ASSUME published' = published,
               \A t \in Tasks : Claims(t)' =>
                 Claims(t) /\ task'[t].rt = Rt(t) /\ task'[t].id = Id(t)
        PROVE  OnceInv'
    <2>1. PublishedOnce'
      BY <1>1, <1>2, <1>3, <1>5 DEF PublishedOnce, Apart
    <2>2. \A t \in Tasks : Claims(t)' => Claims(t) /\ Rt(t)' = Rt(t) /\ Id(t)' = Id(t)
      BY <1>5 DEF Rt, Id
    <2>3. ASSUME NEW t \in Tasks, Claims(t)', NEW i \in DOMAIN published[Id(t)]
          PROVE  Apart(published[Id(t)][i].rt, Rt(t))'
      <3>1. Apart(published[Id(t)][i].rt, Rt(t))
        BY <2>2, <2>3 DEF OnceInv
      <3>. QED
        BY <1>2, <1>5, <2>2, <2>3, <3>1
    <2>4. ASSUME NEW t \in Tasks, NEW u \in Tasks, t # u, Claims(t)', Claims(u)',
                 Id(t)' = Id(u)'
          PROVE  Apart(Rt(t), Rt(u))'
      <3>1. Apart(Rt(t), Rt(u))
        BY <2>2, <2>4 DEF OnceInv
      <3>. QED
        BY <1>2, <2>2, <2>4, <3>1
    <2>. QED
      BY <1>5, <2>1, <2>2, <2>3, <2>4 DEF OnceInv
  <1>6. ASSUME NEW t \in Tasks, NEW j \in Job \cup {None},
               task' = [task EXCEPT ![t] = j], published' = published,
               j # None =>
                 \/ j.at \in Before \cup {"remembering"}
                 \/ At(t, "claiming") /\ j.rt = Rt(t) /\ j.id = Id(t)
        PROVE  OnceInv'
    <2>1. ASSUME NEW u \in Tasks, Claims(u)'
          PROVE  Claims(u) /\ task'[u].rt = Rt(u) /\ task'[u].id = Id(u)
      <3>1. CASE u = t
        <4>1. task'[t] = j
          BY <1>6 DEF Typed
        <4>2. j # None /\ j.at \in {"claiming", "publish"} /\ j.id \notin evicted'
          BY <2>1, <3>1, <4>1 DEF Claims, At, Id
        <4>3. At(t, "claiming") /\ j.rt = Rt(t) /\ j.id = Id(t)
          BY <1>6, <4>2 DEF Before
        <4>. QED
          BY <1>1, <3>1, <4>1, <4>2, <4>3 DEF Claims
      <3>2. CASE u # t
        <4>1. task'[u] = task[u]
          BY <1>6, <3>2 DEF Typed
        <4>. QED
          BY <1>1, <2>1, <4>1 DEF Claims, At, Id, Rt
      <3>. QED
        BY <3>1, <3>2
    <2>. QED
      BY <1>5, <1>6, <2>1
  <1>7. CASE \E r \in Runtimes : SlotStep(r) \/ Load(r)
    <2>1. UNCHANGED <<published, task>>
      BY <1>7 DEF SlotStep, EnterSlot, Stop, FencePrevious, TakeOver, Load, LoadFails,
         CancelStart, historyVars
    <2>. QED
      BY <1>1, <1>5, <2>1 DEF Claims, At, Id, Rt
  <1>8. ASSUME NEW t \in Tasks, QuietStep(t)
        PROVE  OnceInv'
    <2>1. PICK j \in Job \cup {None} : /\ task' = [task EXCEPT ![t] = j]
                                       /\ j # None => j.at \in Before
      BY <1>8, Quiet
    <2>2. published' = published
      BY <1>8, Quiet
    <2>. QED
      BY <1>6, <2>1, <2>2
  <1>9. ASSUME NEW t \in Tasks, Duplicate(t)
        PROVE  OnceInv'
    BY <1>6, <1>9 DEF Duplicate, Finish, historyVars
  <1>10. ASSUME NEW t \in Tasks, Remembered(t) \/ Claimed(t)
         PROVE  OnceInv'
    <2>1. PICK j \in Job \cup {None} :
            /\ task' = [task EXCEPT ![t] = j]
            /\ j # None =>
                 \/ j.at \in Before
                 \/ At(t, "claiming") /\ j.rt = Rt(t) /\ j.id = Id(t)
      BY <1>10, EndsWrite DEF Before
    <2>2. published' = published
      BY <1>10, EndsWrite
    <2>. QED
      BY <1>6, <2>1, <2>2
  <1>11. ASSUME NEW t \in Tasks, BeginRemember(t) \/ BeginClaim(t)
         PROVE  OnceInv'
    <2>1. published' = published
      BY <1>11, BeginsWrite
    <2>2. PICK j \in Job :
            /\ task' = [task EXCEPT ![t] = j]
            /\ j.rt = Rt(t) /\ j.id = Id(t)
            /\ j.at = "remembering" \/ (BeginClaim(t) /\ j.at = "claiming")
      BY <1>11, BeginsWrite
    <2>3. CASE j.at = "remembering"
      BY <1>6, <2>1, <2>2, <2>3
    <2>4. CASE BeginClaim(t)
      <3>1. task'[t] = j /\ \A u \in Tasks : u # t => task'[u] = task[u]
        BY <2>2 DEF Typed
      <3>2. Rt(t)' = Rt(t) /\ Id(t)' = Id(t)
        BY <2>2, <3>1 DEF Rt, Id
      <3>3. \A u \in Tasks : u # t /\ Claims(u)' =>
              Claims(u) /\ Rt(u)' = Rt(u) /\ Id(u)' = Id(u)
        BY <1>1, <3>1 DEF Claims, At, Rt, Id
      <3>4. /\ task[t] # None /\ task[t].at = "claim" /\ Id(t) \in Events
            /\ Rt(t) \in Runtimes
        BY <2>4, JobFields DEF BeginClaim, At, TimeInv, InTime, Id
      <3>5. ASSUME Id(t) \notin evicted, NEW i \in DOMAIN published[Id(t)]
            PROVE  Apart(published[Id(t)][i].rt, Rt(t))
        <4>1. i \in DOMAIN published[Id(t)] /\ Typed
          BY <3>5
        <4>2. PICK q \in Runtimes, c \in Times :
                published[Id(t)][i] = [rt |-> q, claim |-> c]
          BY <3>4, <4>1, PublishedFields
        <4>3. IsClaim(Id(t), q, c)
          BY <3>5, <4>2 DEF IsClaim
        <4>. QED
          BY <2>4, <3>4, <3>5, <4>2, <4>3, ClaimsApart
      <3>6. ASSUME NEW u \in Tasks, u # t, Claims(u), Id(u) = Id(t)
            PROVE  Apart(Rt(u), Rt(t))
        <4>1. At(u, "publish") /\ Id(t) \notin evicted
          BY <2>4, <3>6, NoOtherWrite DEF Claims, At, Writing
        <4>2. Rt(u) \in Runtimes /\ task[u].since \in Times
          BY <4>1, JobFields DEF At
        <4>3. IsClaim(Id(t), Rt(u), task[u].since)
          BY <3>6, <4>1 DEF IsClaim
        <4>. QED
          BY <2>4, <3>4, <4>1, <4>2, <4>3, ClaimsApart
      <3>7. PublishedOnce'
        BY <1>1, <1>2, <1>3, <2>1 DEF PublishedOnce, Apart
      <3>8. ASSUME NEW u \in Tasks, Claims(u)', NEW i \in DOMAIN published[Id(u)']
            PROVE  Apart(published[Id(u)][i].rt, Rt(u))'
        <4>1. CASE u = t
          <5>1. Id(t) \notin evicted
            BY <1>1, <3>2, <3>8, <4>1 DEF Claims
          <5>2. Apart(published[Id(t)][i].rt, Rt(t))
            BY <3>2, <3>5, <3>8, <4>1, <5>1
          <5>. QED
            BY <1>2, <2>1, <3>2, <4>1, <5>2
        <4>2. CASE u # t
          <5>1. Claims(u) /\ Rt(u)' = Rt(u) /\ Id(u)' = Id(u)
            BY <3>3, <3>8, <4>2
          <5>2. Apart(published[Id(u)][i].rt, Rt(u))
            BY <3>8, <5>1 DEF OnceInv
          <5>. QED
            BY <1>2, <2>1, <5>1, <5>2
        <4>. QED
          BY <4>1, <4>2
      <3>9. ASSUME NEW u \in Tasks, u # t, Claims(u)', Claims(t)', Id(u)' = Id(t)'
            PROVE  Apart(Rt(u), Rt(t))' /\ Apart(Rt(t), Rt(u))'
        <4>1. Claims(u) /\ Rt(u)' = Rt(u) /\ Id(u) = Id(t)
          BY <3>2, <3>3, <3>9
        <4>2. Apart(Rt(u), Rt(t))
          BY <3>6, <3>9, <4>1
        <4>. QED
          BY <1>2, <3>2, <4>1, <4>2
      <3>10. ASSUME NEW u \in Tasks, NEW v \in Tasks, u # v, u # t, v # t,
                    Claims(u)', Claims(v)', Id(u)' = Id(v)'
             PROVE  Apart(Rt(u), Rt(v))'
        <4>1. /\ Claims(u) /\ Rt(u)' = Rt(u) /\ Claims(v) /\ Rt(v)' = Rt(v)
              /\ Id(u) = Id(v)
          BY <3>3, <3>10
        <4>2. Apart(Rt(u), Rt(v))
          BY <3>10, <4>1 DEF OnceInv
        <4>. QED
          BY <1>2, <4>1, <4>2
      <3>11. \A u, v \in Tasks : u # v /\ Claims(u)' /\ Claims(v)' /\ Id(u)' = Id(v)'
               => Apart(Rt(u), Rt(v))'
        BY <3>9, <3>10
      <3>. QED
        BY <2>1, <3>7, <3>8, <3>11 DEF OnceInv
    <2>. QED
      BY <2>2, <2>3, <2>4
  <1>12. ASSUME NEW t \in Tasks, Publish(t)
         PROVE  OnceInv'
    <2>. DEFINE e == Id(t)
                p == [rt |-> Rt(t), claim |-> task[t].since]
    <2>1. /\ At(t, "publish")
          /\ published' = [published EXCEPT ![e] = Noted(e, p)]
          /\ task' = [task EXCEPT ![t] = None]
          /\ UNCHANGED <<evicted, volatile>>
      BY <1>12 DEF Publish, Finish, runtimeVars
    <2>2. e \in Events /\ p \in [rt : Runtimes, claim : Times] /\ p.rt = Rt(t)
      BY <2>1, JobFields DEF TimeInv, InTime, At, Id
    <2>. HIDE DEF p
    <2>3. /\ \A x \in Events : x # e => published'[x] = published[x]
          /\ e \notin evicted => published'[e] = Append(published[e], p)
          /\ \A x \in Events : published[x] \in Seq([rt : Runtimes, claim : Times])
      BY <2>1, <2>2 DEF Noted, Typed
    <2>4. e \notin evicted => Claims(t)
      BY <2>1 DEF Claims
    <2>5. ASSUME e \notin evicted, NEW i \in DOMAIN published'[e]
          PROVE  \/ i \in DOMAIN published[e] /\ published'[e][i] = published[e][i]
                 \/ i = Len(published[e]) + 1 /\ published'[e][i].rt = Rt(t)
      <3>1. i \in 1 .. Len(published[e]) + 1
        BY <2>2, <2>3, <2>5
      <3>2. CASE i = Len(published[e]) + 1
        BY <2>2, <2>3, <2>5, <3>2
      <3>3. CASE i # Len(published[e]) + 1
        BY <2>2, <2>3, <2>5, <3>1, <3>3
      <3>. QED
        BY <3>2, <3>3
    <2>6. ASSUME NEW x \in Events \ evicted, NEW i \in DOMAIN published'[x],
                 NEW j \in DOMAIN published'[x], i # j
          PROVE  Apart(published'[x][i].rt, published'[x][j].rt)
      <3>1. CASE x # e
        BY <1>3, <2>3, <2>6, <3>1
      <3>2. CASE x = e
        <4>1. \A k \in DOMAIN published[e] :
                Apart(published[e][k].rt, Rt(t)) /\ Apart(Rt(t), published[e][k].rt)
          BY <2>4, <2>6, <3>2 DEF OnceInv, Apart
        <4>2. \/ i \in DOMAIN published[e] /\ published'[e][i] = published[e][i]
              \/ i = Len(published[e]) + 1 /\ published'[e][i].rt = Rt(t)
          BY <2>5, <2>6, <3>2
        <4>3. \/ j \in DOMAIN published[e] /\ published'[e][j] = published[e][j]
              \/ j = Len(published[e]) + 1 /\ published'[e][j].rt = Rt(t)
          BY <2>5, <2>6, <3>2
        <4>. QED
          BY <1>3, <2>6, <3>2, <4>1, <4>2, <4>3
      <3>. QED
        BY <3>1, <3>2
    <2>7. PublishedOnce'
      BY <2>1, <2>6 DEF PublishedOnce, Apart
    <2>8. \A u \in Tasks : Claims(u)' =>
            /\ u # t /\ Claims(u) /\ Rt(u)' = Rt(u) /\ Id(u)' = Id(u)
            /\ Id(u) \in Events \ evicted
      BY <1>4, <2>1 DEF Claims, At, Rt, Id, Typed
    <2>9. ASSUME NEW u \in Tasks, Claims(u)', NEW i \in DOMAIN published'[Id(u)']
          PROVE  Apart(published[Id(u)][i].rt, Rt(u))'
      <3>1. /\ u # t /\ Claims(u) /\ Rt(u)' = Rt(u) /\ Id(u)' = Id(u)
            /\ Id(u) \in Events \ evicted
        BY <2>8, <2>9
      <3>2. Apart(published'[Id(u)][i].rt, Rt(u))
        <4>1. CASE Id(u) # e
          BY <2>3, <2>9, <3>1, <4>1 DEF OnceInv
        <4>2. CASE Id(u) = e
          <5>1. Apart(Rt(t), Rt(u))
            BY <2>4, <3>1, <4>2 DEF OnceInv
          <5>2. \/ i \in DOMAIN published[e] /\ published'[e][i] = published[e][i]
                \/ published'[e][i].rt = Rt(t)
            BY <2>5, <2>9, <3>1, <4>2
          <5>. QED
            BY <3>1, <4>2, <5>1, <5>2 DEF OnceInv
        <4>. QED
          BY <4>1, <4>2
      <3>. QED
        BY <2>1, <3>1, <3>2 DEF Apart
    <2>10. ASSUME NEW u \in Tasks, NEW v \in Tasks, u # v, Claims(u)', Claims(v)',
                  Id(u)' = Id(v)'
           PROVE  Apart(Rt(u), Rt(v))'
      <3>1. /\ Claims(u) /\ Rt(u)' = Rt(u) /\ Claims(v) /\ Rt(v)' = Rt(v)
            /\ Id(u) = Id(v)
        BY <2>8, <2>10
      <3>2. Apart(Rt(u), Rt(v))
        BY <2>10, <3>1 DEF OnceInv
      <3>. QED
        BY <1>2, <3>1, <3>2
    <2>. QED
      BY <2>7, <2>9, <2>10 DEF OnceInv
  <1>13. CASE Tick \/ (\E id \in Ids : Reroute(id)) \/ UNCHANGED vars
    <2>1. UNCHANGED <<published, task>>
      BY <1>13 DEF Tick, Reroute, vars, historyVars
    <2>. QED
      BY <1>1, <1>5, <2>1 DEF Claims, At, Id, Rt
  <1>14. CASE Crash
    BY <1>5, <1>14 DEF Crash, Claims, At, historyVars
  <1>. QED
    BY <1>7, <1>8, <1>9, <1>10, <1>11, <1>12, <1>13, <1>14, NextCases
-----------------------------------------------------------------------------
(***************************************************************************)
(* The theorems about publications                                         *)
(***************************************************************************)

\* It holds at first.
LEMMA InitHolds == Init => IInv
  <1>. SUFFICES ASSUME Init
                PROVE  IInv
    OBVIOUS
  <1>1. Typed
    BY EmptyTable, Numbers DEF Init, Typed, Phases, Times
  <1>2. SlotInv /\ LockInv /\ TimeInv
    BY Nothing DEF Init, SlotInv, LockInv, TimeInv
  <1>3. PastInv
    BY EmptyTable DEF Init, PastInv, Past
  <1>4. CoverInv /\ ClaimingInv /\ OnceInv
    BY DEF Init, CoverInv, IsClaim, ClaimingInv, OnceInv, PublishedOnce, Claims, At
  <1>. QED
    BY <1>1, <1>2, <1>3, <1>4 DEF IInv

\* Every step keeps it.
LEMMA StepHolds == IInv /\ [Next]_vars => IInv'
  BY TypedKept, SlotKept, LockKept, TimeKept, PastKept, CoverKept, ClaimingKept,
     OnceKept DEF IInv

\* The invariant, for every value of the constants.
THEOREM InvariantHolds == Spec => []IInv
  BY InitHolds, StepHolds, PTL DEF Spec

\* Whatever is reloaded, cancelled, fenced or crashes, only the owner of the slot
\* has a write under way, and a runtime loads the file when no write of another
\* is left (channel_registry.py: async_start).
THEOREM OneWriterHolds == Spec => []OneWriter
  <1>1. IInv => OneWriter
    <2>. SUFFICES ASSUME IInv
                  PROVE  OneWriter
      OBVIOUS
    <2>1. \A r \in Runtimes : snap[r] # None => owner = r
      BY DEF IInv, LockInv
    <2>2. ASSUME NEW r \in Runtimes, NEW x \in Runtimes, phase[r] = "load", x # r
          PROVE  lock[x] = None
      <3>1. owner = r /\ slotLock = r
        BY <2>2 DEF IInv, SlotInv
      <3>2. lock[x] \notin Tasks
        BY <2>2, <3>1 DEF IInv, LockInv
      <3>3. lock[x] \notin Runtimes
        BY <2>2, <3>1 DEF IInv, SlotInv
      <3>. QED
        BY <3>2, <3>3 DEF IInv, Typed
    <2>. QED
      BY <2>1, <2>2 DEF OneWriter
  <1>. QED
    BY <1>1, InvariantHolds, PTL

\* The channel file holds the claim of every event on its way to the bus, however
\* slow its handler, as long as HandlingTime bounds it.
THEOREM ClaimedFirstHolds == Spec => []ClaimedFirst
  <1>1. IInv => ClaimedFirst
    <2>. SUFFICES ASSUME IInv, NEW t \in Tasks, At(t, "publish"),
                         Rt(t) \notin volatile, Id(t) \notin evicted
                  PROVE  disk.evs[Id(t)] # None
      BY DEF ClaimedFirst
    <2>1. /\ task[t] # None /\ InTime(task[t]) /\ Id(t) \in Events
          /\ Rt(t) \in Runtimes /\ task[t].since \in Times
      BY JobFields DEF IInv, TimeInv, InTime, At, Id
    <2>2. IsClaim(Id(t), Rt(t), task[t].since)
      BY DEF IsClaim
    <2>3. Covers(disk, Id(t), task[t].since)
      BY <2>1, <2>2 DEF IInv, CoverInv, Sound, Covered
    <2>4. /\ now \in Nat /\ task[t].since \in Nat /\ EventTTL \in Nat
          /\ MaxAge \in Nat /\ FutureSkew \in Nat /\ HandlingTime \in Nat
          /\ MaxAge + FutureSkew + HandlingTime < EventTTL
          /\ now <= task[t].since + HandlingTime
      BY <2>1, Numbers, WindowAssumption DEF IInv, Typed, InTime
    <2>5. ~(task[t].since + EventTTL <= now)
      BY <2>4
    <2>. QED
      BY <2>3, <2>5 DEF Covers
  <1>. QED
    BY <1>1, InvariantHolds, PTL

\* An event that WAHA delivers any number of times is published once: the age
\* limit of the inbound managers and the lifetime of claims leave no second
\* publication, over any number of reloads, crashes and failing writes.
THEOREM PublishedOnceHolds == Spec => []PublishedOnce
  <1>1. IInv => PublishedOnce
    BY DEF IInv, OnceInv
  <1>. QED
    BY <1>1, InvariantHolds, PTL
-----------------------------------------------------------------------------
(***************************************************************************)
(* What forgetting and trimming keep of a table                            *)
(***************************************************************************)

\* Entries of a table: all later arguments about one of the two tables use it
\* as a function to numbers.
Entries(S) == [S -> Nat \cup {None}]

\* A table with fewer entries.
Sheds(f, g) == \A x \in DOMAIN f : g[x] = f[x] \/ g[x] = None

\* A table that sheds entries of a finite one is finite and no larger.
LEMMA ShedsSize ==
  ASSUME NEW S, NEW f \in Entries(S), NEW g \in Entries(S), Sheds(f, g),
         IsFiniteSet(Held(f))
  PROVE  /\ IsFiniteSet(Held(g)) /\ Cardinality(Held(g)) <= Cardinality(Held(f))
         /\ Cardinality(Held(f)) \in Nat /\ Cardinality(Held(g)) \in Nat
  <1>1. Held(g) \in SUBSET Held(f)
    BY DEF Held, Sheds, Entries
  <1>. QED
    BY <1>1, FS_Subset, FS_CardinalityType

\* What counts for an entry that had to make room.
Others(f, x, time, leftOut) ==
  {y \in DOMAIN f \ {x} : y \in leftOut \/ (f[y] # None /\ f[y] >= time)}

\* There are finitely many of them.
LEMMA OthersFinite ==
  ASSUME NEW S, NEW f \in Entries(S), NEW x, NEW time, NEW leftOut,
         IsFiniteSet(leftOut), IsFiniteSet(Held(f))
  PROVE  /\ IsFiniteSet(Others(f, x, time, leftOut))
         /\ Cardinality(Others(f, x, time, leftOut)) \in Nat
  <1>1. Others(f, x, time, leftOut) \in SUBSET (leftOut \cup Held(f))
    BY DEF Others, Held
  <1>2. IsFiniteSet(leftOut \cup Held(f))
    BY FS_Union
  <1>. QED
    BY <1>1, <1>2, FS_Subset, FS_CardinalityType

\* A table in which more others count keeps what another one keeps.
LEMMA MoreOthers ==
  ASSUME NEW S, NEW f \in Entries(S), NEW g \in Entries(S), NEW x, NEW time, NEW max \in Nat,
         NEW before, NEW after, IsFiniteSet(before), IsFiniteSet(after),
         IsFiniteSet(Held(f)), IsFiniteSet(Held(g)),
         Cardinality(Others(f, x, time, before)) >= max,
         Others(f, x, time, before) \subseteq Others(g, x, time, after)
  PROVE  Kept(g, x, time, max, after)
  <1>1. /\ IsFiniteSet(Others(g, x, time, after))
        /\ Cardinality(Others(g, x, time, after)) \in Nat
        /\ Cardinality(Others(f, x, time, before)) \in Nat
    BY OthersFinite
  <1>2. Cardinality(Others(f, x, time, before)) <= Cardinality(Others(g, x, time, after))
    BY <1>1, FS_Subset
  <1>. HIDE DEF Others
  <1>3. Cardinality(Others(g, x, time, after)) >= max
    BY <1>1, <1>2
  <1>. QED
    BY <1>3 DEF Kept, Others

\* A table that sheds only what is older, or is left out from now on, keeps what
\* was kept.
LEMMA ShedsKept ==
  ASSUME NEW S, NEW f \in Entries(S), NEW g \in Entries(S), NEW x \in S,
         NEW time \in Nat, NEW max \in Nat, NEW before, NEW after,
         IsFiniteSet(before), IsFiniteSet(after), IsFiniteSet(Held(f)),
         before \subseteq after, x \notin after, Sheds(f, g),
         \A y \in S : f[y] # None /\ f[y] >= time => g[y] = f[y] \/ y \in after,
         Kept(f, x, time, max, before)
  PROVE  Kept(g, x, time, max, after)
  <1>1. IsFiniteSet(Held(g))
    BY ShedsSize
  <1>2. CASE f[x] # None /\ f[x] >= time
    BY <1>2 DEF Kept
  <1>3. CASE Cardinality(Others(f, x, time, before)) >= max
    <2>1. Others(f, x, time, before) \subseteq Others(g, x, time, after)
      BY DEF Others, Entries
    <2>. QED
      BY <1>1, <1>3, <2>1, MoreOthers
  <1>. QED
    BY <1>2, <1>3 DEF Kept, Others

\* The table of a write: the new entry is the youngest, and stays; what else was
\* kept is kept, as what had to go was the oldest.
LEMMA TrimmedKeeps ==
  ASSUME NEW S, NEW f \in Entries(S), NEW new \in S, NEW v \in Nat, NEW max \in Nat,
         max > 0, IsFiniteSet(Held(f)),
         \A y \in S : f[y] # None => f[y] <= v,
         NEW g \in Trimmed([f EXCEPT ![new] = v], new, max)
  PROVE  /\ g \in Entries(S) /\ g[new] = v
         /\ \A y \in S : g[y] \in {f[y], None} \/ y = new
         /\ IsFiniteSet(Held(g))
         /\ Cardinality(Held(f)) <= max => Cardinality(Held(g)) <= max
         /\ \A x \in S, time \in Nat : \A leftOut :
              IsFiniteSet(leftOut) /\ time <= v /\ Kept(f, x, time, max, leftOut)
              => Kept(g, x, time, max, leftOut)
  <1>. DEFINE h == [f EXCEPT ![new] = v]
  <1>1. /\ h \in Entries(S) /\ v # None
        /\ \A y \in S : h[y] = IF y = new THEN v ELSE f[y]
    BY Nothing DEF Entries
  <1>2. /\ Held(h) = Held(f) \cup {new} /\ DOMAIN h = S
        /\ new \in Held(h)
        /\ \A y \in Held(h) : y \in S /\ h[y] \in Nat /\ h[y] <= v
    BY <1>1 DEF Held, Entries
  <1>3. g \in Trimmed(h, new, max)
    OBVIOUS
  <1>. HIDE DEF h
  <1>4. /\ IsFiniteSet(Held(h)) /\ Cardinality(Held(h)) \in Nat
        /\ Cardinality(Held(f)) \in Nat
        /\ Cardinality(Held(h)) <= Cardinality(Held(f)) + 1
    <2>1. /\ IsFiniteSet(Held(f) \cup {new}) /\ Cardinality(Held(f)) \in Nat
          /\ Cardinality(Held(f) \cup {new}) \in Nat
      BY FS_AddElement, FS_CardinalityType
    <2>2. Cardinality(Held(f) \cup {new})
            = IF new \in Held(f) THEN Cardinality(Held(f)) ELSE Cardinality(Held(f)) + 1
      BY FS_AddElement
    <2>. QED
      BY <1>2, <2>1, <2>2
  <1>5. ASSUME NEW x \in S, NEW time \in Nat, NEW leftOut, IsFiniteSet(leftOut),
               time <= v, Kept(f, x, time, max, leftOut)
        PROVE  Kept(h, x, time, max, leftOut)
    <2>1. CASE x = new
      BY <1>1, <1>5, <2>1 DEF Kept
    <2>2. CASE f[x] # None /\ f[x] >= time /\ x # new
      BY <1>1, <2>2 DEF Kept
    <2>3. CASE Cardinality(Others(f, x, time, leftOut)) >= max
      <3>1. Others(f, x, time, leftOut) \subseteq Others(h, x, time, leftOut)
        BY <1>1, <1>2, <1>5 DEF Others, Entries
      <3>. QED
        BY <1>1, <1>4, <1>5, <2>3, <3>1, MoreOthers
    <2>. QED
      BY <1>5, <2>1, <2>2, <2>3 DEF Kept, Others
  <1>6. CASE Cardinality(Held(h)) <= max
    <2>1. g = h
      BY <1>3, <1>6 DEF Trimmed
    <2>. QED
      BY <1>1, <1>2, <1>4, <1>5, <1>6, <2>1
  <1>7. CASE ~(Cardinality(Held(h)) <= max)
    <2>1. PICK z \in Oldest(h, new) : g = [h EXCEPT ![z] = None]
      BY <1>3, <1>7 DEF Trimmed
    <2>2. /\ z \in Held(h) /\ \A y \in Held(h) : h[z] <= h[y]
          /\ z = new => \A y \in Held(h) \ {z} : h[z] < h[y]
      BY DEF Oldest
    <2>3. z # new
      <3>1. SUFFICES ASSUME z = new
                     PROVE  FALSE
        OBVIOUS
      <3>2. Held(h) \ {z} = {}
        BY <1>1, <1>2, <2>2, <3>1
      <3>3. Held(h) = {} \cup {z}
        BY <2>2, <3>2
      <3>4. Cardinality(Held(h)) = 1
        <4>1. IsFiniteSet({}) /\ Cardinality({}) = 0 /\ z \notin {}
          BY FS_EmptySet
        <4>2. Cardinality({} \cup {z}) = Cardinality({}) + 1
          BY <4>1, FS_AddElement
        <4>. QED
          BY <3>3, <4>1, <4>2
      <3>. QED
        BY <1>7, <3>4
    <2>4. /\ g \in Entries(S) /\ \A y \in S : g[y] = IF y = z THEN None ELSE h[y]
          /\ Held(g) = Held(h) \ {z} /\ z \in S
      BY <1>1, <1>2, <2>1, <2>2 DEF Held, Entries
    <2>5. /\ IsFiniteSet(Held(g)) /\ Cardinality(Held(g)) = Cardinality(Held(h)) - 1
      BY <1>4, <2>2, <2>4, FS_RemoveElement
    <2>6. ASSUME NEW x \in S, NEW time \in Nat, NEW leftOut, IsFiniteSet(leftOut),
                 time <= v, Kept(f, x, time, max, leftOut)
          PROVE  Kept(g, x, time, max, leftOut)
      <3>1. Kept(h, x, time, max, leftOut)
        BY <1>5, <2>6
      <3>2. CASE h[z] >= time
        <4>1. \A y \in Held(g) : y \in S /\ g[y] \in Nat /\ g[y] >= time
          BY <1>2, <2>2, <2>4, <3>2
        <4>2. CASE x \in Held(g)
          BY <4>1, <4>2 DEF Kept, Held
        <4>3. CASE x \notin Held(g)
          <5>1. Held(g) \subseteq Others(g, x, time, leftOut)
            BY <2>4, <4>1, <4>3 DEF Others, Held, Entries
          <5>2. /\ IsFiniteSet(Others(g, x, time, leftOut))
                /\ Cardinality(Others(g, x, time, leftOut)) \in Nat
            BY <2>4, <2>5, <2>6, OthersFinite
          <5>3. Cardinality(Held(g)) <= Cardinality(Others(g, x, time, leftOut))
            BY <5>1, <5>2, FS_Subset
          <5>4. Cardinality(Others(g, x, time, leftOut)) >= max
            BY <1>4, <1>7, <2>5, <5>2, <5>3
          <5>. QED
            BY <5>4 DEF Kept, Others
        <4>. QED
          BY <4>2, <4>3
      <3>3. CASE ~(h[z] >= time)
        <4>1. Sheds(h, g) /\ \A y \in S : h[y] # None /\ h[y] >= time => g[y] = h[y]
          BY <1>2, <2>4, <3>3 DEF Sheds
        <4>2. CASE h[x] # None /\ h[x] >= time
          BY <4>1, <4>2 DEF Kept
        <4>3. CASE Cardinality(Others(h, x, time, leftOut)) >= max
          <5>1. Others(h, x, time, leftOut) \subseteq Others(g, x, time, leftOut)
            BY <1>1, <2>4, <4>1 DEF Others, Entries
          <5>. QED
            BY <1>1, <1>4, <2>4, <2>5, <2>6, <4>3, <5>1, MoreOthers
        <4>. QED
          BY <3>1, <4>2, <4>3 DEF Kept, Others
      <3>. QED
        BY <3>2, <3>3
    <2>7. g[new] = v /\ \A y \in S : g[y] \in {f[y], None} \/ y = new
      BY <1>1, <2>3, <2>4
    <2>8. Cardinality(Held(f)) <= max => Cardinality(Held(g)) <= max
      BY <1>4, <2>5
    <2>. QED
      BY <2>4, <2>5, <2>6, <2>7, <2>8
  <1>. QED
    BY <1>6, <1>7
-----------------------------------------------------------------------------
(***************************************************************************)
(* The tables keep their limits                                            *)
(***************************************************************************)

\* A table is finite and within its limits.
Sized(m) == IsFiniteSet(Held(m.msgs)) /\ IsFiniteSet(Held(m.evs)) /\ Bounded(m)

\* No token expires later than one that is given out now.
Young(m) == \A x \in Messages : m.msgs[x] # None => m.msgs[x] <= now + MessageTTL

Fit(m) == Sized(m) /\ Young(m)

\* All tables there are.
Tabs == {disk} \cup {mem[r] : r \in Runtimes} \cup {undo[r] : r \in Runtimes}
               \cup {snap[r] : r \in {x \in Runtimes : snap[x] # None}}

FitInv == \A m \in Tabs : Fit(m)

\* The write of task t puts its token into table m, or its claim.
Remembers(t, m) ==
  /\ At(t, "remember")
  /\ \E f \in Trimmed([Fresh(mem[Rt(t)]).msgs EXCEPT ![Id(t)] = now + MessageTTL],
                      Id(t), MaxMessages) :
       m = [Fresh(mem[Rt(t)]) EXCEPT !.msgs = f]

ClaimsIn(t, m) ==
  /\ At(t, "claim")
  /\ \E f \in Trimmed([Fresh(mem[Rt(t)]).evs EXCEPT ![Id(t)] = now], Id(t), MaxEvents) :
       m = [Fresh(mem[Rt(t)]) EXCEPT !.evs = f]

\* All tables are tables.
LEMMA TabsTyped ==
  ASSUME Typed
  PROVE  /\ Tabs \subseteq Tables
         /\ \A r \in Runtimes :
              /\ mem[r] \in Tabs /\ undo[r] \in Tabs
              /\ snap[r] # None => snap[r] \in Tabs
         /\ disk \in Tabs
  BY DEF Typed, Tabs

\* The times of a table are numbers.
LEMMA TableEntries ==
  ASSUME NEW m \in Tables
  PROVE  m.msgs \in Entries(Messages) /\ m.evs \in Entries(Events)
  <1>1. 0 .. MaxTime + MessageTTL \cup {None} \subseteq Nat \cup {None}
    BY Numbers
  <1>2. Times \cup {None} \subseteq Nat \cup {None}
    BY Numbers
  <1>. QED
    BY <1>1, <1>2, TableFields DEF Entries

\* Forgetting sheds what is over and nothing else.
LEMMA FreshSheds ==
  ASSUME NEW m \in Tables
  PROVE  /\ Fresh(m) \in Tables
         /\ Sheds(m.msgs, Fresh(m).msgs) /\ Sheds(m.evs, Fresh(m).evs)
         /\ \A x \in Messages :
              m.msgs[x] # None /\ m.msgs[x] > now => Fresh(m).msgs[x] = m.msgs[x]
         /\ \A e \in Events :
              m.evs[e] # None /\ m.evs[e] + EventTTL > now => Fresh(m).evs[e] = m.evs[e]
  <1>1. DOMAIN m.msgs = Messages /\ DOMAIN m.evs = Events
    BY TableFields
  <1>2. Fresh(m).msgs = [x \in Messages |->
                           IF m.msgs[x] # None /\ m.msgs[x] > now THEN m.msgs[x] ELSE None]
    BY DEF Fresh
  <1>3. \A x \in Messages :
          Fresh(m).msgs[x] = IF m.msgs[x] # None /\ m.msgs[x] > now THEN m.msgs[x] ELSE None
    BY <1>2
  <1>4. Fresh(m) \in Tables
        /\ \A e \in Events :
             Fresh(m).evs[e] = IF m.evs[e] # None /\ m.evs[e] + EventTTL > now
                               THEN m.evs[e] ELSE None
    BY FreshTables
  <1>. QED
    BY <1>1, <1>3, <1>4 DEF Sheds

\* So does a load, but for tokens without a route.
LEMMA RestoredSheds ==
  ASSUME Typed, Past(disk)
  PROVE  /\ Restored \in Tables
         /\ Sheds(disk.msgs, Restored.msgs) /\ Sheds(disk.evs, Restored.evs)
         /\ \A x \in Messages :
              disk.msgs[x] # None /\ disk.msgs[x] > now
              => Restored.msgs[x] = disk.msgs[x] \/ x \in Unrouted
         /\ \A e \in Events : disk.evs[e] # None /\ disk.evs[e] + EventTTL > now
                              => Restored.evs[e] = disk.evs[e]
  <1>1. disk \in Tables
    BY DEF Typed
  <1>2. DOMAIN disk.msgs = Messages /\ DOMAIN disk.evs = Events
    BY <1>1, TableFields
  <1>3. Restored.msgs = [m \in Messages |->
                           IF m \in Unrouted THEN None ELSE Fresh(disk).msgs[m]]
    BY DEF Restored
  <1>4. \A x \in Messages :
          Restored.msgs[x] = IF x \in Unrouted THEN None ELSE Fresh(disk).msgs[x]
    BY <1>3
  <1>5. /\ Restored \in Tables
        /\ \A e \in Events :
             Restored.evs[e] = IF disk.evs[e] # None /\ disk.evs[e] > now
                               THEN None ELSE Fresh(disk).evs[e]
    BY <1>1, RestoredTables
  <1>6. \A e \in Events : disk.evs[e] # None => ~(disk.evs[e] > now)
    <2>1. \A e \in Events : disk.evs[e] # None => disk.evs[e] \in Nat /\ disk.evs[e] <= now
      BY <1>1, TableFields, Numbers DEF Past
    <2>2. now \in Nat
      BY Numbers DEF Typed
    <2>. QED
      BY <2>1, <2>2
  <1>7. \A e \in Events : Restored.evs[e] = Fresh(disk).evs[e]
    BY <1>5, <1>6
  <1>. QED
    BY <1>1, <1>2, <1>4, <1>5, <1>7, FreshSheds DEF Sheds

\* A table that sheds entries of one that fits, fits.
LEMMA FitSheds ==
  ASSUME Typed, NEW m \in Tables, NEW n \in Tables, Fit(m),
         Sheds(m.msgs, n.msgs), Sheds(m.evs, n.evs)
  PROVE  Fit(n)
  <1>1. /\ m.msgs \in Entries(Messages) /\ m.evs \in Entries(Events)
        /\ n.msgs \in Entries(Messages) /\ n.evs \in Entries(Events)
    BY TableEntries
  <1>2. /\ IsFiniteSet(Held(n.msgs)) /\ Cardinality(Held(n.msgs)) <= Cardinality(Held(m.msgs))
        /\ Cardinality(Held(n.msgs)) \in Nat /\ Cardinality(Held(m.msgs)) \in Nat
    BY <1>1, ShedsSize DEF Fit, Sized
  <1>3. /\ IsFiniteSet(Held(n.evs)) /\ Cardinality(Held(n.evs)) <= Cardinality(Held(m.evs))
        /\ Cardinality(Held(n.evs)) \in Nat /\ Cardinality(Held(m.evs)) \in Nat
    BY <1>1, ShedsSize DEF Fit, Sized
  <1>4. MaxMessages \in Nat /\ MaxEvents \in Nat
    BY EventBoundsAssumption
  <1>5. Sized(n)
    BY <1>2, <1>3, <1>4 DEF Fit, Sized, Bounded
  <1>6. Young(n)
    <2>1. \A x \in Messages : n.msgs[x] \in {m.msgs[x], None}
      BY <1>1 DEF Sheds, Entries
    <2>. QED
      BY <2>1 DEF Fit, Young
  <1>. QED
    BY <1>5, <1>6 DEF Fit

\* An empty table fits.
LEMMA FitEmpty == Fit(EmptyTables)
  <1>1. /\ Held(EmptyTables.msgs) = {} /\ Held(EmptyTables.evs) = {}
        /\ \A x \in Messages : EmptyTables.msgs[x] = None
    BY DEF EmptyTables, Held
  <1>2. MaxMessages \in Nat /\ MaxEvents \in Nat
    BY EventBoundsAssumption
  <1>. QED
    BY <1>1, <1>2, FS_EmptySet DEF Fit, Sized, Bounded, Young

\* What a write makes of the tables of its runtime.
LEMMA WrittenTable ==
  ASSUME IInv, FitInv, NEW t \in Tasks, NEW m, Remembers(t, m) \/ ClaimsIn(t, m)
  PROVE  LET h == mem[Rt(t)] IN
         /\ m \in Tables /\ Fit(m) /\ h \in Tables /\ Rt(t) \in Runtimes
         /\ Remembers(t, m) =>
              /\ m.evs = Fresh(h).evs /\ Id(t) \in Messages
              /\ m.msgs[Id(t)] = now + MessageTTL
              /\ \A x \in Messages : m.msgs[x] \in {h.msgs[x], None} \/ x = Id(t)
         /\ ClaimsIn(t, m) =>
              /\ m.msgs = Fresh(h).msgs /\ Id(t) \in Events
              /\ m.evs[Id(t)] = now
              /\ \A e \in Events : m.evs[e] \in {h.evs[e], None} \/ e = Id(t)
         /\ \A x \in Messages, time \in Nat : \A leftOut :
              /\ IsFiniteSet(leftOut) /\ x \notin leftOut
              /\ now < time /\ time <= now + MessageTTL
              /\ Kept(h.msgs, x, time, MaxMessages, leftOut)
              => Kept(m.msgs, x, time, MaxMessages, leftOut)
         /\ \A e \in Events, time \in Nat :
              /\ time <= now /\ now < time + EventTTL
              /\ Kept(h.evs, e, time, MaxEvents, {})
              => Kept(m.evs, e, time, MaxEvents, {})
  <1>. USE DEF IInv
  <1>. DEFINE h == mem[Rt(t)]
              f == Fresh(h)
  <1>1. /\ task[t] # None /\ task[t].at \in {"remember", "claim"}
        /\ Remembers(t, m) => task[t].at = "remember"
        /\ ClaimsIn(t, m) => task[t].at = "claim"
    BY DEF Remembers, ClaimsIn, At
  <1>2. /\ Rt(t) \in Runtimes /\ now \in Nat /\ EventTTL \in Nat
        /\ Remembers(t, m) => Id(t) \in Messages
        /\ ClaimsIn(t, m) => Id(t) \in Events
    BY <1>1, JobFields, Numbers DEF TimeInv, InTime, Id, Typed
  <1>3. h \in Tables /\ Past(h) /\ Fit(h)
    <2>1. h \in Tabs /\ Tabs \subseteq Tables
      BY <1>2, TabsTyped
    <2>2. Past(h)
      BY <1>2 DEF PastInv
    <2>. HIDE DEF h
    <2>. QED
      BY <2>1, <2>2 DEF FitInv
  <1>4. /\ f \in Tables /\ Sheds(h.msgs, f.msgs) /\ Sheds(h.evs, f.evs)
        /\ \A x \in Messages : h.msgs[x] # None /\ h.msgs[x] > now => f.msgs[x] = h.msgs[x]
        /\ \A e \in Events : h.evs[e] # None /\ h.evs[e] + EventTTL > now
                             => f.evs[e] = h.evs[e]
    BY <1>3, FreshSheds
  <1>5. Fit(f)
    BY <1>3, <1>4, FitSheds
  <1>6. /\ h.msgs \in Entries(Messages) /\ h.evs \in Entries(Events)
        /\ f.msgs \in Entries(Messages) /\ f.evs \in Entries(Events)
    BY <1>3, <1>4, TableEntries
  <1>7. /\ \A x \in Messages : f.msgs[x] \in {h.msgs[x], None}
        /\ \A e \in Events : f.evs[e] \in {h.evs[e], None}
    BY <1>4, <1>6 DEF Sheds, Entries
  <1>8. /\ MaxMessages \in Nat /\ MaxMessages > 0 /\ MaxEvents \in Nat /\ MaxEvents > 0
        /\ now + MessageTTL \in Nat /\ now + MessageTTL \in 0 .. MaxTime + MessageTTL
        /\ now \in Times
    BY EventBoundsAssumption, Numbers DEF Typed, Times
  <1>9. /\ IsFiniteSet(Held(h.msgs)) /\ IsFiniteSet(Held(h.evs))
        /\ IsFiniteSet(Held(f.msgs)) /\ IsFiniteSet(Held(f.evs)) /\ IsFiniteSet({})
        /\ Cardinality(Held(f.msgs)) <= MaxMessages
        /\ Cardinality(Held(f.evs)) <= MaxEvents
    BY <1>3, <1>5, FS_EmptySet DEF Fit, Sized, Bounded
  <1>10. /\ \A x \in Messages : f.msgs[x] # None => f.msgs[x] <= now + MessageTTL
         /\ \A e \in Events : f.evs[e] # None => f.evs[e] <= now
    BY <1>3, <1>5, <1>7 DEF Fit, Young, Past
  <1>11. ASSUME NEW x \in Messages, NEW time \in Nat, NEW leftOut, IsFiniteSet(leftOut),
                x \notin leftOut, now < time, Kept(h.msgs, x, time, MaxMessages, leftOut)
         PROVE  Kept(f.msgs, x, time, MaxMessages, leftOut)
    <2>1. \A y \in Messages : h.msgs[y] # None /\ h.msgs[y] >= time => f.msgs[y] = h.msgs[y]
      <3>1. \A y \in Messages : h.msgs[y] # None => h.msgs[y] \in Nat
        BY <1>6 DEF Entries
      <3>2. \A y \in Messages : h.msgs[y] # None /\ h.msgs[y] >= time => h.msgs[y] > now
        BY <1>2, <1>11, <3>1
      <3>. QED
        BY <1>4, <3>2
    <2>. HIDE DEF f, h
    <2>. QED
      BY <1>4, <1>6, <1>8, <1>9, <1>11, <2>1, ShedsKept
  <1>12. ASSUME NEW e \in Events, NEW time \in Nat, now < time + EventTTL,
                Kept(h.evs, e, time, MaxEvents, {})
         PROVE  Kept(f.evs, e, time, MaxEvents, {})
    <2>1. \A y \in Events : h.evs[y] # None /\ h.evs[y] >= time => f.evs[y] = h.evs[y]
      <3>1. \A y \in Events : h.evs[y] # None => h.evs[y] \in Nat
        BY <1>6 DEF Entries
      <3>2. \A y \in Events : h.evs[y] # None /\ h.evs[y] >= time => h.evs[y] + EventTTL > now
        BY <1>2, <1>12, <3>1
      <3>. QED
        BY <1>4, <3>2
    <2>. HIDE DEF f, h
    <2>. QED
      BY <1>4, <1>6, <1>8, <1>9, <1>12, <2>1, ShedsKept
  <1>13. CASE Remembers(t, m)
    <2>. DEFINE id == Id(t)
                v == now + MessageTTL
    <2>1. PICK g \in Trimmed([f.msgs EXCEPT ![id] = v], id, MaxMessages) :
            m = [f EXCEPT !.msgs = g]
      BY <1>13 DEF Remembers
    <2>2. id \in Messages /\ v \in Nat /\ v \in 0 .. MaxTime + MessageTTL
      BY <1>2, <1>8, <1>13
    <2>3. g \in [Messages -> 0 .. MaxTime + MessageTTL \cup {None}]
      <3>1. [f.msgs EXCEPT ![id] = v] \in [Messages -> 0 .. MaxTime + MessageTTL \cup {None}]
        BY <1>4, <2>2, TableFields
      <3>. QED
        BY <2>1, <3>1, TrimmedEntries
    <2>4. m \in Tables /\ m.evs = f.evs /\ m.msgs = g
      <3>1. m \in Tables /\ m.evs = f.evs
        BY <1>4, <2>1, <2>3, TableUpdates
      <3>. QED
        BY <1>4, <2>1, <3>1 DEF Tables
    <2>. HIDE DEF f, h, v, id
    <2>5. /\ g[id] = v
          /\ \A y \in Messages : g[y] \in {f.msgs[y], None} \/ y = id
          /\ IsFiniteSet(Held(g)) /\ Cardinality(Held(g)) <= MaxMessages
          /\ \A x \in Messages, time \in Nat : \A leftOut :
               /\ IsFiniteSet(leftOut) /\ time <= v
               /\ Kept(f.msgs, x, time, MaxMessages, leftOut)
               => Kept(g, x, time, MaxMessages, leftOut)
      BY <1>6, <1>8, <1>9, <1>10, <2>1, <2>2, TrimmedKeeps DEF v
    <2>6. \A x \in Messages : g[x] \in {h.msgs[x], None} \/ x = id
      BY <1>7, <2>5
    <2>7. Fit(m)
      <3>1. Sized(m)
        BY <1>9, <2>4, <2>5 DEF Sized, Bounded
      <3>2. Young(m)
        BY <1>8, <1>10, <2>4, <2>5 DEF Young, v
      <3>. QED
        BY <3>1, <3>2 DEF Fit
    <2>8. ~ClaimsIn(t, m)
      BY <1>1, <1>13
    <2>. QED
      BY <1>2, <1>3, <1>11, <1>12, <2>2, <2>4, <2>5, <2>6, <2>7, <2>8 DEF f, h, v, id
  <1>14. CASE ClaimsIn(t, m)
    <2>. DEFINE id == Id(t)
    <2>1. PICK g \in Trimmed([f.evs EXCEPT ![id] = now], id, MaxEvents) :
            m = [f EXCEPT !.evs = g]
      BY <1>14 DEF ClaimsIn
    <2>2. id \in Events
      BY <1>2, <1>14
    <2>3. g \in [Events -> Times \cup {None}]
      <3>1. [f.evs EXCEPT ![id] = now] \in [Events -> Times \cup {None}]
        BY <1>4, <1>8, <2>2, TableFields
      <3>. QED
        BY <2>1, <3>1, TrimmedEntries
    <2>4. m \in Tables /\ m.evs = g /\ m.msgs = f.msgs
      <3>1. m \in Tables /\ m.evs = g
        BY <1>4, <2>1, <2>3, TableUpdates
      <3>. QED
        BY <1>4, <2>1, <3>1 DEF Tables
    <2>. HIDE DEF f, h, id
    <2>5. /\ g[id] = now
          /\ \A y \in Events : g[y] \in {f.evs[y], None} \/ y = id
          /\ IsFiniteSet(Held(g)) /\ Cardinality(Held(g)) <= MaxEvents
          /\ \A x \in Events, time \in Nat : \A leftOut :
               /\ IsFiniteSet(leftOut) /\ time <= now
               /\ Kept(f.evs, x, time, MaxEvents, leftOut)
               => Kept(g, x, time, MaxEvents, leftOut)
      BY <1>2, <1>6, <1>8, <1>9, <1>10, <2>1, <2>2, TrimmedKeeps
    <2>6. \A e \in Events : g[e] \in {h.evs[e], None} \/ e = id
      BY <1>7, <2>5
    <2>7. Fit(m)
      <3>1. Sized(m)
        BY <1>9, <2>4, <2>5 DEF Sized, Bounded
      <3>2. Young(m)
        BY <1>10, <2>4 DEF Young
      <3>. QED
        BY <3>1, <3>2 DEF Fit
    <2>8. ~Remembers(t, m)
      BY <1>1, <1>14
    <2>. QED
      BY <1>2, <1>3, <1>9, <1>11, <1>12, <2>2, <2>4, <2>5, <2>6, <2>7, <2>8 DEF f, h, id
  <1>. QED
    BY <1>13, <1>14

\* A write begins: its table is the memory of its runtime from now on.
LEMMA Begins ==
  ASSUME IInv, NEW t \in Tasks, BeginRemember(t) \/ BeginClaim(t)
  PROVE  \E m \in Tables :
           /\ mem' = [mem EXCEPT ![Rt(t)] = m]
           /\ snap' = [snap EXCEPT ![Rt(t)] = m]
           /\ BeginRemember(t) => Remembers(t, m)
           /\ BeginClaim(t) => ClaimsIn(t, m)
  <1>1. Rt(t) \in Runtimes
    BY BeginsWrite
  <1>2. PICK n \in Tables : /\ mem' = [mem EXCEPT ![Rt(t)] = n]
                            /\ snap' = [snap EXCEPT ![Rt(t)] = n]
    BY BeginsWrite
  <1>3. mem'[Rt(t)] = n
    BY <1>1, <1>2 DEF IInv, Typed
  <1>4. \A m : mem' = [mem EXCEPT ![Rt(t)] = m] => m = n
    BY <1>1, <1>3 DEF IInv, Typed
  <1>5. BeginRemember(t) => Remembers(t, n)
    <2>1. SUFFICES ASSUME BeginRemember(t)
                   PROVE  Remembers(t, n)
      OBVIOUS
    <2>2. At(t, "remember")
      BY <2>1 DEF BeginRemember
    <2>3. PICK f \in Trimmed([Fresh(mem[Rt(t)]).msgs EXCEPT ![Id(t)] = now + MessageTTL],
                             Id(t), MaxMessages) :
            Save(t, [Fresh(mem[Rt(t)]) EXCEPT !.msgs = f])
      BY <2>1 DEF BeginRemember
    <2>4. n = [Fresh(mem[Rt(t)]) EXCEPT !.msgs = f]
      BY <1>4, <2>3 DEF Save
    <2>. QED
      BY <2>2, <2>3, <2>4 DEF Remembers
  <1>6. BeginClaim(t) => ClaimsIn(t, n)
    <2>1. SUFFICES ASSUME BeginClaim(t)
                   PROVE  ClaimsIn(t, n)
      OBVIOUS
    <2>2. At(t, "claim")
      BY <2>1 DEF BeginClaim
    <2>3. PICK f \in Trimmed([Fresh(mem[Rt(t)]).evs EXCEPT ![Id(t)] = now],
                             Id(t), MaxEvents) :
            Save(t, [Fresh(mem[Rt(t)]) EXCEPT !.evs = f])
      BY <2>1 DEF BeginClaim
    <2>4. n = [Fresh(mem[Rt(t)]) EXCEPT !.evs = f]
      BY <1>4, <2>3 DEF Save
    <2>. QED
      BY <2>2, <2>3, <2>4 DEF ClaimsIn
  <1>. QED
    BY <1>2, <1>5, <1>6

\* A table after a step was there before, or a step made it of one.
LEMMA TabsMove ==
  ASSUME IInv, [Next]_vars, NEW m \in Tabs'
  PROVE  \/ m \in Tabs \/ m = EmptyTables \/ m = Restored
         \/ \E r \in Runtimes : m = Fresh(mem[r])
         \/ \E t \in Tasks : Remembers(t, m) \/ ClaimsIn(t, m)
  <1>. USE DEF IInv
  <1>. DEFINE Goal == \/ m \in Tabs \/ m = EmptyTables \/ m = Restored
                      \/ \E r \in Runtimes : m = Fresh(mem[r])
                      \/ \E t \in Tasks : Remembers(t, m) \/ ClaimsIn(t, m)
  <1>1. ASSUME UNCHANGED <<disk, mem, undo, snap>>
        PROVE  m \in Tabs
    BY <1>1 DEF Tabs
  <1>2. \/ m = disk' \/ \E r \in Runtimes : m = mem'[r] \/ m = undo'[r]
        \/ \E r \in Runtimes : snap'[r] # None /\ m = snap'[r]
    BY DEF Tabs
  <1>3. /\ disk \in Tabs
        /\ \A r \in Runtimes :
             /\ mem[r] \in Tabs /\ undo[r] \in Tabs
             /\ snap[r] # None => snap[r] \in Tabs
    BY TabsTyped
  <1>4. CASE \E r \in Runtimes : SlotStep(r)
    BY <1>1, <1>4 DEF SlotStep, EnterSlot, Stop, FencePrevious, TakeOver, LoadFails,
       CancelStart, fileVars
  <1>5. ASSUME NEW r \in Runtimes, Load(r)
        PROVE  Goal
    <2>1. mem' = [mem EXCEPT ![r] = Restored] /\ UNCHANGED <<disk, undo, snap>>
      BY <1>5 DEF Load
    <2>. QED
      BY <1>2, <1>3, <2>1 DEF Typed
  <1>6. ASSUME NEW t \in Tasks, QuietStep(t) \/ Publish(t)
        PROVE  Goal
    <2>1. UNCHANGED fileVars
      BY <1>6, Quiet DEF Publish
    <2>. QED
      BY <1>1, <2>1 DEF fileVars
  <1>7. ASSUME NEW t \in Tasks, Duplicate(t)
        PROVE  Goal
    <2>1. Rt(t) \in Runtimes
      BY <1>7, JobFields DEF Duplicate, At
    <2>2. /\ mem' = [mem EXCEPT ![Rt(t)] = Fresh(mem[Rt(t)])]
          /\ UNCHANGED <<disk, undo, snap>>
      BY <1>7 DEF Duplicate
    <2>. QED
      BY <1>2, <1>3, <2>1, <2>2 DEF Typed
  <1>8. ASSUME NEW t \in Tasks, BeginRemember(t) \/ BeginClaim(t)
        PROVE  Goal
    <2>1. PICK n \in Tables : /\ mem' = [mem EXCEPT ![Rt(t)] = n]
                              /\ snap' = [snap EXCEPT ![Rt(t)] = n]
                              /\ Remembers(t, n) \/ ClaimsIn(t, n)
      BY <1>8, Begins
    <2>2. /\ Rt(t) \in Runtimes
          /\ undo' = [undo EXCEPT ![Rt(t)] = mem[Rt(t)]]
          /\ UNCHANGED disk
      BY <1>8, BeginsWrite
    <2>3. m = n \/ m \in Tabs
      BY <1>2, <1>3, <2>1, <2>2 DEF Typed
    <2>. QED
      BY <2>1, <2>3
  <1>9. ASSUME NEW t \in Tasks, Remembered(t) \/ Claimed(t)
        PROVE  Goal
    <2>1. PICK r \in Runtimes :
            /\ mem' \in {mem, [mem EXCEPT ![r] = undo[r]]}
            /\ disk' = disk \/ disk' = mem[r]
            /\ snap' = [snap EXCEPT ![r] = None]
            /\ undo' = [undo EXCEPT ![r] = EmptyTables]
      BY <1>9, EndsWrite
    <2>. QED
      BY <1>2, <1>3, <2>1 DEF Typed
  <1>10. CASE Tick \/ (\E id \in Ids : Reroute(id)) \/ UNCHANGED vars
    BY <1>1, <1>10 DEF Tick, Reroute, vars, fileVars
  <1>11. CASE Crash
    <2>1. /\ disk' = disk \/ \E r \in Runtimes : snap[r] # None /\ disk' = snap[r]
          /\ mem' = [r \in Runtimes |-> EmptyTables] /\ undo' = mem'
          /\ snap' = [r \in Runtimes |-> None]
      BY <1>11 DEF Crash
    <2>. QED
      BY <1>2, <1>3, <2>1
  <1>. QED
    BY <1>4, <1>5, <1>6, <1>7, <1>8, <1>9, <1>10, <1>11, NextCases

\* No write, no load and no rollback leaves a table over its limit.
LEMMA FitKept ==
  ASSUME IInv, IInv', FitInv, [Next]_vars
  PROVE  FitInv'
  <1>1. /\ now \in Nat /\ now' \in Nat /\ now <= now' /\ Typed /\ Tabs \subseteq Tables
        /\ Typed' /\ Tabs' \subseteq Tables
        /\ disk \in Tabs /\ \A r \in Runtimes : mem[r] \in Tabs
    <2>1. Typed /\ Typed'
      BY DEF IInv
    <2>2. Tabs' \subseteq Tables'
      BY <2>1 DEF Typed, Tabs, Tables, Times
    <2>3. Tables' = Tables
      BY DEF Tables, Times
    <2>. QED
      BY <2>1, <2>2, <2>3, Grows, TabsTyped
  <1>2. ASSUME NEW m \in Tables, Fit(m)
        PROVE  Fit(m)'
    <2>1. m.msgs \in Entries(Messages)
      BY TableEntries
    <2>2. Young(m)'
      BY <1>1, <1>2, <2>1, Numbers DEF Fit, Young, Entries
    <2>. QED
      BY <1>2, <2>2 DEF Fit, Sized, Bounded
  <1>3. SUFFICES ASSUME NEW m \in Tabs'
                 PROVE  Fit(m)
    BY <1>1, <1>2 DEF FitInv
  <1>4. CASE m \in Tabs
    BY <1>4 DEF FitInv
  <1>5. CASE m = EmptyTables
    BY <1>5, FitEmpty
  <1>6. CASE m = Restored
    <2>1. Fit(disk) /\ Past(disk) /\ disk \in Tables
      BY <1>1 DEF FitInv, IInv, PastInv
    <2>. QED
      BY <1>1, <1>6, <2>1, RestoredSheds, FitSheds
  <1>7. ASSUME NEW r \in Runtimes, m = Fresh(mem[r])
        PROVE  Fit(m)
    <2>1. Fit(mem[r]) /\ mem[r] \in Tables
      BY <1>1 DEF FitInv
    <2>2. /\ Fresh(mem[r]) \in Tables
          /\ Sheds(mem[r].msgs, Fresh(mem[r]).msgs) /\ Sheds(mem[r].evs, Fresh(mem[r]).evs)
      BY <2>1, FreshSheds
    <2>. QED
      BY <1>1, <1>7, <2>1, <2>2, FitSheds
  <1>8. ASSUME NEW t \in Tasks, Remembers(t, m) \/ ClaimsIn(t, m)
        PROVE  Fit(m)
    BY <1>8, WrittenTable
  <1>. QED
    BY <1>4, <1>5, <1>6, <1>7, <1>8, TabsMove
-----------------------------------------------------------------------------
(***************************************************************************)
(* The histories, and the entries that are being written                   *)
(***************************************************************************)

\* The types of the variables that IInv leaves out.
HistoryTyped ==
  /\ routed \subseteq Ids
  /\ evicted \subseteq Events
  /\ handed \in [Messages -> 0 .. MaxTime + MessageTTL \cup {None}]
  /\ dropped \subseteq Messages /\ IsFiniteSet(dropped)
  /\ lost \subseteq Events
  /\ crashes \in 0 .. MaxCrashes

\* No token was given out for longer than one that is given out now.
HandedInv == \A m \in Messages : handed[m] # None => handed[m] <= now + MessageTTL

\* What a task writes is in the memory of its runtime, and is the youngest there.
WritesInv ==
  \A t \in Tasks :
    /\ At(t, "claiming") => mem[Rt(t)].evs[Id(t)] = task[t].since
    /\ At(t, "remembering") =>
         /\ mem[Rt(t)].msgs[Id(t)] # None
         /\ \A m \in Messages : handed[m] # None => handed[m] <= mem[Rt(t)].msgs[Id(t)]

\* A task that is writing was writing before, undisturbed, or begins.
LEMMA WritersMove ==
  ASSUME IInv, [Next]_vars, NEW u \in Tasks, NEW label \in Writing, At(u, label)'
  PROVE  \/ /\ task'[u] = task[u] /\ mem'[Rt(u)] = mem[Rt(u)] /\ At(u, label)
            /\ Rt(u) \in Runtimes /\ lock[Rt(u)] = u /\ lock'[Rt(u)] = u
         \/ BeginRemember(u) /\ label = "remembering"
         \/ BeginClaim(u) /\ label = "claiming"
  <1>. USE DEF IInv
  <1>. DEFINE Same == /\ task'[u] = task[u] /\ mem'[Rt(u)] = mem[Rt(u)] /\ At(u, label)
                      /\ Rt(u) \in Runtimes /\ lock[Rt(u)] = u /\ lock'[Rt(u)] = u
              Goal == \/ Same
                      \/ BeginRemember(u) /\ label = "remembering"
                      \/ BeginClaim(u) /\ label = "claiming"
  <1>1. ASSUME At(u, label)
        PROVE  Rt(u) \in Runtimes /\ lock[Rt(u)] = u /\ phase[Rt(u)] = "up"
    BY <1>1, JobFields DEF LockInv, At, Writing
  <1>2. ASSUME task'[u] = task[u], At(u, label) => mem'[Rt(u)] = mem[Rt(u)],
               At(u, label) => lock'[Rt(u)] = lock[Rt(u)]
        PROVE  Same
    BY <1>1, <1>2 DEF At
  <1>. HIDE DEF Same
  <1>3. ASSUME NEW r \in Runtimes, SlotStep(r) \/ Load(r)
        PROVE  Goal
    <2>1. /\ task' = task
          /\ \A x \in Runtimes :
               phase[x] = "up" /\ lock[x] \in Tasks => mem'[x] = mem[x] /\ lock'[x] = lock[x]
      BY <1>3, Nothing DEF SlotStep, EnterSlot, Stop, FencePrevious, TakeOver, Load,
         LoadFails, CancelStart, LeaveStart, Typed, fileVars, SlotInv
    <2>. QED
      BY <1>1, <1>2, <2>1
  <1>4. ASSUME NEW t \in Tasks, QuietStep(t)
        PROVE  Goal
    <2>1. PICK j \in Job \cup {None} : /\ task' = [task EXCEPT ![t] = j]
                                       /\ j # None => j.at \in Before
      BY <1>4, Quiet
    <2>2. mem' = mem /\ lock' = lock
      BY <1>4, Quiet DEF fileVars
    <2>3. t # u
      BY <2>1 DEF At, Before, Writing, Typed
    <2>. QED
      BY <1>2, <2>1, <2>2, <2>3 DEF Typed
  <1>5. ASSUME NEW t \in Tasks, Duplicate(t) \/ Publish(t)
        PROVE  Goal
    <2>1. /\ task' = [task EXCEPT ![t] = None] /\ lock' = lock
          /\ mem' = mem \/ (lock[Rt(t)] = None /\ \E m : mem' = [mem EXCEPT ![Rt(t)] = m])
      BY <1>5 DEF Duplicate, Publish, Finish, fileVars
    <2>2. t # u
      BY <2>1 DEF At, Typed
    <2>3. task'[u] = task[u] /\ (At(u, label) => mem'[Rt(u)] = mem[Rt(u)])
      BY <1>1, <2>1, <2>2, Nothing DEF Typed
    <2>. QED
      BY <1>2, <2>1, <2>3
  <1>6. ASSUME NEW t \in Tasks, BeginRemember(t) \/ BeginClaim(t)
        PROVE  Goal
    <2>1. PICK j \in Job :
            /\ task' = [task EXCEPT ![t] = j]
            /\ \/ BeginRemember(t) /\ j.at = "remembering"
               \/ BeginClaim(t) /\ j.at = "claiming"
      BY <1>6, BeginsWrite
    <2>2. /\ Rt(t) \in Runtimes /\ lock[Rt(t)] = None
          /\ lock' = [lock EXCEPT ![Rt(t)] = t]
          /\ \E m \in Tables : mem' = [mem EXCEPT ![Rt(t)] = m]
      BY <1>6, BeginsWrite
    <2>3. CASE u = t
      BY <2>1, <2>3 DEF At, Typed
    <2>4. CASE u # t
      <3>1. task'[u] = task[u]
        BY <2>1, <2>4 DEF Typed
      <3>2. At(u, label) => mem'[Rt(u)] = mem[Rt(u)] /\ lock'[Rt(u)] = lock[Rt(u)]
        BY <1>1, <2>2, Nothing DEF Typed
      <3>. QED
        BY <1>2, <3>1, <3>2
    <2>. QED
      BY <2>3, <2>4
  <1>7. ASSUME NEW t \in Tasks, Remembered(t) \/ Claimed(t)
        PROVE  Goal
    <2>1. PICK j \in Job \cup {None} : /\ task' = [task EXCEPT ![t] = j]
                                       /\ j # None => j.at \in {"claim", "publish"}
      BY <1>7, EndsWrite
    <2>2. /\ Rt(t) \in Runtimes /\ lock[Rt(t)] = t
          /\ lock' = [lock EXCEPT ![Rt(t)] = None]
          /\ mem' \in {mem, [mem EXCEPT ![Rt(t)] = undo[Rt(t)]]}
      BY <1>7, EndsWrite
    <2>3. t # u
      BY <2>1 DEF At, Writing, Typed
    <2>4. task'[u] = task[u]
      BY <2>1, <2>3 DEF Typed
    <2>5. At(u, label) => mem'[Rt(u)] = mem[Rt(u)] /\ lock'[Rt(u)] = lock[Rt(u)]
      BY <1>1, <2>2, <2>3 DEF Typed
    <2>. QED
      BY <1>2, <2>4, <2>5
  <1>8. ASSUME Tick \/ (\E id \in Ids : Reroute(id)) \/ UNCHANGED vars
        PROVE  Goal
    <2>1. UNCHANGED <<fileVars, task>>
      BY <1>8 DEF Tick, Reroute, vars
    <2>. QED
      BY <1>2, <2>1 DEF fileVars
  <1>9. ASSUME Crash
        PROVE  Goal
    BY <1>9 DEF Crash, At
  <1>10. Goal
    <2>. HIDE DEF Goal
    <2>. QED
      BY <1>3, <1>4, <1>5, <1>6, <1>7, <1>8, <1>9, NextCases
  <1>. QED
    BY <1>10 DEF Same

\* Task t gives out its token.
Hands(t) ==
  /\ Remembered(t)
  /\ Rt(t) \notin volatile
  /\ Write(Rt(t), "ok")
  /\ handed' = [handed EXCEPT ![Id(t)] = mem[Rt(t)].msgs[Id(t)]]
  /\ dropped' = dropped \ {Id(t)}

\* Tokens are given out by writes that end, and left out by loads.
LEMMA TokensMove ==
  ASSUME IInv, [Next]_vars
  PROVE  \/ handed' = handed /\ dropped' = dropped
         \/ \E r \in Runtimes :
              Load(r) /\ handed' = handed
              /\ dropped' = dropped \cup (Unrouted \cap Held(disk.msgs))
         \/ \E t \in Tasks : Hands(t)
  <1>1. ASSUME NEW r \in Runtimes, SlotStep(r) \/ Load(r)
        PROVE  /\ handed' = handed
               /\ \/ dropped' = dropped
                  \/ Load(r) /\ dropped' = dropped \cup (Unrouted \cap Held(disk.msgs))
    BY <1>1 DEF SlotStep, EnterSlot, Stop, FencePrevious, TakeOver, Load, LoadFails,
       CancelStart, historyVars
  <1>2. ASSUME NEW t \in Tasks,
               \/ QuietStep(t) \/ Duplicate(t) \/ Publish(t)
               \/ BeginRemember(t) \/ BeginClaim(t) \/ Claimed(t)
        PROVE  handed' = handed /\ dropped' = dropped
    BY <1>2 DEF QuietStep, Deliver, Track, Verified, Revoked, Refused, Abandoned, Interrupted,
       Duplicate, Publish, BeginRemember, BeginClaim, Claimed, historyVars
  <1>3. ASSUME NEW t \in Tasks, Remembered(t)
        PROVE  (handed' = handed /\ dropped' = dropped) \/ Hands(t)
    BY <1>3 DEF Remembered, Write, Hands
  <1>4. CASE Tick \/ Crash \/ (\E id \in Ids : Reroute(id)) \/ UNCHANGED vars
    BY <1>4 DEF Tick, Crash, Reroute, vars, historyVars
  <1>. QED
    BY <1>1, <1>2, <1>3, <1>4, NextCases

\* A task that gives out its token was the only one to write.
LEMMA HandsAlone ==
  ASSUME IInv, NEW t \in Tasks, Hands(t)
  PROVE  /\ Id(t) \in Messages /\ Rt(t) \in Runtimes /\ owner = Rt(t) /\ At(t, "remembering")
         /\ disk' = mem[Rt(t)] /\ lock[Rt(t)] = t /\ lock' = [lock EXCEPT ![Rt(t)] = None]
         /\ mem[Rt(t)] \in Tables /\ UNCHANGED <<runtimeVars, envVars>>
         /\ \A r \in Runtimes : lock[r] \in Tasks => r = Rt(t)
  <1>1. At(t, "remembering")
    BY DEF Hands, Remembered
  <1>2. task[t] # None /\ InTime(task[t])
    BY <1>1 DEF At, IInv, TimeInv
  <1>3. Id(t) \in Messages
    BY <1>1, <1>2 DEF At, Id, InTime
  <1>4. /\ Rt(t) \in Runtimes /\ owner = Rt(t)
        /\ lock[Rt(t)] = t /\ lock' = [lock EXCEPT ![Rt(t)] = None]
        /\ mem[Rt(t)] \in Tables /\ snap[Rt(t)] = mem[Rt(t)]
        /\ UNCHANGED <<runtimeVars, envVars>>
    BY EndsWrite DEF Hands
  <1>5. disk' = mem[Rt(t)]
    BY <1>4 DEF Hands, Write
  <1>6. \A r \in Runtimes : lock[r] \in Tasks => r = Rt(t)
    BY <1>4 DEF IInv, LockInv
  <1>. QED
    BY <1>1, <1>3, <1>4, <1>5, <1>6

\* Every step keeps the types of the histories.
LEMMA HistoryKept ==
  ASSUME IInv, FitInv, HistoryTyped, [Next]_vars
  PROVE  HistoryTyped'
  <1>. USE DEF IInv
  <1>1. handed' \in [Messages -> 0 .. MaxTime + MessageTTL \cup {None}]
        /\ dropped' \subseteq Messages /\ IsFiniteSet(dropped')
    <2>1. ASSUME NEW r \in Runtimes, Load(r),
                 dropped' = dropped \cup (Unrouted \cap Held(disk.msgs))
          PROVE  dropped' \subseteq Messages /\ IsFiniteSet(dropped')
      <3>1. disk \in Tabs
        BY TabsTyped
      <3>2. IsFiniteSet(Held(disk.msgs))
        BY <3>1 DEF FitInv, Fit, Sized
      <3>3. IsFiniteSet(Unrouted \cap Held(disk.msgs))
        <4>1. (Unrouted \cap Held(disk.msgs)) \in SUBSET Held(disk.msgs)
          OBVIOUS
        <4>. QED
          BY <3>2, <4>1, FS_Subset
      <3>4. IsFiniteSet(dropped')
        BY <2>1, <3>3, FS_Union DEF HistoryTyped
      <3>. QED
        BY <2>1, <3>4 DEF HistoryTyped, Unrouted
    <2>2. ASSUME NEW t \in Tasks, Hands(t)
          PROVE  /\ handed' \in [Messages -> 0 .. MaxTime + MessageTTL \cup {None}]
                 /\ dropped' \subseteq Messages /\ IsFiniteSet(dropped')
      <3>1. Id(t) \in Messages /\ mem[Rt(t)] \in Tables
        BY <2>2, HandsAlone
      <3>2. mem[Rt(t)].msgs[Id(t)] \in 0 .. MaxTime + MessageTTL \cup {None}
        BY <3>1, TableFields
      <3>3. (dropped \ {Id(t)}) \in SUBSET dropped
        OBVIOUS
      <3>4. IsFiniteSet(dropped \ {Id(t)})
        BY <3>3, FS_Subset DEF HistoryTyped
      <3>. QED
        BY <2>2, <3>2, <3>4 DEF Hands, HistoryTyped
    <2>3. CASE handed' = handed /\ dropped' = dropped
      BY <2>3 DEF HistoryTyped
    <2>4. CASE \E r \in Runtimes :
                 Load(r) /\ handed' = handed
                 /\ dropped' = dropped \cup (Unrouted \cap Held(disk.msgs))
      BY <2>1, <2>4 DEF HistoryTyped
    <2>. QED
      BY <2>2, <2>3, <2>4, TokensMove
  <1>2. /\ routed' \subseteq Ids /\ evicted' \subseteq Events /\ lost' \subseteq Events
        /\ crashes' \in 0 .. MaxCrashes
    <2>. DEFINE Goal == /\ routed' \subseteq Ids /\ evicted' \subseteq Events
                        /\ lost' \subseteq Events /\ crashes' \in 0 .. MaxCrashes
    <2>1. ASSUME NEW r \in Runtimes, SlotStep(r)
          PROVE  Goal
      BY <2>1 DEF SlotStep, EnterSlot, Stop, FencePrevious, TakeOver, LoadFails,
         CancelStart, historyVars, envVars, HistoryTyped
    <2>2. ASSUME NEW r \in Runtimes, Load(r)
          PROVE  Goal
      <3>1. Restored \in Tables
        BY RestoredTables DEF Typed
      <3>2. Held(Restored.evs) \subseteq Events
        BY <3>1, TableFields DEF Held
      <3>. QED
        BY <2>2, <3>2 DEF Load, envVars, HistoryTyped
    <2>3. ASSUME NEW t \in Tasks, QuietStep(t) \/ Duplicate(t) \/ Publish(t)
          PROVE  Goal
      <3>1. At(t, "publish") => Id(t) \in Events
        BY DEF TimeInv, InTime, At, Id
      <3>2. /\ UNCHANGED <<routed, crashes, evicted>>
            /\ lost' = lost \/ (At(t, "publish") /\ lost' = lost \cup {Id(t)})
        BY <2>3 DEF QuietStep, Deliver, Track, Verified, Revoked, Refused, Abandoned,
           Interrupted, Duplicate, Publish, historyVars, envVars
      <3>. QED
        BY <3>1, <3>2 DEF HistoryTyped
    <2>4. ASSUME NEW t \in Tasks, BeginRemember(t)
          PROVE  Goal
      BY <2>4 DEF BeginRemember, historyVars, envVars, HistoryTyped
    <2>5. ASSUME NEW t \in Tasks, BeginClaim(t)
          PROVE  Goal
      <3>. DEFINE claims == [Fresh(mem[Rt(t)]).evs EXCEPT ![Id(t)] = now]
      <3>1. PICK f : evicted' = evicted \cup (Held(claims) \ Held(f))
        BY <2>5 DEF BeginClaim
      <3>2. Rt(t) \in Runtimes
        BY <2>5, BeginsWrite
      <3>3. Fresh(mem[Rt(t)]) \in Tables
        BY <3>2, FreshTables DEF Typed
      <3>4. Held(claims) \subseteq Events
        BY <3>3, TableFields DEF Held
      <3>5. UNCHANGED <<routed, crashes, lost>>
        BY <2>5 DEF BeginClaim, envVars
      <3>. HIDE DEF claims
      <3>. QED
        BY <3>1, <3>4, <3>5 DEF HistoryTyped
    <2>6. ASSUME NEW t \in Tasks, Remembered(t) \/ Claimed(t)
          PROVE  Goal
      BY <2>6 DEF Remembered, Claimed, historyVars, envVars, HistoryTyped
    <2>7. ASSUME Tick \/ UNCHANGED vars
          PROVE  Goal
      BY <2>7 DEF Tick, vars, historyVars, envVars, HistoryTyped
    <2>8. ASSUME NEW id \in Ids, Reroute(id)
          PROVE  Goal
      BY <2>8 DEF Reroute, historyVars, HistoryTyped
    <2>9. ASSUME Crash
          PROVE  Goal
      <3>1. crashes \in 0 .. MaxCrashes /\ crashes < MaxCrashes /\ MaxCrashes \in Nat
            /\ crashes' = crashes + 1
        BY <2>9, EventBoundsAssumption DEF Crash, HistoryTyped
      <3>2. crashes' \in 0 .. MaxCrashes
        BY <3>1
      <3>. QED
        BY <2>9, <3>2 DEF Crash, historyVars, HistoryTyped
    <2>10. Goal
      <3>. HIDE DEF Goal
      <3>. QED
        BY <2>1, <2>2, <2>3, <2>4, <2>5, <2>6, <2>7, <2>8, <2>9, NextCases
    <2>. QED
      BY <2>10
  <1>. QED
    BY <1>1, <1>2 DEF HistoryTyped

\* The times of tokens that were given out.
LEMMA HandedTimes ==
  ASSUME HistoryTyped, NEW m \in Messages, handed[m] # None
  PROVE  handed[m] \in Nat
  BY Numbers DEF HistoryTyped

\* Time goes on, and a token that is given out is one of a table.
LEMMA HandedKept ==
  ASSUME IInv, FitInv, HistoryTyped, HandedInv, [Next]_vars
  PROVE  HandedInv'
  <1>1. now \in Nat /\ now' \in Nat /\ now <= now' /\ MessageTTL \in Nat
    BY Grows, Numbers
  <1>2. ASSUME handed' = handed
        PROVE  HandedInv'
    BY <1>1, <1>2, HandedTimes DEF HandedInv
  <1>3. ASSUME NEW t \in Tasks, Hands(t)
        PROVE  HandedInv'
    <2>1. /\ Id(t) \in Messages /\ Rt(t) \in Runtimes /\ mem[Rt(t)] \in Tables
          /\ handed' = [handed EXCEPT ![Id(t)] = mem[Rt(t)].msgs[Id(t)]]
      BY <1>3, HandsAlone DEF Hands
    <2>2. Young(mem[Rt(t)])
      BY <2>1, TabsTyped DEF IInv, FitInv, Fit
    <2>3. now' = now
      BY <1>3, HandsAlone DEF envVars
    <2>4. handed \in [Messages -> 0 .. MaxTime + MessageTTL \cup {None}]
      BY DEF HistoryTyped
    <2>5. ASSUME NEW m \in Messages, handed'[m] # None
          PROVE  handed'[m] <= now' + MessageTTL
      BY <2>1, <2>2, <2>3, <2>4, <2>5 DEF HandedInv, Young
    <2>. QED
      BY <2>5 DEF HandedInv
  <1>. QED
    BY <1>2, <1>3, TokensMove

\* The entry of a write stays the youngest until the write ends.
LEMMA WritesKept ==
  ASSUME IInv, FitInv, HistoryTyped, HandedInv, WritesInv, [Next]_vars
  PROVE  WritesInv'
  <1>. USE DEF IInv
  <1>1. ASSUME NEW u \in Tasks, At(u, "claiming")'
        PROVE  mem'[Rt(u)'].evs[Id(u)'] = task'[u].since
    <2>1. "claiming" \in Writing
      BY DEF Writing
    <2>2. CASE task'[u] = task[u] /\ mem'[Rt(u)] = mem[Rt(u)] /\ At(u, "claiming")
      BY <2>2 DEF WritesInv, Rt, Id
    <2>3. CASE BeginClaim(u)
      <3>1. PICK m \in Tables : /\ mem' = [mem EXCEPT ![Rt(u)] = m]
                                /\ ClaimsIn(u, m)
        BY <2>3, Begins
      <3>2. m.evs[Id(u)] = now /\ Rt(u) \in Runtimes
        BY <3>1, WrittenTable
      <3>3. PICK j \in Job :
              /\ task' = [task EXCEPT ![u] = j] /\ j.rt = Rt(u) /\ j.id = Id(u)
              /\ \/ BeginRemember(u) /\ j.at = "remembering"
                 \/ BeginClaim(u) /\ j.since = now
        BY <2>3, BeginsWrite
      <3>4. task'[u] = j
        BY <3>3 DEF Typed
      <3>5. j.since = now
        BY <1>1, <3>3, <3>4 DEF At
      <3>6. mem'[Rt(u)] = m /\ Rt(u)' = Rt(u) /\ Id(u)' = Id(u)
        BY <3>1, <3>2, <3>3, <3>4 DEF Typed, Rt, Id
      <3>. QED
        BY <3>2, <3>4, <3>5, <3>6
    <2>. QED
      BY <1>1, <2>1, <2>2, <2>3, WritersMove
  <1>2. ASSUME NEW u \in Tasks, At(u, "remembering")'
        PROVE  /\ mem'[Rt(u)'].msgs[Id(u)'] # None
               /\ \A m \in Messages :
                    handed'[m] # None => handed'[m] <= mem'[Rt(u)'].msgs[Id(u)']
    <2>1. "remembering" \in Writing
      BY DEF Writing
    <2>2. CASE /\ task'[u] = task[u] /\ mem'[Rt(u)] = mem[Rt(u)] /\ At(u, "remembering")
               /\ Rt(u) \in Runtimes /\ lock[Rt(u)] = u /\ lock'[Rt(u)] = u
      <3>1. handed' = handed
        <4>1. SUFFICES ASSUME NEW t \in Tasks, Hands(t)
                       PROVE  FALSE
          BY TokensMove
        <4>2. Rt(u) = Rt(t) /\ lock' = [lock EXCEPT ![Rt(t)] = None]
          BY <2>2, <4>1, HandsAlone
        <4>. QED
          BY <2>2, <4>2, Nothing DEF Typed
      <3>. QED
        BY <2>2, <3>1 DEF WritesInv, Rt, Id
    <2>3. CASE BeginRemember(u)
      <3>1. PICK m \in Tables : /\ mem' = [mem EXCEPT ![Rt(u)] = m]
                                /\ Remembers(u, m)
        BY <2>3, Begins
      <3>2. m.msgs[Id(u)] = now + MessageTTL /\ Rt(u) \in Runtimes
        BY <3>1, WrittenTable
      <3>3. PICK j \in Job :
              task' = [task EXCEPT ![u] = j] /\ j.rt = Rt(u) /\ j.id = Id(u)
        BY <2>3, BeginsWrite
      <3>4. task'[u] = j
        BY <3>3 DEF Typed
      <3>5. mem'[Rt(u)] = m /\ Rt(u)' = Rt(u) /\ Id(u)' = Id(u)
        BY <3>1, <3>2, <3>3, <3>4 DEF Typed, Rt, Id
      <3>6. handed' = handed
        BY <2>3 DEF BeginRemember, historyVars
      <3>7. now + MessageTTL # None
        BY Grows, Numbers, Nothing
      <3>. QED
        BY <3>2, <3>5, <3>6, <3>7 DEF HandedInv
    <2>. QED
      BY <1>2, <2>1, <2>2, <2>3, WritersMove
  <1>. QED
    BY <1>1, <1>2 DEF WritesInv
-----------------------------------------------------------------------------
(***************************************************************************)
(* What every table keeps that a later load or rollback can go back to     *)
(***************************************************************************)

\* The file, and the memory of every runtime that keeps the file, are in G.
Everywhere(G) ==
  /\ disk \in G
  /\ \A r \in Runtimes \ volatile :
       /\ Admits(r) => mem[r] \in G
       /\ lock[r] \in Tasks => undo[r] \in G

\* The memory of runtime q is in G.
Within(q, G) ==
  /\ Admits(q) => mem[q] \in G
  /\ lock[q] \in Tasks => undo[q] \in G

\* The memories after a step, of a runtime that does not load.
LEMMA MemoriesMove ==
  ASSUME IInv, [Next]_vars, NEW r \in Runtimes, \A x \in Runtimes : ~(Load(x) /\ x = r),
         ~(LoadFails(r))
  PROVE  /\ Admits(r)' => Admits(r)
         /\ \/ mem'[r] = mem[r]
            \/ mem'[r] = undo[r] /\ lock[r] \in Tasks
            \/ mem'[r] = Fresh(mem[r])
            \/ ~Admits(r)'
            \/ \E t \in Tasks, m \in Tables :
                 Rt(t) = r /\ mem'[r] = m /\ (Remembers(t, m) \/ ClaimsIn(t, m))
         /\ lock'[r] \in Tasks =>
              \/ undo'[r] = undo[r] /\ lock[r] \in Tasks
              \/ undo'[r] = mem[r] /\ Admits(r)
  <1>. USE DEF IInv
  <1>. DEFINE Made == \E t \in Tasks, m \in Tables :
                        Rt(t) = r /\ mem'[r] = m /\ (Remembers(t, m) \/ ClaimsIn(t, m))
              Goal == /\ Admits(r)' => Admits(r)
                      /\ \/ mem'[r] = mem[r]
                         \/ mem'[r] = undo[r] /\ lock[r] \in Tasks
                         \/ mem'[r] = Fresh(mem[r])
                         \/ ~Admits(r)'
                         \/ Made
                      /\ lock'[r] \in Tasks =>
                           \/ undo'[r] = undo[r] /\ lock[r] \in Tasks
                           \/ undo'[r] = mem[r] /\ Admits(r)
  <1>. HIDE DEF Made
  <1>1. ASSUME UNCHANGED <<fileVars, runtimeVars>>
        PROVE  Goal
    BY <1>1 DEF fileVars, runtimeVars, Admits, Serving
  <1>2. ASSUME NEW x \in Runtimes, SlotStep(x)
        PROVE  Goal
    <2>1. mem' = mem /\ undo' = undo
      BY <1>2 DEF SlotStep, EnterSlot, Stop, FencePrevious, TakeOver, LoadFails,
         CancelStart, fileVars
    <2>2. lock'[r] \in Tasks => lock[r] \in Tasks
      BY <1>2, Nothing DEF SlotStep, EnterSlot, Stop, FencePrevious, TakeOver, LoadFails,
         CancelStart, LeaveStart, fileVars, Typed
    <2>3. Serving(r)' => Serving(r)
      <3>1. CASE LoadFails(x)
        BY <3>1 DEF LoadFails, LeaveStart, Serving, Typed
      <3>2. CASE ~LoadFails(x)
        BY <1>2, <3>2 DEF SlotStep, EnterSlot, Stop, FencePrevious, TakeOver,
           CancelStart, LeaveStart, Serving, Typed
      <3>. QED
        BY <3>1, <3>2
    <2>. QED
      BY <2>1, <2>2, <2>3 DEF Admits
  <1>3. ASSUME NEW x \in Runtimes, Load(x)
        PROVE  Goal
    <2>1. /\ mem' = [mem EXCEPT ![x] = Restored] /\ x # r
          /\ lock' = [lock EXCEPT ![x] = None] /\ phase' = [phase EXCEPT ![x] = "up"]
          /\ UNCHANGED <<undo, stopping>>
      BY <1>3 DEF Load, LeaveStart
    <2>. QED
      BY <2>1 DEF Admits, Serving, Typed
  <1>4. ASSUME NEW t \in Tasks, QuietStep(t) \/ Publish(t)
        PROVE  Goal
    BY <1>1, <1>4, Quiet DEF Publish
  <1>5. ASSUME NEW t \in Tasks, Duplicate(t)
        PROVE  Goal
    <2>1. /\ Rt(t) \in Runtimes
          /\ mem' = [mem EXCEPT ![Rt(t)] = Fresh(mem[Rt(t)])]
          /\ UNCHANGED <<undo, lock, runtimeVars>>
      BY <1>5, JobFields DEF Duplicate, At
    <2>. QED
      BY <2>1 DEF Typed, runtimeVars, Admits, Serving
  <1>6. ASSUME NEW t \in Tasks, BeginRemember(t) \/ BeginClaim(t)
        PROVE  Goal
    <2>1. PICK m \in Tables : /\ mem' = [mem EXCEPT ![Rt(t)] = m]
                              /\ Remembers(t, m) \/ ClaimsIn(t, m)
      BY <1>6, Begins
    <2>2. /\ Rt(t) \in Runtimes /\ Serving(Rt(t))
          /\ undo' = [undo EXCEPT ![Rt(t)] = mem[Rt(t)]]
          /\ lock' = [lock EXCEPT ![Rt(t)] = t]
          /\ UNCHANGED runtimeVars
      BY <1>6, BeginsWrite
    <2>3. CASE Rt(t) = r
      <3>1. mem'[r] = m /\ undo'[r] = mem[r] /\ Admits(r)
        BY <2>1, <2>2, <2>3 DEF Admits, Typed
      <3>2. Made
        BY <2>1, <2>3, <3>1 DEF Made
      <3>. QED
        BY <3>1, <3>2
    <2>4. CASE Rt(t) # r
      BY <2>1, <2>2, <2>4 DEF Admits, Serving, runtimeVars, Typed
    <2>. QED
      BY <2>3, <2>4
  <1>7. ASSUME NEW t \in Tasks, Remembered(t) \/ Claimed(t)
        PROVE  Goal
    <2>1. PICK x \in Runtimes :
            /\ lock[x] \in Tasks
            /\ mem' \in {mem, [mem EXCEPT ![x] = undo[x]]}
            /\ undo' = [undo EXCEPT ![x] = EmptyTables]
            /\ lock' = [lock EXCEPT ![x] = None]
            /\ UNCHANGED runtimeVars
      BY <1>7, EndsWrite
    <2>. QED
      BY <2>1, Nothing DEF Admits, Serving, runtimeVars, Typed
  <1>8. ASSUME Tick \/ (\E id \in Ids : Reroute(id)) \/ UNCHANGED vars
        PROVE  Goal
    <2>1. UNCHANGED <<fileVars, runtimeVars>>
      BY <1>8 DEF Tick, Reroute, vars
    <2>. QED
      BY <1>1, <2>1
  <1>9. ASSUME Crash
        PROVE  Goal
    BY <1>9, Nothing DEF Crash, Admits, Serving
  <1>10. Goal
    <2>. HIDE DEF Goal
    <2>. QED
      BY <1>2, <1>3, <1>4, <1>5, <1>6, <1>7, <1>8, <1>9, NextCases
  <1>. QED
    BY <1>10 DEF Made

\* The file after a step: as before, or as the owner of the slot has it in memory.
LEMMA FileMoves ==
  ASSUME IInv, [Next]_vars
  PROVE  \/ disk' = disk
         \/ \E r \in Runtimes \ volatile : Admits(r) /\ disk' = mem[r]
  <1>. USE DEF IInv
  <1>1. CASE \E r \in Runtimes : SlotStep(r) \/ Load(r)
    BY <1>1 DEF SlotStep, EnterSlot, Stop, FencePrevious, TakeOver, Load, LoadFails,
       CancelStart, fileVars
  <1>2. ASSUME NEW t \in Tasks,
               \/ QuietStep(t) \/ Duplicate(t) \/ Publish(t)
               \/ BeginRemember(t) \/ BeginClaim(t)
        PROVE  disk' = disk
    BY <1>2, Quiet, BeginsWrite DEF Duplicate, Publish, fileVars
  <1>3. ASSUME NEW t \in Tasks, Remembered(t) \/ Claimed(t)
        PROVE  disk' = disk \/ \E r \in Runtimes \ volatile : Admits(r) /\ disk' = mem[r]
    <2>1. /\ Rt(t) \in Runtimes /\ lock[Rt(t)] = t
          /\ \/ disk' = disk
             \/ disk' = mem[Rt(t)] /\ Rt(t) \notin volatile
      BY <1>3, EndsWrite
    <2>. QED
      BY <2>1 DEF Admits
  <1>4. CASE Tick \/ (\E id \in Ids : Reroute(id)) \/ UNCHANGED vars
    BY <1>4 DEF Tick, Reroute, vars, fileVars
  <1>5. CASE Crash
    <2>1. disk' = disk \/ \E r \in Runtimes \ volatile : snap[r] # None /\ disk' = snap[r]
      BY <1>5 DEF Crash
    <2>2. \A r \in Runtimes : snap[r] # None => lock[r] \in Tasks /\ snap[r] = mem[r]
      BY DEF LockInv
    <2>. QED
      BY <2>1, <2>2 DEF Admits
  <1>. QED
    BY <1>1, <1>2, <1>3, <1>4, <1>5, NextCases

\* What no load, no write and no forgetting takes away is kept everywhere.
LEMMA EverywhereKept ==
  ASSUME IInv, [Next]_vars, NEW G, Everywhere(G),
         \A r \in Runtimes \ volatile : mem[r] \in G => Fresh(mem[r]) \in G,
         (\E r \in Runtimes : Load(r)) => Restored \in G,
         \A t \in Tasks, m \in Tables :
           mem[Rt(t)] \in G /\ (Remembers(t, m) \/ ClaimsIn(t, m)) => m \in G
  PROVE  Everywhere(G)'
  <1>1. disk' \in G
    BY FileMoves DEF Everywhere
  <1>2. ASSUME NEW r \in Runtimes \ volatile'
        PROVE  /\ Admits(r)' => mem'[r] \in G
               /\ lock'[r] \in Tasks => undo'[r] \in G
    <2>1. r \in Runtimes \ volatile
      BY Grows
    <2>2. ~LoadFails(r)
      BY <1>2 DEF LoadFails
    <2>3. CASE Load(r)
      <3>1. mem' = [mem EXCEPT ![r] = Restored] /\ lock' = [lock EXCEPT ![r] = None]
        BY <2>3 DEF Load, LeaveStart
      <3>2. mem'[r] = Restored /\ lock'[r] \notin Tasks
        BY <3>1, Nothing DEF IInv, Typed
      <3>. QED
        BY <2>3, <3>2
    <2>4. CASE ~Load(r)
      <3>1. /\ Admits(r)' => Admits(r)
            /\ \/ mem'[r] = mem[r]
               \/ mem'[r] = undo[r] /\ lock[r] \in Tasks
               \/ mem'[r] = Fresh(mem[r])
               \/ ~Admits(r)'
               \/ \E t \in Tasks, m \in Tables :
                    Rt(t) = r /\ mem'[r] = m /\ (Remembers(t, m) \/ ClaimsIn(t, m))
            /\ lock'[r] \in Tasks =>
                 \/ undo'[r] = undo[r] /\ lock[r] \in Tasks
                 \/ undo'[r] = mem[r] /\ Admits(r)
        BY <2>2, <2>4, MemoriesMove
      <3>. QED
        BY <2>1, <3>1 DEF Everywhere
    <2>. QED
      BY <2>3, <2>4
  <1>. QED
    BY <1>1, <1>2 DEF Everywhere

\* The same of one runtime that has started.
LEMMA WithinKept ==
  ASSUME IInv, [Next]_vars, NEW G, NEW q \in Runtimes, phase[q] \in {"up", "gone"},
         Within(q, G),
         mem[q] \in G => Fresh(mem[q]) \in G,
         \A t \in Tasks, m \in Tables :
           mem[Rt(t)] \in G /\ (Remembers(t, m) \/ ClaimsIn(t, m)) => m \in G
  PROVE  Within(q, G)'
  <1>1. ~LoadFails(q) /\ ~Load(q)
    BY DEF LoadFails, Load
  <1>2. /\ Admits(q)' => Admits(q)
        /\ \/ mem'[q] = mem[q]
           \/ mem'[q] = undo[q] /\ lock[q] \in Tasks
           \/ mem'[q] = Fresh(mem[q])
           \/ ~Admits(q)'
           \/ \E t \in Tasks, m \in Tables :
                Rt(t) = q /\ mem'[q] = m /\ (Remembers(t, m) \/ ClaimsIn(t, m))
        /\ lock'[q] \in Tasks =>
             \/ undo'[q] = undo[q] /\ lock[q] \in Tasks
             \/ undo'[q] = mem[q] /\ Admits(q)
    BY <1>1, MemoriesMove
  <1>. QED
    BY <1>2 DEF Within
-----------------------------------------------------------------------------
(***************************************************************************)
(* Claims and tokens are kept                                              *)
(***************************************************************************)

\* The tables that know a claim of event e at time c, or are full of younger ones.
Knowing(e, c) ==
  {m \in Tables : Kept(m.evs, e, c, MaxEvents, {}) \/ c + EventTTL <= now}

\* Every claim that was acknowledged, also one that lost its place to others, is
\* known wherever its event could be admitted again.
KnownInv ==
  \A e \in Events, q \in Runtimes, c \in Times : IsClaim(e, q, c) =>
    IF q \in volatile THEN Within(q, Knowing(e, c)) ELSE Everywhere(Knowing(e, c))

\* The tables that hold the token x until time h, or are full of younger ones.
Holding(x, h) == {m \in Tables : Kept(m.msgs, x, h, MaxMessages, dropped)}

\* A token that was given out is in the file and in every memory that counts.
TokenInv ==
  \A x \in Messages \ dropped :
    handed[x] # None /\ now < handed[x] => Everywhere(Holding(x, handed[x]))

\* Forgetting what is over leaves what is not.
LEMMA FreshKeeps ==
  ASSUME IInv, FitInv, NEW m \in Tabs, Past(m)
  PROVE  /\ \A e \in Events, c \in Nat :
              /\ now < c + EventTTL /\ Kept(m.evs, e, c, MaxEvents, {})
              => Kept(Fresh(m).evs, e, c, MaxEvents, {})
         /\ \A x \in Messages, h \in Nat : \A leftOut :
              /\ IsFiniteSet(leftOut) /\ x \notin leftOut
              /\ now < h /\ Kept(m.msgs, x, h, MaxMessages, leftOut)
              => Kept(Fresh(m).msgs, x, h, MaxMessages, leftOut)
         /\ m = disk => Fresh(m) \in Tables
  <1>1. m \in Tables /\ Typed
    BY TabsTyped DEF IInv
  <1>2. /\ Fresh(m) \in Tables
        /\ Sheds(m.msgs, Fresh(m).msgs) /\ Sheds(m.evs, Fresh(m).evs)
        /\ \A x \in Messages :
             m.msgs[x] # None /\ m.msgs[x] > now => Fresh(m).msgs[x] = m.msgs[x]
        /\ \A e \in Events :
             m.evs[e] # None /\ m.evs[e] + EventTTL > now => Fresh(m).evs[e] = m.evs[e]
    BY <1>1, FreshSheds
  <1>3. /\ m.msgs \in Entries(Messages) /\ m.evs \in Entries(Events)
        /\ Fresh(m).msgs \in Entries(Messages) /\ Fresh(m).evs \in Entries(Events)
    BY <1>1, <1>2, TableEntries
  <1>4. /\ \A x \in Messages : m.msgs[x] # None => m.msgs[x] \in Nat
        /\ \A e \in Events : m.evs[e] # None => m.evs[e] \in Nat
    BY <1>3 DEF Entries
  <1>5. /\ now \in Nat /\ EventTTL \in Nat /\ MaxEvents \in Nat /\ MaxMessages \in Nat
        /\ IsFiniteSet({})
    BY <1>1, Numbers, EventBoundsAssumption, FS_EmptySet DEF Typed
  <1>6. IsFiniteSet(Held(m.msgs)) /\ IsFiniteSet(Held(m.evs))
    BY DEF FitInv, Fit, Sized
  <1>7. ASSUME NEW e \in Events, NEW c \in Nat, now < c + EventTTL,
               Kept(m.evs, e, c, MaxEvents, {})
        PROVE  Kept(Fresh(m).evs, e, c, MaxEvents, {})
    <2>1. \A y \in Events : m.evs[y] # None /\ m.evs[y] >= c => Fresh(m).evs[y] = m.evs[y]
      <3>1. \A y \in Events : m.evs[y] # None /\ m.evs[y] >= c => m.evs[y] + EventTTL > now
        BY <1>4, <1>5, <1>7
      <3>. QED
        BY <1>2, <3>1
    <2>. QED
      BY <1>2, <1>3, <1>5, <1>6, <1>7, <2>1, ShedsKept
  <1>8. ASSUME NEW x \in Messages, NEW h \in Nat, NEW leftOut, IsFiniteSet(leftOut),
               x \notin leftOut, now < h, Kept(m.msgs, x, h, MaxMessages, leftOut)
        PROVE  Kept(Fresh(m).msgs, x, h, MaxMessages, leftOut)
    <2>1. \A y \in Messages : m.msgs[y] # None /\ m.msgs[y] >= h => Fresh(m).msgs[y] = m.msgs[y]
      <3>1. \A y \in Messages : m.msgs[y] # None /\ m.msgs[y] >= h => m.msgs[y] > now
        BY <1>4, <1>5, <1>8
      <3>. QED
        BY <1>2, <3>1
    <2>. QED
      BY <1>2, <1>3, <1>5, <1>6, <1>8, <2>1, ShedsKept
  <1>. QED
    BY <1>2, <1>7, <1>8

\* So does a load, but for tokens without a route.
LEMMA RestoredKeeps ==
  ASSUME IInv, FitInv
  PROVE  /\ Restored \in Tables
         /\ \A e \in Events, c \in Nat :
              /\ now < c + EventTTL /\ Kept(disk.evs, e, c, MaxEvents, {})
              => Kept(Restored.evs, e, c, MaxEvents, {})
         /\ \A x \in Messages, h \in Nat : \A before, after :
              /\ IsFiniteSet(before) /\ IsFiniteSet(after) /\ x \notin after
              /\ before \subseteq after /\ (Unrouted \cap Held(disk.msgs)) \subseteq after
              /\ now < h /\ Kept(disk.msgs, x, h, MaxMessages, before)
              => Kept(Restored.msgs, x, h, MaxMessages, after)
  <1>1. disk \in Tables /\ disk \in Tabs /\ Typed /\ Past(disk)
    BY TabsTyped DEF IInv, PastInv
  <1>2. /\ Restored \in Tables
        /\ Sheds(disk.msgs, Restored.msgs) /\ Sheds(disk.evs, Restored.evs)
        /\ \A x \in Messages :
             disk.msgs[x] # None /\ disk.msgs[x] > now
             => Restored.msgs[x] = disk.msgs[x] \/ x \in Unrouted
        /\ \A e \in Events : disk.evs[e] # None /\ disk.evs[e] + EventTTL > now
                             => Restored.evs[e] = disk.evs[e]
    BY <1>1, RestoredSheds
  <1>3. /\ disk.msgs \in Entries(Messages) /\ disk.evs \in Entries(Events)
        /\ Restored.msgs \in Entries(Messages) /\ Restored.evs \in Entries(Events)
    BY <1>1, <1>2, TableEntries
  <1>4. /\ \A x \in Messages : disk.msgs[x] # None => disk.msgs[x] \in Nat
        /\ \A e \in Events : disk.evs[e] # None => disk.evs[e] \in Nat
    BY <1>3 DEF Entries
  <1>5. /\ now \in Nat /\ EventTTL \in Nat /\ MaxEvents \in Nat /\ MaxMessages \in Nat
        /\ IsFiniteSet({})
    BY <1>1, Numbers, EventBoundsAssumption, FS_EmptySet DEF Typed
  <1>6. IsFiniteSet(Held(disk.msgs)) /\ IsFiniteSet(Held(disk.evs))
    BY <1>1 DEF FitInv, Fit, Sized
  <1>7. ASSUME NEW e \in Events, NEW c \in Nat, now < c + EventTTL,
               Kept(disk.evs, e, c, MaxEvents, {})
        PROVE  Kept(Restored.evs, e, c, MaxEvents, {})
    <2>1. \A y \in Events : disk.evs[y] # None /\ disk.evs[y] >= c
                            => Restored.evs[y] = disk.evs[y]
      <3>1. \A y \in Events : disk.evs[y] # None /\ disk.evs[y] >= c
                              => disk.evs[y] + EventTTL > now
        BY <1>4, <1>5, <1>7
      <3>. QED
        BY <1>2, <3>1
    <2>. QED
      BY <1>2, <1>3, <1>5, <1>6, <1>7, <2>1, ShedsKept
  <1>8. ASSUME NEW x \in Messages, NEW h \in Nat, NEW before, NEW after,
               IsFiniteSet(before), IsFiniteSet(after), x \notin after,
               before \subseteq after, (Unrouted \cap Held(disk.msgs)) \subseteq after,
               now < h, Kept(disk.msgs, x, h, MaxMessages, before)
        PROVE  Kept(Restored.msgs, x, h, MaxMessages, after)
    <2>1. \A y \in Messages : disk.msgs[y] # None /\ disk.msgs[y] >= h
                              => Restored.msgs[y] = disk.msgs[y] \/ y \in after
      <3>1. \A y \in Messages : disk.msgs[y] # None /\ disk.msgs[y] >= h
                                => disk.msgs[y] > now /\ y \in Held(disk.msgs)
        BY <1>3, <1>4, <1>5, <1>8 DEF Held, Entries
      <3>. QED
        BY <1>2, <1>8, <3>1
    <2>. QED
      BY <1>2, <1>3, <1>5, <1>6, <1>8, <2>1, ShedsKept
  <1>. QED
    BY <1>2, <1>7, <1>8

\* No load, write or rollback makes a claim unknown before it is over.
LEMMA KnownKept ==
  ASSUME IInv, IInv', FitInv, WritesInv, KnownInv, [Next]_vars
  PROVE  KnownInv'
  <1>1. SUFFICES ASSUME NEW e \in Events, NEW q \in Runtimes, NEW c \in Times,
                        IsClaim(e, q, c)'
                 PROVE  /\ q \in volatile' => Within(q, Knowing(e, c))'
                        /\ q \notin volatile' => Everywhere(Knowing(e, c))'
    BY DEF KnownInv
  <1>2. /\ now \in Nat /\ now' \in Nat /\ now <= now' /\ c \in Nat /\ EventTTL \in Nat
        /\ volatile \subseteq volatile' /\ Typed /\ Typed' /\ Tables' = Tables
    BY Grows, Numbers DEF IInv, Tables, Times
  <1>3. CASE c + EventTTL <= now'
    <2>1. Knowing(e, c)' = Tables
      BY <1>2, <1>3 DEF Knowing
    <2>2. \A r \in Runtimes : mem'[r] \in Tables /\ undo'[r] \in Tables
      BY <1>2 DEF Typed
    <2>3. disk' \in Tables
      BY <1>2 DEF Typed
    <2>. QED
      BY <2>1, <2>2, <2>3 DEF Everywhere, Within
  <1>4. CASE ~(c + EventTTL <= now')
    <2>. DEFINE K == {m \in Tables : Kept(m.evs, e, c, MaxEvents, {})}
    <2>1. ~(c + EventTTL <= now) /\ now < c + EventTTL
      BY <1>2, <1>4
    <2>2. Knowing(e, c) = K
      BY <2>1 DEF Knowing
    <2>3. Knowing(e, c)' = K
      BY <1>2, <1>4 DEF Knowing, Kept
    <2>4. CASE IsClaim(e, q, c)
      <3>1. c <= now /\ phase[q] \in {"up", "gone"}
        BY <2>4 DEF IInv, CoverInv, Sound
      <3>2. q \in volatile <=> q \in volatile'
        <4>1. ~LoadFails(q)
          BY <3>1 DEF LoadFails
        <4>2. ASSUME NEW r \in Runtimes, SlotStep(r) \/ Load(r)
              PROVE  volatile' = volatile \/ (LoadFails(r) /\ volatile' = volatile \cup {r})
          BY <4>2 DEF SlotStep, EnterSlot, Stop, FencePrevious, TakeOver, Load, LoadFails,
             CancelStart
        <4>3. ASSUME NEW t \in Tasks, \/ QuietStep(t) \/ Duplicate(t) \/ Publish(t)
                                      \/ BeginRemember(t) \/ BeginClaim(t)
                                      \/ Remembered(t) \/ Claimed(t)
              PROVE  volatile' = volatile
          BY <4>3, Quiet, BeginsWrite, EndsWrite DEF Duplicate, Publish, runtimeVars
        <4>4. CASE Tick \/ Crash \/ (\E id \in Ids : Reroute(id)) \/ UNCHANGED vars
          BY <4>4 DEF Tick, Crash, Reroute, vars, runtimeVars
        <4>. QED
          BY <1>2, <4>1, <4>2, <4>3, <4>4, NextCases
      <3>3. \A r \in Runtimes : mem[r] \in K => Fresh(mem[r]) \in K
        <4>1. \A r \in Runtimes : mem[r] \in Tabs /\ Past(mem[r]) /\ mem[r] \in Tables
          BY <1>2, TabsTyped DEF IInv, PastInv
        <4>2. \A r \in Runtimes : Fresh(mem[r]) \in Tables
          BY <4>1, FreshTables
        <4>. QED
          BY <1>2, <2>1, <4>1, <4>2, FreshKeeps
      <3>4. disk \in K => Restored \in K
        BY <1>2, <2>1, RestoredKeeps
      <3>5. ASSUME NEW t \in Tasks, NEW m \in Tables, mem[Rt(t)] \in K,
                   Remembers(t, m) \/ ClaimsIn(t, m)
            PROVE  m \in K
        BY <1>2, <2>1, <3>1, <3>5, WrittenTable
      <3>6. CASE q \in volatile
        <4>1. Within(q, K)
          BY <2>2, <2>4, <3>6 DEF KnownInv
        <4>. HIDE DEF K
        <4>2. Within(q, K)'
          BY <3>1, <3>3, <3>5, <4>1, WithinKept
        <4>. QED
          BY <2>3, <3>2, <3>6, <4>2 DEF Within
      <3>7. CASE q \notin volatile
        <4>1. Everywhere(K)
          BY <2>2, <2>4, <3>7 DEF KnownInv
        <4>. HIDE DEF K
        <4>2. disk \in K
          BY <4>1 DEF Everywhere
        <4>3. Everywhere(K)'
          BY <3>3, <3>4, <3>5, <4>1, <4>2, EverywhereKept
        <4>. QED
          BY <2>3, <3>2, <3>7, <4>3 DEF Everywhere
      <3>. QED
        BY <3>6, <3>7
    <2>5. CASE ~IsClaim(e, q, c)
      <3>1. PICK t \in Tasks :
              /\ Remembered(t) \/ Claimed(t)
              /\ At(t, "claiming") /\ Id(t) = e /\ Rt(t) = q /\ task[t].since = c
              /\ mem' = mem /\ (q \notin volatile => disk' = mem[q])
        BY <1>1, <2>5, NewClaims
      <3>2. /\ lock[q] = t /\ owner = q /\ phase[q] = "up" /\ mem[q] \in Tables
            /\ lock' = [lock EXCEPT ![q] = None]
            /\ UNCHANGED <<runtimeVars, evicted, envVars>>
        BY <3>1, EndsWrite
      <3>3. mem[q].evs[e] = c /\ c # None
        BY <1>2, <3>1, Nothing DEF WritesInv
      <3>4. mem[q] \in K
        <4>1. c >= c
          BY <1>2
        <4>. QED
          BY <3>2, <3>3, <4>1 DEF Kept
      <3>5. \A r \in Runtimes : r # q => ~Admits(r)'
        <4>1. \A r \in Runtimes : lock[r] \in Tasks \/ Serving(r) => owner = r
          BY DEF IInv, LockInv, SlotInv, Serving
        <4>2. \A r \in Runtimes : Admits(r)' => lock[r] \in Tasks \/ Serving(r)
          BY <3>2, Nothing DEF Admits, Serving, runtimeVars, IInv, Typed
        <4>. QED
          BY <3>2, <4>1, <4>2
      <3>6. \A r \in Runtimes : lock'[r] \in Tasks => Admits(r)'
        BY DEF Admits
      <3>7. lock'[q] \notin Tasks
        BY <1>2, <3>2, Nothing DEF Typed
      <3>. HIDE DEF K
      <3>. QED
        BY <2>3, <3>1, <3>2, <3>4, <3>5, <3>6, <3>7 DEF Everywhere, Within, runtimeVars
    <2>. QED
      BY <2>4, <2>5
  <1>. QED
    BY <1>3, <1>4

\* Only the owner of the slot can admit an event.
LEMMA OneAdmits ==
  ASSUME IInv, NEW r \in Runtimes, Admits(r)
  PROVE  owner = r
  BY DEF IInv, LockInv, SlotInv, Admits, Serving

\* An entry that may be left out from now on need not be there.
LEMMA MoreLeftOut ==
  ASSUME NEW S, NEW f \in Entries(S), NEW x \in S, NEW h \in Nat, NEW max \in Nat,
         NEW before, NEW after, IsFiniteSet(before), IsFiniteSet(after),
         IsFiniteSet(Held(f)), x \notin after,
         before \subseteq after, Kept(f, x, h, max, before)
  PROVE  Kept(f, x, h, max, after)
  <1>1. Sheds(f, f) /\ \A y \in S : f[y] # None /\ f[y] >= h => f[y] = f[y] \/ y \in after
    BY DEF Sheds
  <1>. QED
    BY <1>1, ShedsKept

\* No load, write or rollback loses a token before its time.
LEMMA TokenKept ==
  ASSUME IInv, IInv', FitInv, HistoryTyped, HistoryTyped', HandedInv, WritesInv, TokenInv,
         [Next]_vars
  PROVE  TokenInv'
  <1>1. SUFFICES ASSUME NEW x \in Messages \ dropped', handed'[x] # None, now' < handed'[x]
                 PROVE  Everywhere(Holding(x, handed[x]))'
    BY DEF TokenInv
  <1>2. /\ now \in Nat /\ now' \in Nat /\ now <= now' /\ MaxMessages \in Nat
        /\ Typed /\ Typed' /\ Tables' = Tables
    BY Grows, EventBoundsAssumption DEF IInv, Tables, Times
  <1>3. /\ IsFiniteSet(dropped) /\ IsFiniteSet(dropped')
        /\ \A r \in Runtimes : mem[r] \in Tabs /\ Past(mem[r]) /\ mem[r] \in Tables
        /\ disk \in Tabs /\ disk \in Tables
    BY <1>2, TabsTyped DEF HistoryTyped, IInv, PastInv
  <1>4. \A m \in Tabs : IsFiniteSet(Held(m.msgs)) /\ m.msgs \in Entries(Messages)
    BY <1>2, TabsTyped, TableEntries DEF FitInv, Fit, Sized
  <1>5. ASSUME handed' = handed, dropped \subseteq dropped',
               \A r \in Runtimes : Load(r) => (Unrouted \cap Held(disk.msgs)) \subseteq dropped'
        PROVE  Everywhere(Holding(x, handed[x]))'
    <2>1. PICK h : h = handed[x]
      OBVIOUS
    <2>2. PICK L : L = dropped'
      OBVIOUS
    <2>3. /\ h = handed'[x] /\ h # None /\ h \in Nat /\ now < h /\ h <= now + MessageTTL
          /\ x \notin L /\ IsFiniteSet(L) /\ x \notin dropped
      <3>1. h = handed'[x] /\ h # None /\ x \notin L /\ IsFiniteSet(L) /\ x \notin dropped
        BY <1>1, <1>3, <1>5, <2>1, <2>2
      <3>2. h \in Nat
        BY <2>1, <3>1, HandedTimes
      <3>3. h <= now + MessageTTL
        BY <2>1, <3>1 DEF HandedInv
      <3>4. now < h
        BY <1>1, <1>2, <3>1, <3>2
      <3>. QED
        BY <3>1, <3>2, <3>3, <3>4
    <2>. DEFINE K == {m \in Tables : Kept(m.msgs, x, h, MaxMessages, L)}
    <2>4. Everywhere(Holding(x, h))
      BY <2>1, <2>3 DEF TokenInv
    <2>5. \A m \in Tabs : m \in Holding(x, h) => m \in K
      BY <1>2, <1>3, <1>4, <1>5, <2>2, <2>3, MoreLeftOut DEF Holding
    <2>6. Everywhere(K)
      <3>. HIDE DEF K
      <3>1. \A r \in Runtimes : undo[r] \in Tabs
        BY <1>2, TabsTyped
      <3>. QED
        BY <1>3, <2>4, <2>5, <3>1 DEF Everywhere
    <2>7. \A r \in Runtimes : mem[r] \in K => Fresh(mem[r]) \in K
      <3>1. \A r \in Runtimes : Fresh(mem[r]) \in Tables
        BY <1>3, FreshTables
      <3>. QED
        BY <1>3, <2>3, <3>1, FreshKeeps
    <2>8. ASSUME NEW r \in Runtimes, Load(r)
          PROVE  Restored \in K
      <3>1. Kept(disk.msgs, x, h, MaxMessages, dropped)
        BY <2>4 DEF Everywhere, Holding
      <3>. QED
        BY <1>3, <1>5, <2>2, <2>3, <2>8, <3>1, RestoredKeeps
    <2>9. ASSUME NEW t \in Tasks, NEW m \in Tables, mem[Rt(t)] \in K,
                 Remembers(t, m) \/ ClaimsIn(t, m)
          PROVE  m \in K
      BY <2>3, <2>9, WrittenTable
    <2>10. Everywhere(K)'
      <3>. HIDE DEF K
      <3>. QED
        BY <2>6, <2>7, <2>8, <2>9, EverywhereKept
    <2>11. Holding(x, handed[x])' = K
      BY <1>2, <2>2, <2>3 DEF Holding, Kept
    <2>. HIDE DEF K
    <2>. QED
      BY <2>10, <2>11 DEF Everywhere
  <1>6. ASSUME NEW t \in Tasks, Hands(t)
        PROVE  Everywhere(Holding(x, handed[x]))'
    <2>. DEFINE r == Rt(t)
                n == mem[r]
    <2>1. /\ r \in Runtimes /\ r \notin volatile /\ Id(t) \in Messages
          /\ mem' = mem /\ disk' = n /\ now' = now
          /\ handed' = [handed EXCEPT ![Id(t)] = n.msgs[Id(t)]]
          /\ dropped' = dropped \ {Id(t)}
      <3>1. Write(Rt(t), "ok")
        BY <1>6 DEF Hands
      <3>2. mem' = mem
        BY <3>1 DEF Write
      <3>. QED
        BY <1>6, <3>2, HandsAlone DEF Hands, envVars
    <2>2. /\ n \in Tables /\ n \in Tabs /\ lock[r] = t /\ At(t, "remembering")
          /\ lock' = [lock EXCEPT ![r] = None] /\ owner = r
          /\ UNCHANGED runtimeVars
          /\ \A q \in Runtimes : lock[q] \in Tasks => q = r
      BY <1>3, <1>6, HandsAlone
    <2>3. Admits(r)
      BY <2>2 DEF Admits
    <2>4. Kept(n.msgs, x, handed'[x], MaxMessages, dropped')
      <3>1. CASE x = Id(t)
        <4>1. handed'[x] = n.msgs[x]
          BY <2>1, <3>1 DEF HistoryTyped
        <4>2. handed'[x] \in Nat
          BY <1>1, <1>4, <2>2, <4>1 DEF Entries
        <4>. QED
          BY <1>1, <4>1, <4>2 DEF Kept
      <3>2. CASE x # Id(t)
        <4>. DEFINE h == handed[x]
        <4>1. handed'[x] = h /\ x \notin dropped /\ h # None /\ now < h
          BY <1>1, <2>1, <3>2 DEF HistoryTyped
        <4>2. Kept(n.msgs, x, h, MaxMessages, dropped) /\ h \in Nat
          BY <2>1, <2>3, <4>1, HandedTimes DEF TokenInv, Everywhere, Holding
        <4>3. n.msgs[Id(t)] # None /\ h <= n.msgs[Id(t)] /\ n.msgs[Id(t)] \in Nat
          BY <1>4, <2>1, <2>2, <4>1 DEF WritesInv, Entries
        <4>4. CASE n.msgs[x] # None /\ n.msgs[x] >= h
          BY <4>1, <4>4 DEF Kept
        <4>5. CASE Cardinality(Others(n.msgs, x, h, dropped)) >= MaxMessages
          <5>1. DOMAIN n.msgs = Messages
            BY <2>2, TableFields
          <5>2. Others(n.msgs, x, h, dropped) \subseteq Others(n.msgs, x, h, dropped')
            BY <2>1, <3>2, <4>2, <4>3, <5>1 DEF Others
          <5>. HIDE DEF n, h
          <5>3. n.msgs \in Entries(Messages) /\ IsFiniteSet(Held(n.msgs))
            BY <1>4, <2>2
          <5>4. Kept(n.msgs, x, h, MaxMessages, dropped')
            BY <1>2, <1>3, <4>5, <5>2, <5>3, MoreOthers
          <5>. QED
            BY <4>1, <5>4
        <4>. QED
          BY <4>2, <4>4, <4>5 DEF Kept, Others
      <3>. QED
        BY <3>1, <3>2
    <2>5. n \in Holding(x, handed[x])'
      BY <1>2, <2>2, <2>4 DEF Holding, Kept
    <2>6. \A q \in Runtimes : lock'[q] \notin Tasks
      BY <2>2, Nothing, <1>2 DEF Typed
    <2>7. \A q \in Runtimes : Admits(q)' => q = r
      <3>1. \A q \in Runtimes : Admits(q)' => Admits(q)
        BY <2>2, <2>6 DEF Admits, Serving, runtimeVars
      <3>. QED
        BY <2>2, <3>1, OneAdmits
    <2>. QED
      BY <2>1, <2>5, <2>6, <2>7 DEF Everywhere
  <1>7. CASE \E r \in Runtimes :
               Load(r) /\ handed' = handed
               /\ dropped' = dropped \cup (Unrouted \cap Held(disk.msgs))
    BY <1>5, <1>7
  <1>8. CASE handed' = handed /\ dropped' = dropped
    <2>1. ASSUME NEW r \in Runtimes, Load(r)
          PROVE  (Unrouted \cap Held(disk.msgs)) \subseteq dropped'
      BY <2>1 DEF Load
    <2>. QED
      BY <1>5, <1>8, <2>1
  <1>. QED
    BY <1>6, <1>7, <1>8, TokensMove
-----------------------------------------------------------------------------
(***************************************************************************)
(* Nothing is lost silently                                                *)
(***************************************************************************)

\* Event e was published, or a task that claimed it goes on to publish it.
Out(e) == published[e] # <<>> \/ \E t \in Tasks : At(t, "publish") /\ Id(t) = e

\* A claim of e is being written.
Claiming(e) == \E t \in Tasks : At(t, "claiming") /\ Id(t) = e

\* A claim in memory is accounted for; the one a failing write falls back to is so
\* without the claim that is being written.
LossInv ==
  /\ \A r \in Runtimes : phase[r] \in {"new", "slot", "drain", "load"} => mem[r] = EmptyTables
  /\ \A r \in Runtimes, e \in Events \ lost :
       /\ Admits(r) /\ mem[r].evs[e] # None => Out(e) \/ Claiming(e)
       /\ lock[r] \in Tasks /\ undo[r].evs[e] # None => Out(e)

\* An event that is out stays so, or its loss is noted, unless the process dies.
LEMMA OutKept ==
  ASSUME IInv, [Next]_vars, ~Crash, NEW e \in Events, e \notin lost', Out(e)
  PROVE  Out(e)' /\ e \notin lost
  <1>. USE DEF IInv
  <1>1. ASSUME published[e] # <<>>, published'[e] = published[e]
        PROVE  Out(e)'
    BY <1>1 DEF Out
  <1>2. ASSUME published' = published, lost \subseteq lost',
               \A t \in Tasks : At(t, "publish") => task'[t] = task[t]
        PROVE  Out(e)' /\ e \notin lost
    BY <1>2 DEF Out, At, Id
  <1>3. ASSUME NEW t \in Tasks, NEW j,
               task' = [task EXCEPT ![t] = j], published' = published, lost \subseteq lost',
               ~At(t, "publish")
        PROVE  Out(e)' /\ e \notin lost
    <2>1. \A u \in Tasks : At(u, "publish") => task'[u] = task[u]
      BY <1>3 DEF Typed
    <2>. QED
      BY <1>2, <1>3, <2>1
  <1>4. ASSUME NEW r \in Runtimes, SlotStep(r) \/ Load(r)
        PROVE  Out(e)' /\ e \notin lost
    <2>1. task' = task /\ published' = published /\ lost \subseteq lost'
      BY <1>4 DEF SlotStep, EnterSlot, Stop, FencePrevious, TakeOver, Load, LoadFails,
         CancelStart, historyVars
    <2>. QED
      BY <1>2, <2>1
  <1>5. ASSUME NEW t \in Tasks, Revoked(t) \/ Interrupted(t)
        PROVE  Out(e)' /\ e \notin lost
    <2>1. /\ lost' = lost \cup {Id(t)} /\ published' = published
          /\ task' = [task EXCEPT ![t] = None]
      BY <1>5 DEF Revoked, Interrupted, Finish
    <2>2. \A u \in Tasks : Id(u) = e => task'[u] = task[u]
      BY <2>1 DEF Typed
    <2>. QED
      BY <2>1, <2>2 DEF Out, At, Id
  <1>6. ASSUME NEW t \in Tasks,
               \/ \E r \in Runtimes, x \in Events : Deliver(t, r, x)
               \/ \E r \in Runtimes, x \in Messages \ Events : Track(t, r, x)
               \/ Verified(t) \/ Refused(t) \/ Abandoned(t) \/ Duplicate(t)
        PROVE  Out(e)' /\ e \notin lost
    <2>1. published' = published /\ lost' = lost /\ ~At(t, "publish")
      BY <1>6 DEF Deliver, Track, Verified, Refused, Abandoned, Duplicate, historyVars, At,
         Before
    <2>2. \E j : task' = [task EXCEPT ![t] = j]
      <3>1. CASE Duplicate(t)
        BY <3>1 DEF Duplicate, Finish
      <3>2. CASE ~Duplicate(t)
        BY <1>6, <3>2, Quiet DEF QuietStep
      <3>. QED
        BY <3>1, <3>2
    <2>. QED
      BY <1>3, <2>1, <2>2
  <1>7. ASSUME NEW t \in Tasks, Publish(t)
        PROVE  Out(e)' /\ e \notin lost
    <2>. DEFINE p == [rt |-> Rt(t), claim |-> task[t].since]
    <2>1. /\ At(t, "publish") /\ task' = [task EXCEPT ![t] = None] /\ lost' = lost
          /\ published' = [published EXCEPT ![Id(t)] = Noted(Id(t), p)]
      BY <1>7 DEF Publish, Finish
    <2>2. task[t] # None /\ Id(t) \in Events /\ Rt(t) \in Runtimes
      BY <2>1, JobFields DEF TimeInv, InTime, At, Id
    <2>. HIDE DEF p
    <2>3. published[Id(t)] \in Seq([rt : Runtimes, claim : Times])
      BY <2>2 DEF Typed
    <2>4. Noted(Id(t), p) # <<>>
      <3>1. Append(published[Id(t)], p) # <<>>
        BY <2>3
      <3>2. \A i : i \in DOMAIN published[Id(t)] => published[Id(t)] # <<>>
        BY <2>3
      <3>. QED
        BY <3>1, <3>2 DEF Noted
    <2>5. CASE Id(t) = e
      BY <2>1, <2>2, <2>4, <2>5 DEF Out, Typed
    <2>6. CASE Id(t) # e
      <3>1. published'[e] = published[e] /\ \A u \in Tasks : Id(u) = e => task'[u] = task[u]
        BY <2>1, <2>6 DEF Typed
      <3>. QED
        BY <2>1, <3>1 DEF Out, At, Id
    <2>. QED
      BY <2>5, <2>6
  <1>8. ASSUME NEW t \in Tasks, BeginRemember(t) \/ BeginClaim(t)
        PROVE  Out(e)' /\ e \notin lost
    <2>1. /\ \E j \in Job : task' = [task EXCEPT ![t] = j]
          /\ published' = published
      BY <1>8, BeginsWrite
    <2>2. lost' = lost /\ ~At(t, "publish")
      BY <1>8 DEF BeginRemember, BeginClaim, historyVars, At
    <2>. QED
      BY <1>3, <2>1, <2>2
  <1>9. ASSUME NEW t \in Tasks, Remembered(t) \/ Claimed(t)
        PROVE  Out(e)' /\ e \notin lost
    <2>1. /\ \E j \in Job \cup {None} : task' = [task EXCEPT ![t] = j]
          /\ published' = published
      BY <1>9, EndsWrite
    <2>2. lost' = lost /\ ~At(t, "publish")
      BY <1>9 DEF Remembered, Claimed, historyVars, At
    <2>. QED
      BY <1>3, <2>1, <2>2
  <1>10. CASE Tick \/ (\E id \in Ids : Reroute(id)) \/ UNCHANGED vars
    <2>1. UNCHANGED <<task, historyVars>>
      BY <1>10 DEF Tick, Reroute, vars
    <2>. QED
      BY <1>2, <2>1 DEF historyVars
  <1>. QED
    BY <1>4, <1>5, <1>6, <1>7, <1>8, <1>9, <1>10, NextCases DEF QuietStep

\* Every step accounts for the claims in memory.
LEMMA LossKept ==
  ASSUME IInv, FitInv, LossInv, [Next]_vars
  PROVE  LossInv'
  <1>. USE DEF IInv
  <1>1. ASSUME NEW r \in Runtimes, phase'[r] \in {"new", "slot", "drain", "load"}
        PROVE  mem'[r] = EmptyTables
    <2>. DEFINE P == {"new", "slot", "drain", "load"}
                Goal == phase[r] \in P /\ mem'[r] = mem[r]
    <2>1. ASSUME NEW x \in Runtimes, SlotStep(x) \/ Load(x)
          PROVE  Goal
      BY <1>1, <2>1 DEF SlotStep, EnterSlot, Stop, FencePrevious, TakeOver, Load, LoadFails,
         CancelStart, LeaveStart, Typed, fileVars
    <2>2. ASSUME NEW t \in Tasks, QuietStep(t) \/ Publish(t)
          PROVE  Goal
      BY <1>1, <2>2, Quiet DEF Publish, fileVars, runtimeVars
    <2>3. ASSUME NEW t \in Tasks, NEW m,
                 mem' = [mem EXCEPT ![Rt(t)] = m], phase[Rt(t)] = "up", phase' = phase
          PROVE  Goal
      BY <1>1, <2>3 DEF Typed
    <2>4. ASSUME NEW t \in Tasks, Duplicate(t)
          PROVE  Goal
      <3>1. phase[Rt(t)] = "up" /\ phase' = phase
            /\ mem' = [mem EXCEPT ![Rt(t)] = Fresh(mem[Rt(t)])]
        BY <2>4 DEF Duplicate, At, LockInv, runtimeVars
      <3>. QED
        BY <2>3, <3>1
    <2>5. ASSUME NEW t \in Tasks, BeginRemember(t) \/ BeginClaim(t)
          PROVE  Goal
      <3>1. phase[Rt(t)] = "up" /\ phase' = phase
            /\ \E m \in Tables : mem' = [mem EXCEPT ![Rt(t)] = m]
        BY <2>5, BeginsWrite DEF Serving, runtimeVars
      <3>. QED
        BY <2>3, <3>1
    <2>6. ASSUME NEW t \in Tasks, Remembered(t) \/ Claimed(t)
          PROVE  Goal
      <3>1. phase[Rt(t)] = "up" /\ phase' = phase
            /\ mem' \in {mem, [mem EXCEPT ![Rt(t)] = undo[Rt(t)]]}
        BY <2>6, EndsWrite DEF runtimeVars
      <3>. QED
        BY <1>1, <2>3, <3>1
    <2>7. ASSUME Tick \/ (\E id \in Ids : Reroute(id)) \/ UNCHANGED vars
          PROVE  Goal
      <3>1. UNCHANGED <<fileVars, runtimeVars>>
        BY <2>7 DEF Tick, Reroute, vars
      <3>. QED
        BY <1>1, <3>1 DEF fileVars, runtimeVars
    <2>8. ASSUME Crash
          PROVE  mem'[r] = EmptyTables
      BY <2>8 DEF Crash
    <2>9. Goal \/ Crash
      <3>. HIDE DEF Goal
      <3>. QED
        BY <2>1, <2>2, <2>4, <2>5, <2>6, <2>7, NextCases
    <2>. QED
      BY <2>8, <2>9 DEF LossInv
  <1>2. SUFFICES ASSUME NEW r \in Runtimes, NEW e \in Events, e \notin lost'
                 PROVE  /\ Admits(r)' /\ mem'[r].evs[e] # None => Out(e)' \/ Claiming(e)'
                        /\ lock'[r] \in Tasks /\ undo'[r].evs[e] # None => Out(e)'
    BY <1>1 DEF LossInv
  <1>. DEFINE Goal == /\ Admits(r)' /\ mem'[r].evs[e] # None => Out(e)' \/ Claiming(e)'
                      /\ lock'[r] \in Tasks /\ undo'[r].evs[e] # None => Out(e)'
  <1>3. e \notin lost
    <2>1. ASSUME NEW x \in Runtimes, SlotStep(x) \/ Load(x)
          PROVE  lost \subseteq lost'
      BY <2>1 DEF SlotStep, EnterSlot, Stop, FencePrevious, TakeOver, Load, LoadFails,
         CancelStart, historyVars
    <2>2. ASSUME NEW t \in Tasks, \/ QuietStep(t) \/ Duplicate(t) \/ Publish(t)
                                  \/ BeginRemember(t) \/ BeginClaim(t)
                                  \/ Remembered(t) \/ Claimed(t)
          PROVE  lost \subseteq lost'
      BY <2>2 DEF QuietStep, Deliver, Track, Verified, Revoked, Refused, Abandoned, Interrupted,
         Duplicate, Publish, BeginRemember, BeginClaim, Remembered, Claimed, historyVars
    <2>3. ASSUME Tick \/ Crash \/ (\E id \in Ids : Reroute(id)) \/ UNCHANGED vars
          PROVE  lost \subseteq lost'
      <3>1. UNCHANGED historyVars
        BY <2>3 DEF Tick, Crash, Reroute, vars
      <3>. QED
        BY <3>1 DEF historyVars
    <2>. QED
      BY <1>2, <2>1, <2>2, <2>3, NextCases
  <1>4. /\ Admits(r) /\ mem[r].evs[e] # None => Out(e) \/ Claiming(e)
        /\ lock[r] \in Tasks /\ undo[r].evs[e] # None => Out(e)
    BY <1>3 DEF LossInv
  <1>5. Crash \/ (~Crash /\ (Out(e) => Out(e)'))
    BY <1>2, OutKept
  <1>crash. ASSUME Crash
         PROVE  Goal
    BY <1>crash, Nothing DEF Crash, Admits, Serving
  <1>6. ASSUME Claiming(e) => Claiming(e)' \/ Out(e)',
               Admits(r)' => Admits(r) /\ mem'[r].evs[e] \in {mem[r].evs[e], None},
               lock'[r] \in Tasks => lock[r] \in Tasks /\ undo'[r] = undo[r]
        PROVE  Goal
    BY <1>4, <1>5, <1>6, <1>crash
  <1>7. ASSUME NEW x \in Runtimes, SlotStep(x)
        PROVE  Goal
    <2>1. UNCHANGED <<mem, undo, task>>
      BY <1>7, Nothing DEF SlotStep, EnterSlot, Stop, FencePrevious, TakeOver, LoadFails,
         CancelStart, LeaveStart, fileVars
    <2>2. Claiming(e) => Claiming(e)'
      BY <2>1 DEF Claiming, At, Id
    <2>3. CASE LoadFails(x) /\ x = r
      <3>1. mem[r] = EmptyTables /\ lock'[r] \notin Tasks
        BY <2>3, Nothing DEF LoadFails, LeaveStart, LossInv, Typed
      <3>. QED
        BY <2>1, <3>1, EmptyTable
    <2>4. CASE ~(LoadFails(x) /\ x = r)
      <3>1. lock'[r] \in Tasks => lock[r] \in Tasks
        <4>1. lock \in [Runtimes -> Tasks \cup Runtimes \cup {None}]
              /\ None \notin Tasks /\ x \notin Tasks
          BY Nothing DEF Typed
        <4>2. \/ lock' = lock \/ lock' = [lock EXCEPT ![x] = x]
              \/ lock' = [lock EXCEPT ![x] = None]
          BY <1>7 DEF SlotStep, EnterSlot, Stop, FencePrevious, TakeOver, LoadFails,
             CancelStart, LeaveStart, fileVars
        <4>. QED
          BY <4>1, <4>2
      <3>2. Serving(r)' => Serving(r)
        <4>1. CASE LoadFails(x)
          BY <2>4, <4>1 DEF LoadFails, LeaveStart, Serving, Typed
        <4>2. CASE ~LoadFails(x)
          BY <1>7, <4>2 DEF SlotStep, EnterSlot, Stop, FencePrevious, TakeOver,
             CancelStart, LeaveStart, Serving, Typed
        <4>. QED
          BY <4>1, <4>2
      <3>. QED
        BY <1>6, <2>1, <2>2, <3>1, <3>2 DEF Admits
    <2>. QED
      BY <2>3, <2>4
  <1>8. ASSUME NEW x \in Runtimes, Load(x)
        PROVE  Goal
    <2>1. /\ mem' = [mem EXCEPT ![x] = Restored] /\ phase[x] = "load"
          /\ lock' = [lock EXCEPT ![x] = None] /\ phase' = [phase EXCEPT ![x] = "up"]
          /\ UNCHANGED <<undo, stopping, task, published>>
          /\ lost' = lost \cup {y \in Held(Restored.evs) :
                         /\ published[y] = <<>>
                         /\ ~ \E t \in Tasks : At(t, "publish") /\ Id(t) = y}
      BY <1>8 DEF Load, LeaveStart
    <2>2. Claiming(e) => Claiming(e)'
      BY <2>1 DEF Claiming, At, Id, Typed
    <2>3. CASE x = r
      <3>1. mem'[r] = Restored /\ lock'[r] \notin Tasks
        BY <2>1, <2>3, Nothing DEF Typed
      <3>2. Restored.evs[e] # None => Out(e)
        <4>1. Restored \in Tables
          BY RestoredTables DEF Typed
        <4>2. Restored.evs[e] # None => e \in Held(Restored.evs)
          BY <4>1, TableFields DEF Held
        <4>. QED
          BY <1>2, <2>1, <4>2 DEF Out
      <3>. QED
        BY <1>5, <1>crash, <2>2, <3>1, <3>2
    <2>4. CASE x # r
      <3>1. /\ mem'[r] = mem[r] /\ lock'[r] = lock[r] /\ undo'[r] = undo[r]
            /\ Admits(r)' => Admits(r)
        BY <2>1, <2>4 DEF Admits, Serving, Typed
      <3>. QED
        BY <1>6, <2>2, <3>1
    <2>. QED
      BY <2>3, <2>4
  <1>9. ASSUME NEW t \in Tasks, QuietStep(t) \/ Publish(t)
        PROVE  Goal
    <2>1. UNCHANGED <<fileVars, runtimeVars>>
      BY <1>9, Quiet DEF Publish
    <2>2. ~At(t, "claiming") /\ \E j : task' = [task EXCEPT ![t] = j]
      <3>1. ~At(t, "claiming")
        BY <1>9 DEF QuietStep, Deliver, Track, Verified, Revoked, Refused, Abandoned,
           Interrupted, Publish, At, Before
      <3>2. \E j : task' = [task EXCEPT ![t] = j]
        BY <1>9, Quiet DEF Publish, Finish
      <3>. QED
        BY <3>1, <3>2
    <2>3. Claiming(e) => Claiming(e)'
      BY <2>2 DEF Claiming, At, Id, Typed
    <2>. QED
      BY <1>6, <2>1, <2>2, <2>3 DEF fileVars, runtimeVars, Admits, Serving
  <1>10. ASSUME NEW t \in Tasks, Duplicate(t)
         PROVE  Goal
    <2>1. /\ Rt(t) \in Runtimes /\ ~At(t, "claiming") /\ task' = [task EXCEPT ![t] = None]
          /\ mem' = [mem EXCEPT ![Rt(t)] = Fresh(mem[Rt(t)])]
          /\ UNCHANGED <<undo, lock, runtimeVars>>
      BY <1>10, JobFields DEF Duplicate, At, Finish
    <2>2. Claiming(e) => Claiming(e)'
      BY <2>1 DEF Claiming, At, Id, Typed
    <2>3. mem'[r].evs[e] \in {mem[r].evs[e], None}
      <3>1. Fresh(mem[r]).evs[e] \in {mem[r].evs[e], None}
        BY FreshTables DEF Typed
      <3>. QED
        BY <2>1, <3>1 DEF Typed
    <2>. QED
      BY <1>6, <2>1, <2>2, <2>3 DEF runtimeVars, Admits, Serving
  <1>11. ASSUME NEW t \in Tasks, BeginRemember(t) \/ BeginClaim(t)
         PROVE  Goal
    <2>1. ~Claiming(e)
      BY <1>11, NoOtherWrite DEF Claiming, At, Writing
    <2>2. PICK m \in Tables : /\ mem' = [mem EXCEPT ![Rt(t)] = m]
                              /\ BeginRemember(t) => Remembers(t, m)
                              /\ BeginClaim(t) => ClaimsIn(t, m)
      BY <1>11, Begins
    <2>3. /\ Rt(t) \in Runtimes /\ Serving(Rt(t))
          /\ undo' = [undo EXCEPT ![Rt(t)] = mem[Rt(t)]]
          /\ lock' = [lock EXCEPT ![Rt(t)] = t]
          /\ UNCHANGED runtimeVars
      BY <1>11, BeginsWrite
    <2>4. \/ m.evs[e] \in {mem[Rt(t)].evs[e], None}
          \/ BeginClaim(t) /\ e = Id(t)
      <3>1. CASE BeginRemember(t)
        <4>1. Remembers(t, m)
          BY <2>2, <3>1
        <4>2. m.evs = Fresh(mem[Rt(t)]).evs /\ mem[Rt(t)] \in Tables
          BY <4>1, WrittenTable
        <4>3. Fresh(mem[Rt(t)]).evs[e] \in {mem[Rt(t)].evs[e], None}
          BY <4>2, FreshTables
        <4>. QED
          BY <4>2, <4>3
      <3>2. CASE BeginClaim(t)
        <4>1. ClaimsIn(t, m)
          BY <2>2, <3>2
        <4>2. \A y \in Events : m.evs[y] \in {mem[Rt(t)].evs[y], None} \/ y = Id(t)
          BY <4>1, WrittenTable
        <4>. QED
          BY <3>2, <4>2
      <3>. QED
        BY <1>11, <3>1, <3>2
    <2>5. BeginClaim(t) /\ e = Id(t) => Claiming(e)'
      <3>1. SUFFICES ASSUME BeginClaim(t), e = Id(t)
                     PROVE  Claiming(e)'
        OBVIOUS
      <3>2. PICK j \in Job :
              /\ task' = [task EXCEPT ![t] = j] /\ j.id = Id(t)
              /\ \/ BeginRemember(t) /\ At(t, "remember")
                 \/ BeginClaim(t) /\ j.at = "claiming"
        BY <3>1, BeginsWrite
      <3>3. j.at = "claiming" /\ task'[t] = j /\ j # None
        BY <3>1, <3>2, Nothing DEF BeginClaim, At, Typed
      <3>. QED
        BY <3>1, <3>2, <3>3 DEF Claiming, At, Id
    <2>6. CASE r = Rt(t)
      <3>1. mem'[r] = m /\ undo'[r] = mem[r] /\ Admits(r)
        BY <2>2, <2>3, <2>6 DEF Typed, Admits
      <3>2. CASE ~Crash
        <4>1. mem[r].evs[e] # None => Out(e)'
          BY <1>4, <1>5, <2>1, <3>1, <3>2
        <4>. QED
          BY <2>4, <2>5, <2>6, <3>1, <4>1
      <3>. QED
        BY <1>crash, <3>2
    <2>7. CASE r # Rt(t)
      <3>1. /\ mem'[r] = mem[r] /\ undo'[r] = undo[r] /\ lock'[r] = lock[r]
            /\ Admits(r)' => Admits(r)
        BY <2>2, <2>3, <2>7 DEF Typed, Admits, Serving, runtimeVars
      <3>. QED
        BY <1>6, <2>1, <3>1
    <2>. QED
      BY <2>6, <2>7
  <1>12. ASSUME NEW t \in Tasks, Remembered(t) \/ Claimed(t)
         PROVE  Goal
    <2>. DEFINE x == Rt(t)
    <2>1. /\ task[t] # None /\ x \in Runtimes /\ lock[x] = t /\ owner = x
          /\ undo' = [undo EXCEPT ![x] = EmptyTables]
          /\ lock' = [lock EXCEPT ![x] = None]
          /\ UNCHANGED runtimeVars
      BY <1>12, EndsWrite
    <2>2. PICK j \in Job \cup {None} :
            /\ task' = [task EXCEPT ![t] = j]
            /\ \/ /\ mem' = mem
                  /\ \/ At(t, "remembering")
                     \/ At(t, "claiming") /\ j \in Job /\ j.id = Id(t) /\ j.at = "publish"
               \/ mem' = [mem EXCEPT ![x] = undo[x]]
      BY <1>12, EndsWrite
    <2>3. \A q \in Runtimes : Admits(q)' => Admits(q) /\ q = x
      <3>1. \A q \in Runtimes : Admits(q)' => Admits(q)
        BY <2>1, Nothing DEF Typed, Admits, Serving, runtimeVars
      <3>. QED
        BY <2>1, <3>1, OneAdmits
    <2>4. lock'[r] \in Tasks => lock[r] \in Tasks /\ undo'[r] = undo[r]
      BY <2>1, Nothing DEF Typed
    <2>5. CASE mem' = [mem EXCEPT ![x] = undo[x]]
      <3>1. r = x => mem'[r] = undo[r] /\ lock[r] \in Tasks
        BY <2>1, <2>5 DEF Typed
      <3>. QED
        BY <1>4, <1>5, <1>crash, <2>3, <2>4, <3>1
    <2>6. CASE mem' = mem /\ At(t, "remembering")
      <3>1. Claiming(e) => Claiming(e)'
        BY <2>2, <2>6 DEF Claiming, At, Id, Typed
      <3>. QED
        BY <1>6, <2>3, <2>4, <2>6, <3>1
    <2>7. CASE mem' = mem /\ At(t, "claiming") /\ j \in Job /\ j.id = Id(t) /\ j.at = "publish"
      <3>1. task'[t] = j /\ j # None
        BY <2>2, <2>7, Nothing DEF Typed
      <3>2. Claiming(e) => Claiming(e)' \/ Out(e)'
        <4>1. SUFFICES ASSUME NEW u \in Tasks, At(u, "claiming"), Id(u) = e
                       PROVE  Claiming(e)' \/ Out(e)'
          BY DEF Claiming
        <4>2. CASE u = t
          BY <2>7, <3>1, <4>1, <4>2 DEF Out, At, Id
        <4>3. CASE u # t
          <5>1. task'[u] = task[u]
            BY <2>2, <4>3 DEF Typed
          <5>. QED
            BY <4>1, <5>1 DEF Claiming, At, Id
        <4>. QED
          BY <4>2, <4>3
      <3>. QED
        BY <1>6, <2>3, <2>4, <2>7, <3>2
    <2>. QED
      BY <2>2, <2>5, <2>6, <2>7
  <1>13. ASSUME Tick \/ (\E id \in Ids : Reroute(id)) \/ UNCHANGED vars
         PROVE  Goal
    <2>1. UNCHANGED <<fileVars, runtimeVars, task>>
      BY <1>13 DEF Tick, Reroute, vars
    <2>2. Claiming(e) => Claiming(e)'
      BY <2>1 DEF Claiming, At, Id
    <2>. QED
      BY <1>6, <2>1, <2>2 DEF fileVars, runtimeVars, Admits, Serving
  <1>14. Goal
    <2>. HIDE DEF Goal
    <2>. QED
      BY <1>7, <1>8, <1>9, <1>10, <1>11, <1>12, <1>13, <1>crash, NextCases
  <1>. QED
    BY <1>14
-----------------------------------------------------------------------------
(***************************************************************************)
(* What is resolved is durable                                             *)
(***************************************************************************)

\* File d survives for every token of table n: it has it, or younger ones.
Backs(d, n) ==
  \A x \in Messages : n.msgs[x] # None /\ now < n.msgs[x] =>
    Kept(d.msgs, x, n.msgs[x], MaxMessages, {})

\* The file backs the memory of the serving runtime but for the token that is being
\* written; a failing write leaves a file that still does.
DurableInv ==
  \A r \in Runtimes \ volatile : Serving(r) =>
    /\ lock[r] = None => Backs(disk, mem[r])
    /\ lock[r] \in Tasks =>
         /\ Backs(disk, undo[r]) /\ Backs(mem[r], undo[r])
         /\ \A x \in Messages :
              \/ mem[r].msgs[x] \in {undo[r].msgs[x], None}
              \/ \E t \in Tasks : lock[r] = t /\ At(t, "remembering") /\ Id(t) = x

\* A table backs what it was made of by leaving entries out.
LEMMA BacksItself ==
  ASSUME NEW d \in Tables, NEW n \in Tables,
         \A x \in Messages : n.msgs[x] \in {d.msgs[x], None}
  PROVE  Backs(d, n)
  <1>1. n.msgs \in Entries(Messages)
    BY TableEntries
  <1>2. \A x \in Messages : n.msgs[x] # None => n.msgs[x] \in Nat /\ n.msgs[x] = d.msgs[x]
    BY <1>1 DEF Entries
  <1>. QED
    BY <1>2 DEF Backs, Kept

\* Fewer entries need fewer backs.
LEMMA BacksFewer ==
  ASSUME NEW d, NEW m, NEW n, Backs(d, m),
         \A x \in Messages : n.msgs[x] \in {m.msgs[x], None}
  PROVE  Backs(d, n)
  BY DEF Backs

\* Every step keeps the file behind the memory of the serving runtime.
LEMMA DurableKept ==
  ASSUME IInv, IInv', FitInv, DurableInv, [Next]_vars
  PROVE  DurableInv'
  <1>. USE DEF IInv
  <1>1. SUFFICES ASSUME NEW r \in Runtimes, r \notin volatile', Serving(r)'
                 PROVE  /\ lock'[r] = None => Backs(disk, mem[r])'
                        /\ lock'[r] \in Tasks =>
                             /\ Backs(disk, undo[r])' /\ Backs(mem[r], undo[r])'
                             /\ \A x \in Messages :
                                  \/ mem'[r].msgs[x] \in {undo'[r].msgs[x], None}
                                  \/ \E t \in Tasks : lock'[r] = t /\ At(t, "remembering")' /\ Id(t)' = x
    BY DEF DurableInv
  <1>. DEFINE Goal == /\ lock'[r] = None => Backs(disk, mem[r])'
                      /\ lock'[r] \in Tasks =>
                           /\ Backs(disk, undo[r])' /\ Backs(mem[r], undo[r])'
                           /\ \A x \in Messages :
                                \/ mem'[r].msgs[x] \in {undo'[r].msgs[x], None}
                                \/ \E t \in Tasks : lock'[r] = t /\ At(t, "remembering")' /\ Id(t)' = x
  <1>2. /\ now \in Nat /\ now' \in Nat /\ now <= now' /\ r \notin volatile
        /\ Typed /\ Typed' /\ Tables' = Tables
        /\ mem[r] \in Tables /\ undo[r] \in Tables /\ disk \in Tables
        /\ mem'[r] \in Tables /\ undo'[r] \in Tables /\ disk' \in Tables
        /\ mem[r] \in Tabs
    <2>1. Typed /\ Typed' /\ Tables' = Tables
      BY DEF Tables, Times
    <2>. QED
      BY <1>1, <2>1, Grows, TabsTyped DEF Typed
  <1>3. ASSUME NEW d \in Tables, NEW n \in Tables, Backs(d, n)
        PROVE  Backs(d, n)'
    <2>1. n.msgs \in Entries(Messages)
      BY TableEntries
    <2>. QED
      BY <1>2, <1>3, <2>1 DEF Backs, Kept, Entries
  <1>4. ASSUME Serving(r), disk' = disk, undo'[r] = undo[r], lock'[r] = lock[r],
               mem'[r] = mem[r], lock[r] \in Tasks => task'[lock[r]] = task[lock[r]]
        PROVE  Goal
    <2>1. /\ lock[r] = None => Backs(disk, mem[r])
          /\ lock[r] \in Tasks =>
               /\ Backs(disk, undo[r]) /\ Backs(mem[r], undo[r])
               /\ \A x \in Messages :
                    \/ mem[r].msgs[x] \in {undo[r].msgs[x], None}
                    \/ \E t \in Tasks : lock[r] = t /\ At(t, "remembering") /\ Id(t) = x
      BY <1>2, <1>4 DEF DurableInv
    <2>2. lock'[r] = None => Backs(disk, mem[r])'
      BY <1>2, <1>3, <1>4, <2>1
    <2>3. lock'[r] \in Tasks => Backs(disk, undo[r])' /\ Backs(mem[r], undo[r])'
      BY <1>2, <1>3, <1>4, <2>1
    <2>4. lock'[r] \in Tasks =>
            \A x \in Messages :
              \/ mem'[r].msgs[x] \in {undo'[r].msgs[x], None}
              \/ \E t \in Tasks : lock'[r] = t /\ At(t, "remembering")' /\ Id(t)' = x
      BY <1>4, <2>1 DEF At, Id
    <2>. QED
      BY <2>2, <2>3, <2>4
  <1>5. \A q \in Runtimes : Serving(q) \/ lock[q] \in Tasks => owner = q
    BY OneAdmits DEF Admits
  <1>6. ASSUME NEW x \in Runtimes, SlotStep(x)
        PROVE  Goal
    <2>1. UNCHANGED <<disk, mem, undo, task>>
      BY <1>6 DEF SlotStep, EnterSlot, Stop, FencePrevious, TakeOver, LoadFails,
         CancelStart, fileVars
    <2>2. Serving(r)
      <3>1. CASE LoadFails(x)
        BY <1>1, <3>1 DEF LoadFails, LeaveStart, Serving, Typed
      <3>2. CASE ~LoadFails(x)
        BY <1>1, <1>6, <3>2 DEF SlotStep, EnterSlot, Stop, FencePrevious, TakeOver,
           CancelStart, LeaveStart, Serving, Typed
      <3>. QED
        BY <3>1, <3>2
    <2>3. lock'[r] = lock[r]
      BY <1>6, <2>2 DEF SlotStep, EnterSlot, Stop, FencePrevious, TakeOver, LoadFails,
         CancelStart, LeaveStart, fileVars, Typed, Serving
    <2>. QED
      BY <1>4, <2>1, <2>2, <2>3
  <1>7. ASSUME NEW x \in Runtimes, Load(x)
        PROVE  Goal
    <2>1. /\ mem' = [mem EXCEPT ![x] = Restored] /\ phase[x] = "load"
          /\ lock' = [lock EXCEPT ![x] = None] /\ phase' = [phase EXCEPT ![x] = "up"]
          /\ UNCHANGED <<disk, stopping>>
      BY <1>7 DEF Load, LeaveStart
    <2>2. x = r
      <3>1. SUFFICES ASSUME x # r
                     PROVE  FALSE
        OBVIOUS
      <3>2. Serving(r)
        BY <1>1, <2>1, <3>1 DEF Serving, Typed
      <3>. QED
        BY <1>5, <2>1, <3>1, <3>2 DEF SlotInv
    <2>3. mem'[r] = Restored /\ lock'[r] \notin Tasks
      BY <2>1, <2>2, Nothing DEF Typed
    <2>4. Restored \in Tables /\ Sheds(disk.msgs, Restored.msgs) /\ DOMAIN disk.msgs = Messages
      BY <1>2, RestoredSheds, TableFields DEF PastInv
    <2>5. Backs(disk, Restored)
      BY <1>2, <2>4, BacksItself DEF Sheds
    <2>6. Backs(disk, mem[r])'
      BY <1>2, <1>3, <2>1, <2>3, <2>4, <2>5
    <2>. QED
      BY <2>3, <2>6
  <1>8. ASSUME NEW t \in Tasks, QuietStep(t) \/ Publish(t)
        PROVE  Goal
    <2>1. UNCHANGED <<fileVars, runtimeVars>>
      BY <1>8, Quiet DEF Publish
    <2>2. PICK j \in Job \cup {None} : /\ task' = [task EXCEPT ![t] = j]
                                       /\ j # None => j.at \in Before
      BY <1>8, Quiet DEF Publish, Finish
    <2>3. lock[r] \in Tasks => task'[lock[r]] = task[lock[r]]
      <3>1. SUFFICES ASSUME lock[r] \in Tasks
                     PROVE  lock[r] # t
        BY <2>2 DEF Typed
      <3>2. \A u \in Tasks : task'[u] # None /\ task'[u].at \in Before =>
                               \A q \in Runtimes : lock'[q] # u
        BY DEF LockInv, Before, Writing
      <3>3. \A u \in Tasks : task'[u] = None => \A q \in Runtimes : lock'[q] # u
        BY DEF LockInv
      <3>4. lock' = lock
        BY <2>1 DEF fileVars
      <3>. QED
        BY <2>2, <3>1, <3>2, <3>3, <3>4 DEF Typed
    <2>. QED
      BY <1>1, <1>4, <2>1, <2>3 DEF fileVars, runtimeVars, Serving
  <1>9. ASSUME NEW t \in Tasks, Duplicate(t)
        PROVE  Goal
    <2>1. /\ Rt(t) \in Runtimes /\ lock[Rt(t)] = None
          /\ mem' = [mem EXCEPT ![Rt(t)] = Fresh(mem[Rt(t)])]
          /\ UNCHANGED <<disk, undo, lock, runtimeVars>>
      BY <1>9, JobFields DEF Duplicate, At
    <2>2. Serving(r)
      BY <1>1, <2>1 DEF Serving, runtimeVars
    <2>3. CASE Rt(t) = r
      <3>1. mem'[r] = Fresh(mem[r]) /\ lock'[r] \notin Tasks /\ lock[r] = None
        BY <2>1, <2>3, Nothing DEF Typed
      <3>2. /\ Fresh(mem[r]) \in Tables /\ Sheds(mem[r].msgs, Fresh(mem[r]).msgs)
            /\ DOMAIN mem[r].msgs = Messages
        BY <1>2, FreshSheds, TableFields
      <3>3. Backs(disk, Fresh(mem[r]))
        <4>1. Backs(disk, mem[r])
          BY <1>2, <2>2, <3>1 DEF DurableInv
        <4>. QED
          BY <3>2, <4>1, BacksFewer DEF Sheds
      <3>4. Backs(disk, mem[r])'
        BY <1>2, <1>3, <2>1, <3>1, <3>2, <3>3
      <3>. QED
        BY <3>1, <3>4
    <2>4. CASE Rt(t) # r
      <3>1. lock[r] \in Tasks => task'[lock[r]] = task[lock[r]]
        <4>1. lock[r] \in Tasks => task[lock[r]].at \in Writing
          BY DEF LockInv
        <4>2. task[t].at \notin Writing /\ task' = [task EXCEPT ![t] = None]
          BY <1>9 DEF Duplicate, At, Writing, Finish
        <4>. QED
          BY <4>1, <4>2 DEF Typed
      <3>. QED
        BY <1>4, <2>1, <2>2, <2>4, <3>1 DEF Typed
    <2>. QED
      BY <2>3, <2>4
  <1>10. ASSUME NEW t \in Tasks, BeginRemember(t) \/ BeginClaim(t)
         PROVE  Goal
    <2>1. PICK m \in Tables : /\ mem' = [mem EXCEPT ![Rt(t)] = m]
                              /\ BeginRemember(t) => Remembers(t, m)
                              /\ BeginClaim(t) => ClaimsIn(t, m)
      BY <1>10, Begins
    <2>2. /\ Rt(t) \in Runtimes /\ Serving(Rt(t)) /\ lock[Rt(t)] = None
          /\ undo' = [undo EXCEPT ![Rt(t)] = mem[Rt(t)]]
          /\ lock' = [lock EXCEPT ![Rt(t)] = t]
          /\ UNCHANGED <<disk, runtimeVars, envVars>>
      BY <1>10, BeginsWrite
    <2>3. Rt(t) = r /\ Serving(r)
      <3>1. Serving(r)
        BY <1>1, <2>2 DEF Serving, runtimeVars
      <3>. QED
        BY <1>5, <2>2, <3>1
    <2>4. /\ mem'[r] = m /\ undo'[r] = mem[r] /\ lock'[r] = t /\ disk' = disk
          /\ lock[r] = None
      BY <2>1, <2>2, <2>3 DEF Typed
    <2>5. Backs(disk, mem[r])
      BY <1>2, <2>3, <2>4 DEF DurableInv
    <2>6. Remembers(t, m) \/ ClaimsIn(t, m)
      BY <1>10, <2>1
    <2>7. Backs(m, mem[r])
      <3>1. SUFFICES ASSUME NEW x \in Messages, mem[r].msgs[x] # None, now < mem[r].msgs[x]
                     PROVE  Kept(m.msgs, x, mem[r].msgs[x], MaxMessages, {})
        BY DEF Backs
      <3>2. mem[r].msgs[x] \in Nat /\ IsFiniteSet({}) /\ x \notin {}
        BY <1>2, <3>1, TableEntries, FS_EmptySet DEF Entries
      <3>3. Kept(mem[r].msgs, x, mem[r].msgs[x], MaxMessages, {})
        BY <3>1, <3>2 DEF Kept
      <3>4. mem[r].msgs[x] <= now + MessageTTL
        BY <1>2, <3>1 DEF FitInv, Fit, Young
      <3>. QED
        BY <2>3, <2>6, <3>1, <3>2, <3>3, <3>4, WrittenTable
    <2>8. ASSUME NEW x \in Messages
          PROVE  \/ mem'[r].msgs[x] \in {undo'[r].msgs[x], None}
                 \/ \E u \in Tasks : lock'[r] = u /\ At(u, "remembering")' /\ Id(u)' = x
      <3>1. CASE BeginRemember(t)
        <4>1. Remembers(t, m)
          BY <2>1, <3>1
        <4>2. m.msgs[x] \in {mem[r].msgs[x], None} \/ x = Id(t)
          BY <2>3, <4>1, WrittenTable
        <4>3. PICK j \in Job :
                /\ task' = [task EXCEPT ![t] = j] /\ j.id = Id(t)
                /\ \/ j.at = "remembering"
                   \/ BeginClaim(t) /\ At(t, "claim")
          BY <3>1, BeginsWrite
        <4>4. j.at = "remembering" /\ task'[t] = j /\ j # None
          BY <3>1, <4>3, Nothing DEF BeginRemember, At, Typed
        <4>5. At(t, "remembering")' /\ Id(t)' = Id(t)
          BY <4>3, <4>4 DEF At, Id
        <4>. QED
          BY <2>4, <4>2, <4>5
      <3>2. CASE BeginClaim(t)
        <4>1. ClaimsIn(t, m)
          BY <2>1, <3>2
        <4>2. m.msgs = Fresh(mem[r]).msgs
          BY <2>3, <4>1, WrittenTable
        <4>3. Sheds(mem[r].msgs, Fresh(mem[r]).msgs) /\ DOMAIN mem[r].msgs = Messages
          BY <1>2, FreshSheds, TableFields
        <4>. QED
          BY <2>4, <4>2, <4>3 DEF Sheds
      <3>. QED
        BY <1>10, <3>1, <3>2
    <2>9. Backs(disk, undo[r])' /\ Backs(mem[r], undo[r])'
      BY <1>2, <1>3, <2>4, <2>5, <2>7
    <2>. QED
      BY <2>4, <2>8, <2>9, Nothing
  <1>11. ASSUME NEW t \in Tasks, Remembered(t) \/ Claimed(t)
         PROVE  Goal
    <2>. DEFINE x == Rt(t)
    <2>1. /\ x \in Runtimes /\ lock[x] = t /\ owner = x
          /\ lock' = [lock EXCEPT ![x] = None]
          /\ UNCHANGED runtimeVars
          /\ \/ mem' = mem /\ (x \notin volatile => disk' = mem[x])
             \/ mem' = [mem EXCEPT ![x] = undo[x]] /\ disk' \in {disk, mem[x]}
      BY <1>11, EndsWrite
    <2>2. x = r /\ Serving(r)
      <3>1. Serving(r)
        BY <1>1, <2>1 DEF Serving, runtimeVars
      <3>. QED
        BY <1>5, <2>1, <3>1
    <2>3. lock'[r] \notin Tasks
      BY <2>1, <2>2, Nothing DEF Typed
    <2>4. CASE mem' = mem /\ (x \notin volatile => disk' = mem[x])
      <3>1. disk' = mem[r] /\ mem'[r] = mem[r]
        BY <1>2, <2>2, <2>4
      <3>2. Backs(mem[r], mem[r])
        BY <1>2, BacksItself
      <3>3. Backs(disk, mem[r])'
        BY <1>2, <1>3, <3>1, <3>2
      <3>. QED
        BY <2>3, <3>3
    <2>5. CASE mem' = [mem EXCEPT ![x] = undo[x]] /\ disk' \in {disk, mem[x]}
      <3>1. mem'[r] = undo[r] /\ (disk' = disk \/ disk' = mem[r])
        BY <2>2, <2>5 DEF Typed
      <3>2. Backs(disk, undo[r]) /\ Backs(mem[r], undo[r])
        BY <1>2, <2>1, <2>2 DEF DurableInv
      <3>3. Backs(disk, mem[r])'
        BY <1>2, <1>3, <3>1, <3>2
      <3>. QED
        BY <2>3, <3>3
    <2>. QED
      BY <2>1, <2>4, <2>5
  <1>12. ASSUME Tick \/ (\E id \in Ids : Reroute(id)) \/ UNCHANGED vars
         PROVE  Goal
    <2>1. UNCHANGED <<fileVars, runtimeVars, task>>
      BY <1>12 DEF Tick, Reroute, vars
    <2>. QED
      BY <1>1, <1>4, <2>1 DEF fileVars, runtimeVars, Serving
  <1>13. ~Crash
    BY <1>1 DEF Crash, Serving
  <1>14. Goal
    <2>. HIDE DEF Goal
    <2>. QED
      BY <1>6, <1>7, <1>8, <1>9, <1>10, <1>11, <1>12, <1>13, NextCases
  <1>. QED
    BY <1>14
-----------------------------------------------------------------------------
(***************************************************************************)
(* The theorems about the tables                                           *)
(***************************************************************************)

\* What the limits of the tables and the histories need beyond IInv.
TablesInv ==
  /\ FitInv /\ HistoryTyped /\ HandedInv /\ WritesInv
  /\ KnownInv /\ TokenInv /\ LossInv /\ DurableInv

\* It holds at first: every table is empty.
LEMMA TablesInit == Init => TablesInv
  <1>. SUFFICES ASSUME Init
                PROVE  TablesInv
    OBVIOUS
  <1>1. FitInv
    BY FitEmpty DEF Init, FitInv, Tabs
  <1>2. HistoryTyped
    BY FS_EmptySet, EventBoundsAssumption DEF Init, HistoryTyped
  <1>3. HandedInv /\ WritesInv /\ KnownInv /\ TokenInv
    BY DEF Init, HandedInv, WritesInv, KnownInv, TokenInv, IsClaim, At
  <1>4. LossInv /\ DurableInv
    BY EmptyTable, Nothing DEF Init, LossInv, DurableInv, Admits, Serving
  <1>. QED
    BY <1>1, <1>2, <1>3, <1>4 DEF TablesInv

\* Every step keeps it.
LEMMA TablesKept == IInv /\ TablesInv /\ [Next]_vars => TablesInv'
  <1>. SUFFICES ASSUME IInv, TablesInv, [Next]_vars
                PROVE  TablesInv'
    OBVIOUS
  <1>. USE DEF TablesInv
  <1>1. IInv'
    BY StepHolds
  <1>2. FitInv' /\ HistoryTyped'
    BY <1>1, FitKept, HistoryKept
  <1>3. HandedInv' /\ WritesInv'
    BY HandedKept, WritesKept
  <1>4. KnownInv' /\ TokenInv'
    BY <1>1, <1>2, KnownKept, TokenKept
  <1>5. LossInv' /\ DurableInv'
    BY <1>1, LossKept, DurableKept
  <1>. QED
    BY <1>2, <1>3, <1>4, <1>5

\* Both invariants, for every value of the constants.
THEOREM TablesHold == Spec => [](IInv /\ TablesInv)
  <1>1. IInv /\ TablesInv /\ [Next]_vars => (IInv /\ TablesInv)'
    BY StepHolds, TablesKept
  <1>. QED
    BY <1>1, InitHolds, TablesInit, PTL DEF Spec

\* Every variable stays in its domain, and no table, in memory, in the file or kept
\* for a rollback, exceeds its limit (channel_registry.py: _trim).
THEOREM TypeOKHolds == Spec => []TypeOK
  <1>1. IInv /\ TablesInv => TypeOK
    <2>. SUFFICES ASSUME IInv, TablesInv
                  PROVE  TypeOK
      OBVIOUS
    <2>1. Bounded(disk) /\ \A r \in Runtimes : Bounded(mem[r]) /\ Bounded(undo[r])
      BY DEF TablesInv, FitInv, Fit, Sized, Tabs
    <2>2. Typed /\ HistoryTyped
      BY DEF IInv, TablesInv
    <2>. QED
      BY <2>1, <2>2 DEF Typed, HistoryTyped, TypeOK
  <1>. QED
    BY <1>1, TablesHold, PTL

\* A runtime that serves knows every publication whose claim is not over, its own
\* and those of the runtimes it shares the file with, unless younger claims fill
\* its table.
THEOREM ClaimsKeptHolds == Spec => []ClaimsKept
  <1>1. IInv /\ TablesInv => ClaimsKept
    <2>. SUFFICES ASSUME IInv, TablesInv, NEW r \in Runtimes, NEW e \in Events,
                         NEW i \in DOMAIN published[e], Serving(r),
                         \/ published[e][i].rt = r
                         \/ {published[e][i].rt, r} \cap volatile = {},
                         now < published[e][i].claim + EventTTL
                  PROVE  Kept(mem[r].evs, e, published[e][i].claim, MaxEvents, {})
      BY DEF ClaimsKept
    <2>1. PICK q \in Runtimes, c \in Times : published[e][i] = [rt |-> q, claim |-> c]
      BY PublishedFields DEF IInv
    <2>2. IsClaim(e, q, c)
      BY <2>1 DEF IsClaim
    <2>3. /\ Admits(r) /\ now < c + EventTTL
          /\ q = r \/ {q, r} \cap volatile = {}
      BY <2>1 DEF Admits
    <2>4. mem[r] \in Knowing(e, c)
      <3>1. CASE q \in volatile
        BY <2>2, <2>3, <3>1 DEF TablesInv, KnownInv, Within
      <3>2. CASE q \notin volatile
        BY <2>2, <2>3, <3>2 DEF TablesInv, KnownInv, Everywhere
      <3>. QED
        BY <3>1, <3>2
    <2>5. now \in Nat /\ c \in Nat /\ EventTTL \in Nat
      BY Numbers DEF IInv, Typed
    <2>6. Kept(mem[r].evs, e, c, MaxEvents, {})
      BY <2>3, <2>4, <2>5 DEF Knowing
    <2>. QED
      BY <2>1, <2>6
  <1>. QED
    BY <1>1, TablesHold, PTL

\* A token that was handed to an automation can be used with every runtime that
\* serves later, until it expires or had to make room for younger ones.
THEOREM TokensKeptHolds == Spec => []TokensKept
  <1>1. IInv /\ TablesInv => TokensKept
    BY DEF TablesInv, TokenInv, Everywhere, Holding, TokensKept, Admits
  <1>. QED
    BY <1>1, TablesHold, PTL

\* What a runtime resolves is in the file, but for what had to make room: a quote
\* becomes usable when its write completes (channel_registry.py: resolve_message).
THEOREM UsableIsDurableHolds == Spec => []UsableIsDurable
  <1>1. IInv /\ TablesInv => UsableIsDurable
    <2>. SUFFICES ASSUME IInv, TablesInv, NEW r \in Runtimes \ volatile,
                         NEW m \in Messages, Serving(r), Usable(r, m)
                  PROVE  Kept(disk.msgs, m, mem[r].msgs[m], MaxMessages, {})
      BY DEF UsableIsDurable
    <2>1. mem[r].msgs[m] # None /\ now < mem[r].msgs[m]
      <3>1. mem[r] \in Tables /\ now \in Nat
        BY Numbers DEF IInv, Typed
      <3>2. mem[r].msgs[m] # None => mem[r].msgs[m] \in Nat
        BY <3>1, TableEntries DEF Entries
      <3>. QED
        BY <3>1, <3>2 DEF Usable
    <2>2. CASE lock[r] = None
      BY <2>1, <2>2 DEF TablesInv, DurableInv, Backs
    <2>3. CASE lock[r] \in Tasks
      <3>1. Backs(disk, undo[r]) /\ \/ mem[r].msgs[m] \in {undo[r].msgs[m], None}
                                    \/ \E t \in Tasks : lock[r] = t /\ At(t, "remembering")
                                                        /\ Id(t) = m
        BY <2>3 DEF TablesInv, DurableInv
      <3>2. Rt(lock[r]) = r
        BY <2>3 DEF IInv, LockInv
      <3>3. mem[r].msgs[m] = undo[r].msgs[m]
        BY <2>1, <3>1, <3>2 DEF Usable
      <3>. QED
        BY <2>1, <3>1, <3>3 DEF Backs
    <2>4. lock[r] \notin Runtimes
      BY DEF IInv, SlotInv, Serving
    <2>. QED
      BY <2>2, <2>3, <2>4 DEF IInv, Typed
  <1>. QED
    BY <1>1, TablesHold, PTL

\* An event that a serving runtime suppresses was published, is about to be, or is
\* known to be lost: no claim that was not acknowledged suppresses anything.
THEOREM NoSilentLossHolds == Spec => []NoSilentLoss
  <1>1. IInv /\ TablesInv => NoSilentLoss
    BY DEF TablesInv, LossInv, Out, Claiming, NoSilentLoss, Admits
  <1>. QED
    BY <1>1, TablesHold, PTL
=============================================================================
