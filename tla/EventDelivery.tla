----------------------------- MODULE EventDelivery -----------------------------
(***************************************************************************)
(* The ChannelRegistry (channel_registry.py) and the managers that feed it:*)
(* the three inbound managers, which remember the token of a message, claim*)
(* its event and publish it on the bus, and the outbound observer, which   *)
(* remembers what was sent.  WAHA can deliver a webhook any number of      *)
(* times.  A runtime is one ChannelRegistry with its managers; all runtimes*)
(* of an entry share a writer slot and a file.                             *)
(***************************************************************************)
EXTENDS Naturals, FiniteSets, Sequences

CONSTANTS
  Events,       \* event ids of webhooks; those in Messages bring a message
  Messages,     \* ids of messages, received or sent: what has a token
  Managed,      \* those of a group or guest, verified before they are trusted
  Rechecked,    \* those of a general group, checked again before publication
  Runtimes,     \* registry objects
  Tasks,        \* handlers that can be under way at one time
  EventTTL,     \* EVENT_TTL_SECONDS
  MessageTTL,   \* MESSAGE_TTL_SECONDS
  MaxAge,       \* MAX_EVENT_AGE_SECONDS
  FutureSkew,   \* MAX_FUTURE_SKEW_SECONDS
  HandlingTime, \* bound: a handler takes no longer
  MaxEvents,    \* MAX_CLAIMED_EVENTS
  MaxMessages,  \* MAX_TRACKED_MESSAGES
  MaxTime,      \* bound: the clock stops here
  MaxCrashes,   \* bound: process crashes
  None          \* no time, no snapshot, no task, no owner

ASSUME EventKindsAssumption ==
  /\ Managed \subseteq Events \cup Messages
  /\ Rechecked \subseteq Managed \cap Events
ASSUME EventBoundsAssumption ==
  /\ {EventTTL, MessageTTL, MaxAge, FutureSkew, HandlingTime, MaxEvents,
      MaxMessages, MaxTime, MaxCrashes} \subseteq Nat
  /\ MaxEvents > 0 /\ MaxMessages > 0
ASSUME WindowAssumption == MaxAge + FutureSkew + HandlingTime < EventTTL

VARIABLES
  disk,         \* the channel file
  mem,          \* _messages and _events of each runtime
  undo,         \* previous_messages and previous_events of the write under way
  snap,         \* the tables a runtime's executor is writing, or None
  lock,         \* _lock: the task or the starting runtime that holds it
  phase,        \* progress of async_start
  stopping,     \* runtimes with _stopping
  volatile,     \* runtimes whose store is a _VolatileStore
  slotLock,     \* _ChannelWriterSlot.lock
  owner,        \* _ChannelWriterSlot.owner
  task,         \* the handlers under way
  routed,       \* the ids whose conversation is configured and confirmed
  born,         \* the timestamp of each event
  published,    \* history: every publication, with the time of its claim
  evicted,      \* history: events whose claim made room for another one
  handed,       \* history: until when a token that was given out may be used
  dropped,      \* history: tokens left out by a load for lack of a route
  lost,         \* history: events whose handler ended after its claim
  now,          \* the wall clock
  crashes       \* how often the process died

fileVars == <<disk, mem, undo, snap, lock>>
runtimeVars == <<phase, stopping, volatile, slotLock, owner>>
historyVars == <<published, evicted, handed, dropped, lost>>
envVars == <<routed, born, now, crashes>>
vars == <<fileVars, runtimeVars, task, historyVars, envVars>>
-----------------------------------------------------------------------------
Ids == Events \cup Messages
Times == 0 .. MaxTime

\* _messages maps a token to expires_at, _events maps a token to seen_at.
Tables == [msgs : [Messages -> 0 .. MaxTime + MessageTTL \cup {None}],
           evs : [Events -> Times \cup {None}]]
EmptyTables == [msgs |-> [m \in Messages |-> None], evs |-> [e \in Events |-> None]]

\* What a handler waits for: the proof of its route, the lock, the end of a
\* write, or the lookups between its claim and its publication.
Before == {"verify", "remember", "claim"}
Writing == {"remembering", "claiming"}
Job == [at : Before \cup Writing \cup {"publish"}, rt : Runtimes, id : Ids,
        since : Times]

ASSUME EventNoneAssumption ==
  /\ None \notin Nat \cup Tasks \cup Runtimes \cup Tables \cup Job
  /\ Tasks \cap Runtimes = {}

At(t, label) == task[t] # None /\ task[t].at = label
Rt(t) == task[t].rt
Id(t) == task[t].id
Fenced(r) == r \in stopping

Goto(t, label) == task' = [task EXCEPT ![t].at = label]
Finish(t) == task' = [task EXCEPT ![t] = None]
-----------------------------------------------------------------------------
(* The operators named ...Variant are plausible mistakes in the definition    *)
(* that follows them; the specification does not use them.                   *)

Held(f) == {x \in DOMAIN f : f[x] # None}

\* Entries that are over are forgotten.
Fresh(m) ==
  [msgs |-> [x \in Messages |->
               IF m.msgs[x] # None /\ m.msgs[x] > now THEN m.msgs[x] ELSE None],
   evs |-> [e \in Events |->
               IF m.evs[e] # None /\ m.evs[e] + EventTTL > now THEN m.evs[e] ELSE None]]

\* The entry with the latest time goes.
OldestVariant(f, new) ==
  {x \in Held(f) : /\ \A y \in Held(f) : f[x] >= f[y]
                   /\ x = new => \A y \in Held(f) \ {x} : f[x] > f[y]}

\* The entries that sort first; a new one comes after its equals.  (The order
\* of older equals is not modelled: any of them can be first.)
Oldest(f, new) ==
  {x \in Held(f) : /\ \A y \in Held(f) : f[x] <= f[y]
                   /\ x = new => \A y \in Held(f) \ {x} : f[x] < f[y]}

\* The limit is ignored.
TrimmedVariant(f, new, max) == {f}

\* The tables after one of them got the entry new: one entry too many goes.
Trimmed(f, new, max) ==
  IF Cardinality(Held(f)) <= max THEN {f}
  ELSE {[f EXCEPT ![x] = None] : x \in Oldest(f, new)}

\* _save under the lock: memory is changed at once, what it was is kept.
Save(t, m) ==
  /\ lock' = [lock EXCEPT ![Rt(t)] = t]
  /\ undo' = [undo EXCEPT ![Rt(t)] = mem[Rt(t)]]
  /\ mem' = [mem EXCEPT ![Rt(t)] = m]
  /\ snap' = [snap EXCEPT ![Rt(t)] = m]

\* Memory keeps what the write did not acknowledge.
WriteVariant(r, result) ==
  /\ snap' = [snap EXCEPT ![r] = None]
  /\ lock' = [lock EXCEPT ![r] = None]
  /\ undo' = [undo EXCEPT ![r] = EmptyTables]
  /\ disk' \in IF r \in volatile THEN {disk}
               ELSE IF result = "failed" THEN {disk, snap[r]} ELSE {snap[r]}
  /\ r \in volatile => result = "ok"
  /\ UNCHANGED mem

(***************************************************************************)
(* The write ends and the lock is released.  Memory is rolled back if the  *)
(* write fails, with the file replaced or not, or if it is acknowledged to *)
(* a cancelled caller.  A volatile store always succeeds.                  *)
(***************************************************************************)
Write(r, result) ==
  /\ snap' = [snap EXCEPT ![r] = None]
  /\ lock' = [lock EXCEPT ![r] = None]
  /\ undo' = [undo EXCEPT ![r] = EmptyTables]
  /\ disk' \in IF r \in volatile THEN {disk}
               ELSE IF result = "failed" THEN {disk, snap[r]} ELSE {snap[r]}
  /\ r \in volatile => result = "ok"
  /\ mem' = IF result = "ok" THEN mem ELSE [mem EXCEPT ![r] = undo[r]]
-----------------------------------------------------------------------------
(***************************************************************************)
(* async_start, stop and async_stop                                        *)
(***************************************************************************)

\* A setup of the entry made registry r and enters the writer slot.
EnterSlot(r) ==
  /\ phase[r] = "new"
  /\ slotLock = None
  /\ slotLock' = r
  /\ phase' = [phase EXCEPT ![r] = "slot"]
  /\ UNCHANGED <<fileVars, stopping, volatile, owner, task, historyVars, envVars>>

\* Unload, or a setup that fails later.
Stop(r) ==
  /\ phase[r] = "up"
  /\ r \notin stopping
  /\ stopping' = stopping \cup {r}
  /\ UNCHANGED <<fileVars, phase, volatile, slotLock, owner, task, historyVars,
                 envVars>>

\* The replacement fences the previous owner at once ...
FencePrevious(r) ==
  /\ phase[r] = "slot"
  /\ owner # None
  /\ stopping' = stopping \cup {owner}
  /\ phase' = [phase EXCEPT ![r] = "drain"]
  /\ UNCHANGED <<fileVars, volatile, slotLock, owner, task, historyVars, envVars>>

\* ... and does not wait for its write.
TakeOverVariant(r) ==
  /\ \/ phase[r] = "slot" /\ owner = None
     \/ phase[r] = "drain"
  /\ owner' = r
  /\ lock' = [lock EXCEPT ![r] = r]
  /\ phase' = [phase EXCEPT ![r] = "load"]
  /\ UNCHANGED <<disk, mem, undo, snap, stopping, volatile, slotLock, task,
                 historyVars, envVars>>

\* ... waits for its write, and takes over.
TakeOver(r) ==
  /\ \/ phase[r] = "slot" /\ owner = None
     \/ phase[r] = "drain" /\ lock[owner] = None
  /\ owner' = r
  /\ lock' = [lock EXCEPT ![r] = r]
  /\ phase' = [phase EXCEPT ![r] = "load"]
  /\ UNCHANGED <<disk, mem, undo, snap, stopping, volatile, slotLock, task,
                 historyVars, envVars>>

LeaveStart(r, p) ==
  /\ lock' = [lock EXCEPT ![r] = None]
  /\ slotLock' = None
  /\ phase' = [phase EXCEPT ![r] = p]

\* Tokens of direct contacts are restored only with their route; those of
\* groups and guests stay dormant, as no route of theirs is confirmed yet.
Unrouted == Messages \ (routed \cup Managed)

\* Every token without a confirmed route is left out.
RestoredVariant ==
  [msgs |-> [m \in Messages |->
               IF m \notin routed THEN None ELSE Fresh(disk).msgs[m]],
   evs |-> [e \in Events |->
               IF disk.evs[e] # None /\ disk.evs[e] > now THEN None
               ELSE Fresh(disk).evs[e]]]

\* _restore; a claim of the future is not believed.
Restored ==
  [msgs |-> [m \in Messages |->
               IF m \in Unrouted THEN None ELSE Fresh(disk).msgs[m]],
   evs |-> [e \in Events |->
               IF disk.evs[e] # None /\ disk.evs[e] > now THEN None
               ELSE Fresh(disk).evs[e]]]

Load(r) ==
  /\ phase[r] = "load"
  /\ mem' = [mem EXCEPT ![r] = Restored]
  /\ dropped' = dropped \cup (Unrouted \cap Held(disk.msgs))
  /\ lost' = lost \cup {e \in Held(Restored.evs) :
                         /\ published[e] = <<>>
                         /\ ~ \E t \in Tasks : At(t, "publish") /\ Id(t) = e}
  /\ LeaveStart(r, "up")
  /\ UNCHANGED <<disk, undo, snap, stopping, volatile, owner, task, published,
                 evicted, handed, envVars>>

\* The file cannot be read: the setup goes on with volatile storage.
LoadFails(r) ==
  /\ phase[r] = "load"
  /\ volatile' = volatile \cup {r}
  /\ LeaveStart(r, "up")
  /\ UNCHANGED <<disk, mem, undo, snap, stopping, owner, task, historyVars, envVars>>

\* The setup is cancelled, which stops nothing.
CancelStart(r) ==
  /\ phase[r] \in {"slot", "drain", "load"}
  /\ LeaveStart(r, "failed")
  /\ UNCHANGED <<disk, mem, undo, snap, stopping, volatile, owner, task,
                 historyVars, envVars>>
-----------------------------------------------------------------------------
(***************************************************************************)
(* async_handle_payload of the inbound managers                            *)
(***************************************************************************)

\* Messages get a token first.
FirstWrite(id) == IF id \in Messages THEN "remember" ELSE "claim"

\* What follows a token: the claim of an event; an observed send is done.
AfterToken(t) == IF Id(t) \in Events THEN Goto(t, "claim") ELSE Finish(t)

\* Any age will do.
TimelyVariant(e) == born[e] <= now + FutureSkew

\* An event is neither stale nor from the future.
Timely(e) == now <= born[e] + MaxAge /\ born[e] <= now + FutureSkew

\* WAHA delivers an event, for the first time or again.  The route of a direct
\* contact was just resolved; that of a group or guest is verified next.
Deliver(t, r, e) ==
  /\ task[t] = None
  /\ phase[r] = "up"
  /\ e \in routed
  /\ Timely(e)
  /\ ~Fenced(r)
  /\ task' = [task EXCEPT ![t] =
                [at |-> IF e \in Managed THEN "verify" ELSE FirstWrite(e),
                 rt |-> r, id |-> e, since |-> now]]
  /\ UNCHANGED <<fileVars, runtimeVars, historyVars, envVars>>

\* async_verify or _refresh_membership; a token needs the route once more.
Verified(t) ==
  /\ At(t, "verify")
  /\ Id(t) \in routed
  /\ Goto(t, FirstWrite(Id(t)))
  /\ UNCHANGED <<fileVars, runtimeVars, historyVars, envVars>>

\* The observer tracks a message that was sent to a routed conversation.
Track(t, r, m) ==
  /\ task[t] = None
  /\ phase[r] = "up"
  /\ ~Fenced(r)
  /\ m \in routed
  /\ task' = [task EXCEPT ![t] = [at |-> "remember", rt |-> r, id |-> m, since |-> now]]
  /\ UNCHANGED <<fileVars, runtimeVars, historyVars, envVars>>

\* async_remember_message, from the lock to the write.
BeginRemember(t) ==
  /\ At(t, "remember")
  /\ lock[Rt(t)] = None
  /\ ~Fenced(Rt(t))
  /\ LET m == Fresh(mem[Rt(t)])
     IN \E f \in Trimmed([m.msgs EXCEPT ![Id(t)] = now + MessageTTL], Id(t), MaxMessages) :
          Save(t, [m EXCEPT !.msgs = f])
  /\ Goto(t, "remembering")
  /\ UNCHANGED <<disk, runtimeVars, historyVars, envVars>>

\* The write ends.  The token goes to its caller, unless that is an observer
\* whose deadline has passed; any failure ends the handler.
Remembered(t) ==
  /\ At(t, "remembering")
  /\ \/ /\ Write(Rt(t), "ok")
        /\ AfterToken(t)
        /\ \/ /\ Rt(t) \notin volatile
              /\ handed' = [handed EXCEPT ![Id(t)] = mem[Rt(t)].msgs[Id(t)]]
              /\ dropped' = dropped \ {Id(t)}
           \/ /\ Rt(t) \in volatile \/ Id(t) \notin Events
              /\ UNCHANGED <<handed, dropped>>
     \/ /\ \E result \in {"cancelled", "failed"} : Write(Rt(t), result)
        /\ Finish(t)
        /\ UNCHANGED <<handed, dropped>>
  /\ UNCHANGED <<runtimeVars, published, evicted, lost, envVars>>

\* The event was claimed less than its lifetime ago.
Known(t) == Fresh(mem[Rt(t)]).evs[Id(t)] # None

\* async_claim_event, from the lock to the write.
BeginClaim(t) ==
  /\ At(t, "claim")
  /\ lock[Rt(t)] = None
  /\ ~Fenced(Rt(t))
  /\ ~Known(t)
  /\ LET m == Fresh(mem[Rt(t)])
         claims == [m.evs EXCEPT ![Id(t)] = now]
     IN \E f \in Trimmed(claims, Id(t), MaxEvents) :
          /\ Save(t, [m EXCEPT !.evs = f])
          /\ evicted' = evicted \cup (Held(claims) \ Held(f))
  /\ task' = [task EXCEPT ![t].at = "claiming", ![t].since = now]
  /\ UNCHANGED <<disk, runtimeVars, published, handed, dropped, lost, envVars>>

\* A duplicate: what is over is forgotten all the same, nothing is saved.
Duplicate(t) ==
  /\ At(t, "claim")
  /\ lock[Rt(t)] = None
  /\ ~Fenced(Rt(t))
  /\ Known(t)
  /\ mem' = [mem EXCEPT ![Rt(t)] = Fresh(mem[Rt(t)])]
  /\ Finish(t)
  /\ UNCHANGED <<disk, undo, snap, lock, runtimeVars, historyVars, envVars>>

\* A failed claim is good enough.
ClaimedVariant(t) ==
  /\ At(t, "claiming")
  /\ \E result \in {"ok", "failed"} : Write(Rt(t), result)
  /\ Goto(t, "publish")
  /\ UNCHANGED <<runtimeVars, historyVars, envVars>>

\* The write ends.  A claim that was not acknowledged ends the handler; it is
\* not in memory, and can be in the file.
Claimed(t) ==
  /\ At(t, "claiming")
  /\ \/ Write(Rt(t), "ok") /\ Goto(t, "publish")
     \/ /\ \E result \in {"cancelled", "failed"} : Write(Rt(t), result)
        /\ Finish(t)
  /\ UNCHANGED <<runtimeVars, historyVars, envVars>>

\* The route of a general group is checked once more.
Publishable(t) == Id(t) \in Rechecked => Id(t) \in routed

\* The history stays finite: of an event that lost its claim to others, equal
\* publications are noted once.
Noted(e, p) ==
  IF e \in evicted /\ \E i \in DOMAIN published[e] : published[e][i] = p
  THEN published[e] ELSE Append(published[e], p)

\* After the media, the membership and the person were looked up, the event is
\* put on the bus.
Publish(t) ==
  /\ At(t, "publish")
  /\ Publishable(t)
  /\ published' = [published EXCEPT ![Id(t)] =
                     Noted(Id(t), [rt |-> Rt(t), claim |-> task[t].since])]
  /\ Finish(t)
  /\ UNCHANGED <<fileVars, runtimeVars, evicted, handed, dropped, lost, envVars>>

\* The group was disabled, removed or bound to another chat meanwhile.
Revoked(t) ==
  /\ At(t, "publish")
  /\ ~Publishable(t)
  /\ lost' = lost \cup {Id(t)}
  /\ Finish(t)
  /\ UNCHANGED <<fileVars, runtimeVars, published, evicted, handed, dropped, envVars>>

\* The handler is cancelled, or a lookup fails, after the claim.
Interrupted(t) ==
  /\ At(t, "publish")
  /\ lost' = lost \cup {Id(t)}
  /\ Finish(t)
  /\ UNCHANGED <<fileVars, runtimeVars, published, evicted, handed, dropped, envVars>>

\* The route is not verified, or the registry was stopped.
Refused(t) ==
  /\ \/ At(t, "verify") /\ Id(t) \notin routed
     \/ (At(t, "remember") \/ At(t, "claim")) /\ Fenced(Rt(t))
  /\ Finish(t)
  /\ UNCHANGED <<fileVars, runtimeVars, historyVars, envVars>>

\* The handler is cancelled, or the proof of its route fails, before its claim.
Abandoned(t) ==
  /\ task[t] # None
  /\ task[t].at \in Before
  /\ Finish(t)
  /\ UNCHANGED <<fileVars, runtimeVars, historyVars, envVars>>
-----------------------------------------------------------------------------
\* A conversation is configured or confirmed, or is so no longer.  (The route of
\* a contact's reaction matters to its delivery alone, which need not happen.)
Reroute(id) ==
  /\ id \in Messages \cup Managed
  /\ routed' = IF id \in routed THEN routed \ {id} ELSE routed \cup {id}
  /\ UNCHANGED <<fileVars, runtimeVars, task, historyVars, born, now, crashes>>

Tick ==
  /\ now < MaxTime
  /\ \A t \in Tasks : task[t] # None => now < task[t].since + HandlingTime
  /\ now' = now + 1
  /\ UNCHANGED <<fileVars, runtimeVars, task, historyVars, routed, born, crashes>>

\* The process dies; a write that was under way is done or not.
Crash ==
  /\ crashes < MaxCrashes
  /\ crashes' = crashes + 1
  /\ disk' \in {disk} \cup {snap[r] : r \in {x \in Runtimes \ volatile : snap[x] # None}}
  /\ mem' = [r \in Runtimes |-> EmptyTables]
  /\ undo' = [r \in Runtimes |-> EmptyTables]
  /\ snap' = [r \in Runtimes |-> None]
  /\ lock' = [r \in Runtimes |-> None]
  /\ phase' = [r \in Runtimes |-> IF phase[r] = "new" THEN "new" ELSE "gone"]
  /\ slotLock' = None
  /\ owner' = None
  /\ task' = [t \in Tasks |-> None]
  /\ UNCHANGED <<stopping, volatile, historyVars, routed, born, now>>
-----------------------------------------------------------------------------
Init ==
  /\ disk = EmptyTables
  /\ mem = [r \in Runtimes |-> EmptyTables]
  /\ undo = [r \in Runtimes |-> EmptyTables]
  /\ snap = [r \in Runtimes |-> None]
  /\ lock = [r \in Runtimes |-> None]
  /\ phase = [r \in Runtimes |-> "new"]
  /\ stopping = {}
  /\ volatile = {}
  /\ slotLock = None
  /\ owner = None
  /\ task = [t \in Tasks |-> None]
  /\ routed = Ids
  /\ born \in [Events -> Times]
  /\ published = [e \in Events |-> <<>>]
  /\ evicted = {}
  /\ handed = [m \in Messages |-> None]
  /\ dropped = {}
  /\ lost = {}
  /\ now = 0
  /\ crashes = 0

StartStep(r) == FencePrevious(r) \/ TakeOver(r) \/ Load(r) \/ LoadFails(r)

TaskStep(t) ==
  \/ Verified(t)
  \/ BeginRemember(t)
  \/ Remembered(t)
  \/ BeginClaim(t)
  \/ Duplicate(t)
  \/ Claimed(t)
  \/ Publish(t)
  \/ Revoked(t)
  \/ Refused(t)

Next ==
  \/ \E r \in Runtimes : EnterSlot(r) \/ StartStep(r) \/ CancelStart(r) \/ Stop(r)
  \/ \E t \in Tasks : TaskStep(t) \/ Abandoned(t) \/ Interrupted(t)
  \/ \E t \in Tasks, r \in Runtimes, e \in Events : Deliver(t, r, e)
  \/ \E t \in Tasks, r \in Runtimes, m \in Messages \ Events : Track(t, r, m)
  \/ \E id \in Ids : Reroute(id)
  \/ Tick
  \/ Crash

Spec == Init /\ [][Next]_vars

-----------------------------------------------------------------------------
Phases == {"new", "slot", "drain", "load", "up", "failed", "gone"}

Bounded(m) ==
  Cardinality(Held(m.msgs)) <= MaxMessages /\ Cardinality(Held(m.evs)) <= MaxEvents

\* Every variable stays in its domain, and the tables within their limits.
TypeOK ==
  /\ Bounded(disk) /\ \A r \in Runtimes : Bounded(mem[r]) /\ Bounded(undo[r])
  /\ disk \in Tables
  /\ mem \in [Runtimes -> Tables]
  /\ undo \in [Runtimes -> Tables]
  /\ snap \in [Runtimes -> Tables \cup {None}]
  /\ lock \in [Runtimes -> Tasks \cup Runtimes \cup {None}]
  /\ phase \in [Runtimes -> Phases]
  /\ stopping \subseteq Runtimes
  /\ volatile \subseteq Runtimes
  /\ slotLock \in Runtimes \cup {None}
  /\ owner \in Runtimes \cup {None}
  /\ task \in [Tasks -> Job \cup {None}]
  /\ routed \subseteq Ids
  /\ born \in [Events -> Times]
  /\ published \in [Events -> Seq([rt : Runtimes, claim : Times])]
  /\ evicted \subseteq Events
  /\ handed \in [Messages -> 0 .. MaxTime + MessageTTL \cup {None}]
  /\ dropped \subseteq Messages
  /\ lost \subseteq Events
  /\ now \in Times
  /\ crashes \in 0 .. MaxCrashes

\* A webhook that is delivered again is suppressed ("atomically suppress a
\* retried webhook within a bounded window"): the age limit of the inbound
\* managers and the lifetime of claims together leave no second publication,
\* over reloads, crashes and failing writes.  Excepted are an event whose claim
\* made room for others, and a runtime without storage.
PublishedOnce ==
  \A e \in Events \ evicted : \A i, j \in DOMAIN published[e] :
    i # j => /\ published[e][i].rt # published[e][j].rt
             /\ {published[e][i].rt, published[e][j].rt} \cap volatile # {}

\* Nothing reaches the bus before the file holds its claim.
ClaimedFirst ==
  \A t \in Tasks : At(t, "publish") /\ Rt(t) \notin volatile /\ Id(t) \notin evicted
    => disk.evs[Id(t)] # None

\* Table f holds x with a time of at least the given one, or it is full of
\* others that are as young (those left out for lack of a route included).
Kept(f, x, time, max, leftOut) ==
  \/ f[x] # None /\ f[x] >= time
  \/ Cardinality({y \in DOMAIN f \ {x} :
                    y \in leftOut \/ (f[y] # None /\ f[y] >= time)}) >= max

Serving(r) == phase[r] = "up" /\ r \notin stopping

\* A serving runtime knows every publication whose claim is not over, but for
\* those that had to make room for younger claims.
ClaimsKept ==
  \A r \in Runtimes, e \in Events : \A i \in DOMAIN published[e] :
    LET p == published[e][i]
    IN /\ Serving(r)
       /\ p.rt = r \/ {p.rt, r} \cap volatile = {}
       /\ now < p.claim + EventTTL
       => Kept(mem[r].evs, e, p.claim, MaxEvents, {})

\* A token that was given to an automation is known to every serving runtime
\* until it expires, but for those that had to make room for younger tokens.
TokensKept ==
  \A r \in Runtimes \ volatile, m \in Messages \ dropped :
    Serving(r) /\ handed[m] # None /\ now < handed[m]
    => Kept(mem[r].msgs, m, handed[m], MaxMessages, dropped)

\* Tokens of writes under way are not hidden.
UsableVariant(r, m) ==
  mem[r].msgs[m] # None /\ mem[r].msgs[m] > now /\ m \in routed

\* resolve_message: the token m is known, its write is not under way, and its
\* conversation still has its route.
Usable(r, m) ==
  /\ mem[r].msgs[m] # None
  /\ mem[r].msgs[m] > now
  /\ m \in routed
  /\ \A t \in Tasks : ~(At(t, "remembering") /\ Rt(t) = r /\ Id(t) = m)

\* "A quote becomes usable only after its write completes": what a runtime
\* resolves survives a crash, but for what had to make room.
UsableIsDurable ==
  \A r \in Runtimes \ volatile, m \in Messages :
    Serving(r) /\ Usable(r, m)
    => Kept(disk.msgs, m, mem[r].msgs[m], MaxMessages, {})

\* An event that a serving runtime would suppress was published, is about to
\* be, or its handler ended between its claim and its publication; a claim that
\* was merely not saved is retried by the next webhook.
NoSilentLoss ==
  \A r \in Runtimes, e \in Events :
    Serving(r) /\ mem[r].evs[e] # None /\ e \notin lost
    => \/ published[e] # <<>>
       \/ \E t \in Tasks : (At(t, "claiming") \/ At(t, "publish")) /\ Id(t) = e

\* Only the owner of the slot writes the file, and a runtime loads it only when
\* no write of another one is left.
OneWriter ==
  /\ \A r \in Runtimes : snap[r] # None => owner = r
  /\ \A r, x \in Runtimes : phase[r] = "load" /\ x # r => lock[x] = None
=============================================================================
