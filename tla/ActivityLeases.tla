----------------------------- MODULE ActivityLeases -----------------------------
(***************************************************************************)
(* ActivityManager (activity.py) of one runtime: exact reads and typing    *)
(* leases.  Every operation holds the manager's one lock from its first    *)
(* check to the end of its last request, so at most one is under way; what *)
(* interleaves with it are timers that fire, routes that change, the fence *)
(* of a stop and the unloading of the entry.  Time is not modelled: a timer*)
(* that is armed can fire.                                                 *)
(***************************************************************************)
EXTENDS Naturals, FiniteSets

CONSTANTS
  Conversations,
  Activities,  \* activity ids
  Bindings,    \* what a route is bound to: account, destination, membership
  MaxIds,      \* MAX_ACTIVITY_IDS
  MaxConvs,    \* MAX_ACTIVITY_CONVERSATIONS
  MaxStarts,   \* bound: typing requests that are submitted
  None         \* no lease, no operation, no route, no conversation

ASSUME ActivityBoundsAssumption == {MaxIds, MaxConvs, MaxStarts} \subseteq Nat

VARIABLES
  current,   \* _current: the lease of each conversation
  history,   \* _history: the activities that were admitted
  armed,     \* the leases whose timer is armed
  fired,     \* the leases whose timer has fired; _expire waits for the lock
  op,        \* the operation that holds the lock
  todo,      \* the leases that async_stop still has to clear
  route,     \* what each conversation is bound to now
  loaded,    \* the entry's state is "loaded"
  stop,      \* whether async_stop was called, works, or is done
  starts,    \* how many typing requests were submitted
  owed,      \* history: conversations that are shown typing, where no cleanup
             \* was tried and none was excused
  lifetimes  \* history: how often each activity became the current one

leaseVars == <<current, history, armed, fired>>
envVars == <<route, loaded, stop>>
vars == <<leaseVars, op, todo, envVars, starts, owed, lifetimes>>
-----------------------------------------------------------------------------
(* The operators named ...Variant are plausible mistakes in the definition    *)
(* that follows them; the specification does not use them.                   *)

Keys == Conversations \X Activities

\* A _Lease; its serial number stands for the identity of the object.
Lease == [conv : Conversations, activity : Activities, binding : Bindings,
          serial : 1 .. MaxStarts]

\* What holds the lock, where it waits, the route it started with, and the
\* lease or the message's binding it is about.
Kinds == {"typing", "paused", "expire", "stop", "read", "probe"}
Waits == {"authorize", "typing", "pausing", "reading", "verify", "offline"}
Operation == [kind : Kinds, at : Waits, conv : Conversations \cup {None},
              activity : Activities \cup {None}, before : Bindings \cup {None},
              bound : Bindings \cup {None}]

ASSUME ActivityNoneAssumption ==
  None \notin Conversations \cup Activities \cup Bindings \cup Lease \cup Operation

At(label) == op # None /\ op.at = label
Kind(k) == op # None /\ op.kind = k
Owned == {c \in Conversations : current[c] # None}
Convs == {k[1] : k \in history}

\* Only the state of the entry fences.
CurrentVariant(kind) == kind = "stop" \/ loaded

\* _require_current: a cleanup of async_stop passes the fence.
Current(kind) == kind = "stop" \/ (stop = "no" /\ loaded)

Cleanups == {"expire", "stop"}

\* async_stop keeps the lock from one lease to the next.
LockFree == op = None /\ stop # "cleaning"
Release == op' = None
-----------------------------------------------------------------------------

\* Everything is forgotten, timers included; nothing is sent.
Disconnect ==
  /\ current' = [c \in Conversations |-> None]
  /\ armed' = {}
  /\ owed' = {}

\* disconnected() of an authenticated session.status.
Disconnected ==
  /\ LockFree
  /\ Disconnect
  /\ UNCHANGED <<history, fired, op, todo, envVars, starts, lifetimes>>

\* capabilities, or a session.status of "WORKING": the backend is verified.
BeginProbe ==
  /\ LockFree
  /\ Current("probe")
  /\ op' = [kind |-> "probe", at |-> "verify", conv |-> None, activity |-> None,
            before |-> None, bound |-> None]
  /\ UNCHANGED <<leaseVars, todo, envVars, starts, owed, lifetimes>>

\* async_set_typing and async_mark_read up to the first request of _authorize.
Begin(kind, c, a, bound) ==
  /\ LockFree
  /\ Current(kind)
  /\ route[c] # None  \* an unknown conversation is refused before any request
  /\ op' = [kind |-> kind, at |-> "authorize", conv |-> c, activity |-> a,
            before |-> route[c], bound |-> bound]
  /\ UNCHANGED <<leaseVars, todo, envVars, starts, owed, lifetimes>>

BeginTyping(c, a) == Begin("typing", c, a, None)
BeginPause(c, a) == Begin("paused", c, a, None)

\* The message was observed on the given route.
BeginRead(c, binding) == Begin("read", c, None, binding)

\* A timer fires, and its callback becomes a task that waits for the lock.
Fire(l) ==
  /\ l \in armed
  /\ armed' = armed \ {l}
  /\ fired' = fired \cup {l}
  /\ UNCHANGED <<current, history, op, todo, envVars, starts, owed, lifetimes>>

\* What _clear does once the lease is no longer owned: the last one takes the
\* presence of the session along, after a verification.
AfterClear(owned) ==
  IF owned = {}
  THEN op' = [op EXCEPT !.at = "verify"]
  ELSE Release

\* Any owned lease is cleared.
BeginExpireVariant(l) ==
  /\ LockFree
  /\ l \in fired
  /\ fired' = fired \ {l}
  /\ IF current[l.conv] # None
     THEN op' = [kind |-> "expire", at |-> "authorize", conv |-> l.conv,
                 activity |-> l.activity, before |-> route[l.conv], bound |-> None]
     ELSE UNCHANGED op
  /\ UNCHANGED <<current, history, armed, todo, envVars, starts, owed, lifetimes>>

\* _expire has the lock and its lease is still owned.
BeginExpire(l) ==
  /\ LockFree
  /\ l \in fired
  /\ fired' = fired \ {l}
  /\ IF current[l.conv] = l
     THEN op' = [kind |-> "expire", at |-> "authorize", conv |-> l.conv,
                 activity |-> l.activity, before |-> route[l.conv], bound |-> None]
     ELSE UNCHANGED op
  /\ UNCHANGED <<current, history, armed, todo, envVars, starts, owed, lifetimes>>

\* async_stop has the lock, or is done with a lease, and takes the next one.
NextCleanup ==
  /\ op = None
  /\ stop = "cleaning"
  /\ \E c \in todo :
       /\ todo' = todo \ {c}
       /\ IF current[c] # None
          THEN op' = [kind |-> "stop", at |-> "authorize", conv |-> c,
                      activity |-> None, before |-> route[c], bound |-> None]
          ELSE UNCHANGED op
  /\ UNCHANGED <<leaseVars, envVars, starts, owed, lifetimes>>

\* async_stop: the fence at once, the lock later.
CallStop ==
  /\ stop = "no"
  /\ stop' = "called"
  /\ UNCHANGED <<leaseVars, op, todo, route, loaded, starts, owed, lifetimes>>

BeginStop ==
  /\ LockFree
  /\ stop = "called"
  /\ stop' = "cleaning"
  /\ todo' = Owned
  /\ UNCHANGED <<leaseVars, op, route, loaded, starts, owed, lifetimes>>

EndStop ==
  /\ op = None
  /\ stop = "cleaning"
  /\ todo = {}
  /\ stop' = "done"
  /\ UNCHANGED <<leaseVars, op, todo, route, loaded, starts, owed, lifetimes>>

\* The entry leaves the state "loaded" before async_stop is called.
Unload ==
  /\ loaded
  /\ loaded' = FALSE
  /\ UNCHANGED <<leaseVars, op, todo, route, stop, starts, owed, lifetimes>>

\* A contact is edited, a member comes or goes: no lock is needed for it.
Reroute(c, binding) ==
  /\ route[c] # binding
  /\ route' = [route EXCEPT ![c] = binding]
  /\ UNCHANGED <<leaseVars, op, todo, loaded, stop, starts, owed, lifetimes>>
-----------------------------------------------------------------------------
\* The route is read once, before the checks.
AuthorizedVariant ==
  /\ At("authorize")
  /\ Current(op.kind)

\* The end of _authorize: all checks passed, and nothing moved meanwhile.
Authorized ==
  /\ At("authorize")
  /\ Current(op.kind)
  /\ route[op.conv] = op.before

\* The lease of a conversation is popped and its timer cancelled.
Pop(c) ==
  /\ current' = [current EXCEPT ![c] = None]
  /\ armed' = armed \ {current[c]}

\* An operation ends without its request.  A cleanup gives its lease up.
GiveUp ==
  /\ IF op.kind \in Cleanups
     THEN Pop(op.conv) /\ AfterClear(Owned \ {op.conv})
     ELSE Release /\ UNCHANGED <<current, armed>>
  /\ UNCHANGED <<history, fired, todo, envVars, starts, lifetimes>>

\* A check fails, of the backend, the roster, the principal or the route.  A
\* cleanup that was refused for it is excused.
Unverified ==
  /\ At("authorize")
  /\ GiveUp
  /\ owed' = IF op.kind \in Cleanups THEN owed \ {op.conv} ELSE owed

\* The session is not the connected one: everything is forgotten.
Gone ==
  /\ At("authorize")
  /\ Disconnect
  /\ IF op.kind \in Cleanups THEN AfterClear({}) ELSE Release
  /\ UNCHANGED <<history, fired, todo, envVars, starts, lifetimes>>

\* A stop or an unload came while the checks ran.
Refused ==
  /\ At("authorize")
  /\ ~Current(op.kind)
  /\ GiveUp
  /\ UNCHANGED owed
-----------------------------------------------------------------------------
\* Only the identities are counted.
FullVariant(c, a) == <<c, a>> \notin history /\ Cardinality(history) >= MaxIds

\* _admit_identity: identities are never forgotten, so there is no room for more.
Full(c, a) ==
  \/ <<c, a>> \notin history /\ Cardinality(history) >= MaxIds
  \/ c \notin Convs /\ Cardinality(Convs) >= MaxConvs

Admit(c, a) == history' = IF Full(c, a) THEN history ELSE history \cup {<<c, a>>}

Owns(c, a) == current[c] # None /\ current[c].activity = a

\* Only an activity that is displaced by another one is retired.
RetiredVariant(c, a) == <<c, a>> \in history /\ current[c] # None /\ ~Owns(c, a)

\* The activity was replaced, cleared or paused before: it stays retired.
Retired(c, a) == <<c, a>> \in history /\ ~Owns(c, a)

Serial == starts + 1

\* The lease and its timer are in place before the request is submitted.
Install(c, a, binding) ==
  LET lease == [conv |-> c, activity |-> a, binding |-> binding, serial |-> Serial]
  IN /\ current' = [current EXCEPT ![c] = lease]
     /\ armed' = (armed \ {current[c]}) \cup {lease}

\* set_typing(composing): a new lease displaces the one the conversation has.
StartTyping ==
  LET c == op.conv
      a == op.activity
  IN /\ Authorized
     /\ op.kind = "typing"
     /\ ~Retired(c, a)
     /\ ~Full(c, a)
     /\ current[c] # None => current[c].binding = op.before
     /\ starts < MaxStarts
     /\ starts' = Serial
     /\ history' = history \cup {<<c, a>>}
     /\ Install(c, a, op.before)
     /\ op' = [op EXCEPT !.at = "typing"]
     /\ owed' = owed \cup {c}
     /\ lifetimes' = IF Owns(c, a) THEN lifetimes
                     ELSE [lifetimes EXCEPT ![<<c, a>>] = @ + 1]
     /\ UNCHANGED <<fired, todo, envVars>>

\* A retired activity, no room, or a lease of another route.
RefuseTyping ==
  LET c == op.conv
      a == op.activity
  IN /\ Authorized
     /\ op.kind = "typing"
     /\ \/ Retired(c, a) /\ UNCHANGED history
        \/ /\ ~Retired(c, a)
           /\ Full(c, a) \/ (current[c] # None /\ current[c].binding # op.before)
           /\ Admit(c, a)
     /\ Release
     /\ UNCHANGED <<current, armed, fired, todo, envVars, starts, owed, lifetimes>>

\* set_typing(paused): the caller's own activity is current on this route.
PauseNow ==
  /\ Authorized
  /\ op.kind = "paused"
  /\ Owns(op.conv, op.activity)
  /\ current[op.conv].binding = op.before
  /\ op' = [op EXCEPT !.at = "pausing"]
  /\ owed' = owed \ {op.conv}
  /\ UNCHANGED <<leaseVars, todo, envVars, starts, lifetimes>>

\* It is not current, and from now on retired; or it is, on another route.
RefusePause ==
  LET c == op.conv
      a == op.activity
  IN /\ Authorized
     /\ op.kind = "paused"
     /\ \/ ~Owns(c, a) /\ Admit(c, a)
        \/ /\ Owns(c, a)
           /\ current[c].binding # op.before
           /\ UNCHANGED history
     /\ Release
     /\ UNCHANGED <<current, armed, fired, todo, envVars, starts, owed, lifetimes>>

\* _clear of an expiry or a stop.  A lease of another route is only dropped.
ClearNow ==
  /\ Authorized
  /\ op.kind \in Cleanups
  /\ IF current[op.conv].binding = op.before
     THEN /\ op' = [op EXCEPT !.at = "pausing"]
          /\ UNCHANGED <<current, armed>>
     ELSE Pop(op.conv) /\ AfterClear(Owned \ {op.conv})
  /\ owed' = owed \ {op.conv}
  /\ UNCHANGED <<history, fired, todo, envVars, starts, lifetimes>>

\* mark_read: the message was observed on the route that is authorized now.
ReadNow ==
  /\ Authorized
  /\ op.kind = "read"
  /\ IF op.bound = op.before THEN op' = [op EXCEPT !.at = "reading"] ELSE Release
  /\ UNCHANGED <<leaseVars, todo, envVars, starts, owed, lifetimes>>
-----------------------------------------------------------------------------
\* A typing or a read request ends, whatever its outcome; a caller may also be
\* cancelled in it.
Submitted ==
  /\ At("typing") \/ At("reading")
  /\ Release
  /\ UNCHANGED <<leaseVars, todo, envVars, starts, owed, lifetimes>>

\* The request for "paused" ends, and the lease with it.
Paused ==
  /\ At("pausing")
  /\ Pop(op.conv)
  /\ AfterClear(Owned \ {op.conv})
  /\ UNCHANGED <<history, fired, todo, envVars, starts, owed, lifetimes>>

\* The timer is cancelled on every way out.
PauseCancelledVariant ==
  /\ At("pausing")
  /\ op.kind = "paused"
  /\ Release
  /\ armed' = armed \ {current[op.conv]}
  /\ UNCHANGED <<current, history, fired, todo, envVars, starts, owed, lifetimes>>

\* The caller of a pause is cancelled: lease and timer stay.
PauseCancelled ==
  /\ At("pausing")
  /\ op.kind = "paused"
  /\ Release
  /\ UNCHANGED <<leaseVars, todo, envVars, starts, owed, lifetimes>>

\* The last verification of a clearing operation, or the one of a probe.
VerifiedOffline ==
  /\ At("verify")
  /\ op.kind # "probe"
  /\ Current(op.kind)
  /\ op' = [op EXCEPT !.at = "offline"]
  /\ UNCHANGED <<leaseVars, todo, envVars, starts, owed, lifetimes>>

EndVerify ==
  /\ At("verify")
  /\ Release
  /\ Disconnect \/ UNCHANGED <<current, armed, owed>>
  /\ UNCHANGED <<history, fired, todo, envVars, starts, lifetimes>>

OfflineSent ==
  /\ At("offline")
  /\ Release
  /\ UNCHANGED <<leaseVars, todo, envVars, starts, owed, lifetimes>>
-----------------------------------------------------------------------------
Init ==
  /\ current = [c \in Conversations |-> None]
  /\ history = {}
  /\ armed = {}
  /\ fired = {}
  /\ op = None
  /\ todo = {}
  /\ route \in [Conversations -> Bindings]
  /\ loaded = TRUE
  /\ stop = "no"
  /\ starts = 0
  /\ owed = {}
  /\ lifetimes = [k \in Keys |-> 0]

\* What the operation that holds the lock does next.
OpStep ==
  \/ Unverified \/ Gone \/ Refused
  \/ StartTyping \/ RefuseTyping
  \/ PauseNow \/ RefusePause \/ ClearNow \/ ReadNow
  \/ Submitted \/ Paused \/ PauseCancelled
  \/ VerifiedOffline \/ EndVerify \/ OfflineSent
  \/ NextCleanup \/ EndStop

Call ==
  \/ \E c \in Conversations, a \in Activities : BeginTyping(c, a) \/ BeginPause(c, a)
  \/ \E c \in Conversations, b \in Bindings : BeginRead(c, b)
  \/ BeginProbe
  \/ Disconnected

Timer == \E l \in armed : Fire(l)
Expiry == \E l \in fired : BeginExpire(l)

Environment ==
  \/ CallStop
  \/ Unload
  \/ \E c \in Conversations, b \in Bindings \cup {None} : Reroute(c, b)

Next == OpStep \/ Call \/ Timer \/ Expiry \/ BeginStop \/ Environment

Spec == Init /\ [][Next]_vars

\* Requests and checks end, armed timers fire, and the lock is first come,
\* first served: who waits for it gets it.  (A lease is timed and expires once,
\* and there are MaxStarts of them, so that none can be passed over for good.)
Fairness == WF_vars(OpStep) /\ WF_vars(Timer) /\ SF_vars(Expiry) /\ SF_vars(BeginStop)

FairSpec == Spec /\ Fairness
-----------------------------------------------------------------------------
(* The type invariant.  The tables of identities are bounded: MAX_ACTIVITY_IDS *)
(* and MAX_ACTIVITY_CONVERSATIONS (activity.py:18-19).                         *)
TypeOK ==
  /\ current \in [Conversations -> Lease \cup {None}]
  /\ \A c \in Owned : current[c].conv = c
  /\ history \subseteq Keys
  /\ Cardinality(history) <= MaxIds
  /\ Cardinality(Convs) <= MaxConvs
  /\ armed \subseteq Lease
  /\ fired \subseteq Lease
  /\ op \in Operation \cup {None}
  /\ op # None /\ op.at # "verify" /\ op.at # "offline" => op.conv # None
  /\ todo \subseteq Conversations
  /\ route \in [Conversations -> Bindings \cup {None}]
  /\ loaded \in BOOLEAN
  /\ stop \in {"no", "called", "cleaning", "done"}
  /\ starts \in 0 .. MaxStarts
  /\ owed \subseteq Conversations
  /\ lifetimes \in [Keys -> Nat]

\* An activity that was displaced, paused, expired or disconnected is never
\* current again, however late its next refresh arrives (activity.py:496-500).
NoRevival == \A k \in Keys : lifetimes[k] <= 1

\* A timer whose lease was displaced while it fired does not clear the lease
\* that displaced it (activity.py:508-514).
ExpiryOwnLease ==
  [][Kind("expire") /\ current[op.conv] # None /\ current'[op.conv] = None
       => current[op.conv] \notin armed]_vars

\* A request for typing, paused or read goes to what the conversation is bound
\* to when it is submitted, however the route moved during the checks
\* (activity.py:396-401, 487-490, 556-562).
EffectsOnOwnRoute ==
  [][At("authorize") /\ op' # None
       => /\ op'.at \in {"typing", "pausing"} => current'[op.conv].binding = route[op.conv]
          /\ op'.at = "reading" => op.bound = route[op.conv]]_vars

\* After async_stop nothing is typing, no timer is left, and no request comes
\* (activity.py:583-589).
QuietAfterStop == stop = "done" => Owned = {} /\ armed = {} /\ op = None

\* Every lease ends: refreshes make new ones, and none outlives its timer for
\* good (activity.py:508-518).
LeasesEnd ==
  \A c \in Conversations, s \in 1 .. MaxStarts :
    (current[c] # None /\ current[c].serial = s)
      ~> (current[c] = None \/ current[c].serial # s)

\* What docs/ACTIVITY_API.md:158-161 promises: a lease-expiry cleanup sends
\* "paused" while its route verifies, and an unload or shutdown attempts the
\* same.  Here a conversation that was shown typing is left so without a try.
CleanedAtStop == stop = "done" => owed = {}
=============================================================================
