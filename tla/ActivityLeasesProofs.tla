-------------------------- MODULE ActivityLeasesProofs --------------------------
(***************************************************************************)
(* Proofs about ActivityLeases, for any conversations, activities, routes  *)
(* and bounds: the tables are bounded, what was retired stays retired, an  *)
(* expiry clears its own lease only, a request goes to its own route, and  *)
(* after a stop there is nothing left.                                     *)
(***************************************************************************)
EXTENDS ActivityLeases, FiniteSetTheorems, TLAPS

\* TypeOK but for the sizes of the tables.
ShapeInv ==
  /\ current \in [Conversations -> Lease \cup {None}]
  /\ \A c \in Owned : current[c].conv = c
  /\ history \subseteq Keys
  /\ armed \subseteq Lease
  /\ fired \subseteq Lease
  /\ op \in Operation \cup {None}
  /\ op # None /\ op.at # "verify" /\ op.at # "offline" => op.conv # None
  /\ todo \subseteq Conversations
  /\ route \in [Conversations -> Bindings \cup {None}]
  /\ loaded \in BOOLEAN
  /\ stop \in {"no", "called", "cleaning", "done"}
  /\ starts \in 0 .. MaxStarts
  /\ owed \subseteq Conversations
  /\ lifetimes \in [Keys -> Nat]

\* What is admitted is finite, and within the bounds.
SizeInv ==
  /\ IsFiniteSet(history) /\ Cardinality(history) <= MaxIds
  /\ IsFiniteSet(Convs) /\ Cardinality(Convs) <= MaxConvs

\* An operation of each kind: where it waits, and what it needs there.
KindInv ==
  op # None =>
    /\ op.at = "authorize" /\ op.kind \in {"typing", "paused"}
         => op.activity \in Activities /\ op.before \in Bindings
    /\ op.at = "authorize" => op.kind # "probe"
    /\ op.at = "typing" => op.kind = "typing"
    /\ op.at = "reading" => op.kind = "read"
    /\ op.at = "pausing" => op.kind \in Cleanups \cup {"paused"}
    /\ op.at = "pausing" \/ (op.at = "authorize" /\ op.kind \in Cleanups)
         => current[op.conv] # None

\* Each armed timer is that of a current lease, and fires once; the lease that
\* an expiry is about to clear has no timer any more.
TimerInv ==
  /\ \A l \in armed : current[l.conv] = l
  /\ armed \cap fired = {}
  /\ \A l \in armed \cup fired : l.serial <= starts
  /\ Kind("expire") => op.conv \in Conversations /\ current[op.conv] \notin armed

\* async_stop: a lease that is left is still to be cleared, or is being cleared.
StopInv ==
  /\ Kind("stop") => stop = "cleaning"
  /\ stop = "cleaning" =>
       /\ op # None => op.kind = "stop"
       /\ \A c \in Owned : c \in todo \/ ((At("authorize") \/ At("pausing")) /\ op.conv = c)
  /\ stop = "done" => Owned = {} /\ op = None

\* What became current was admitted, and was not admitted before.
LifeInv ==
  \A k \in Keys : /\ lifetimes[k] <= 1
                  /\ lifetimes[k] > 0 => k \in history

IInv == ShapeInv /\ SizeInv /\ KindInv /\ TimerInv /\ StopInv /\ LifeInv
-----------------------------------------------------------------------------
\* What the fields of an operation are.
LEMMA OpFacts ==
  ASSUME ShapeInv, op # None
  PROVE  /\ op.kind \in Kinds /\ op.at \in Waits
         /\ op.before \in Bindings \cup {None}
         /\ op.at \notin {"verify", "offline"} => op.conv \in Conversations
         /\ \A w \in Waits : LET next == [op EXCEPT !.at = w]
                            IN  /\ next \in Operation /\ next # None
                                /\ next.at = w /\ next.kind = op.kind
                                /\ next.conv = op.conv /\ next.activity = op.activity
                                /\ next.before = op.before
  BY ActivityNoneAssumption DEF ShapeInv, Operation

\* One more element, where there is room for it.
LEMMA OneMore ==
  ASSUME NEW S, NEW x, NEW n \in Nat, IsFiniteSet(S), Cardinality(S) <= n,
         x \in S \/ ~(Cardinality(S) >= n)
  PROVE  IsFiniteSet(S \cup {x}) /\ Cardinality(S \cup {x}) <= n
  <1>1. Cardinality(S) \in Nat
    BY FS_CardinalityType
  <1>2. /\ IsFiniteSet(S \cup {x})
        /\ Cardinality(S \cup {x}) = IF x \in S THEN Cardinality(S) ELSE Cardinality(S) + 1
    BY FS_AddElement
  <1>. QED
    BY <1>1, <1>2

\* An identity that there is room for keeps the tables within their bounds.
LEMMA AdmitSizes ==
  ASSUME SizeInv, NEW c \in Conversations, NEW a \in Activities, ~Full(c, a),
         history' = history \cup {<<c, a>>}
  PROVE  SizeInv'
  <1>1. Convs' = Convs \cup {c}
    <2>1. <<c, a>>[1] = c
      OBVIOUS
    <2>. QED
      BY <2>1, Zenon DEF Convs
  <1>2. MaxIds \in Nat /\ MaxConvs \in Nat
    BY ActivityBoundsAssumption
  <1>3. IsFiniteSet(history') /\ Cardinality(history') <= MaxIds
    BY <1>2, OneMore DEF SizeInv, Full
  <1>4. IsFiniteSet(Convs') /\ Cardinality(Convs') <= MaxConvs
    <2>1. c \in Convs \/ ~(Cardinality(Convs) >= MaxConvs)
      BY DEF Full
    <2>. QED
      BY <1>1, <1>2, <2>1, OneMore DEF SizeInv
  <1>. QED
    BY <1>3, <1>4 DEF SizeInv

\* The steps of the operation that holds the lock, without those that start or
\* end leases: what they do to the operation.
Moves ==
  \/ RefuseTyping \/ PauseNow \/ RefusePause \/ ReadNow
  \/ Submitted \/ PauseCancelled \/ VerifiedOffline \/ OfflineSent
  \/ ClearNow /\ UNCHANGED current
  \/ EndVerify /\ UNCHANGED current
  \/ (Unverified \/ Refused) /\ op.kind \notin Cleanups

\* Such a step leaves the leases alone, and admits at most what there is room for.
LEMMA MovesFacts ==
  ASSUME IInv, Moves
  PROVE  /\ op # None
         /\ UNCHANGED <<current, armed, fired, todo, envVars, starts, lifetimes>>
         /\ owed' \subseteq owed
         /\ \/ history' = history
            \/ /\ op.conv \in Conversations /\ op.activity \in Activities
               /\ ~Full(op.conv, op.activity)
               /\ history' = history \cup {<<op.conv, op.activity>>}
         /\ \/ op' = None
            \/ op.at = "verify" /\ op' = [op EXCEPT !.at = "offline"]
            \/ op.at = "authorize" /\ op.kind = "read" /\ op' = [op EXCEPT !.at = "reading"]
            \/ /\ op.at = "authorize" /\ op' = [op EXCEPT !.at = "pausing"]
               /\ op.kind \in Cleanups \cup {"paused"}
               /\ current[op.conv] # None
         /\ Kind("stop") => op' # None \/ op.at \in {"verify", "offline"}
  <1> USE ActivityNoneAssumption DEF IInv, leaseVars, envVars, At, Authorized, Release
  <1>0. op # None
    BY DEF Moves, RefuseTyping, PauseNow, RefusePause, ReadNow, Submitted, PauseCancelled,
       VerifiedOffline, OfflineSent, ClearNow, EndVerify, Unverified, Refused
  <1>1. op.at = "authorize" => op.conv \in Conversations
    BY <1>0, OpFacts
  <1>2. ASSUME op.at = "authorize", op.kind \in {"typing", "paused"},
               Admit(op.conv, op.activity) \/ UNCHANGED history
        PROVE  \/ history' = history
               \/ /\ op.conv \in Conversations /\ op.activity \in Activities
                  /\ ~Full(op.conv, op.activity)
                  /\ history' = history \cup {<<op.conv, op.activity>>}
    BY <1>0, <1>1, <1>2 DEF Admit, KindInv
  <1>3. CASE RefuseTyping
    BY <1>0, <1>2, <1>3 DEF RefuseTyping, Kind
  <1>4. CASE PauseNow
    BY <1>0, <1>4 DEF PauseNow, Owns, Kind
  <1>5. CASE RefusePause
    BY <1>0, <1>2, <1>5 DEF RefusePause, Kind
  <1>6. CASE ReadNow
    BY <1>0, <1>6 DEF ReadNow, Kind
  <1>7. CASE Submitted \/ PauseCancelled \/ VerifiedOffline \/ OfflineSent
    BY <1>0, <1>7 DEF Submitted, PauseCancelled, VerifiedOffline, OfflineSent, Kind, KindInv,
       Cleanups
  <1>8. CASE ClearNow /\ UNCHANGED current
    <2>1. current[op.conv] # None /\ op.kind \in Cleanups /\ op.at = "authorize"
      BY <1>0, <1>8 DEF ClearNow, KindInv
    <2>2. ~Pop(op.conv)
      BY <1>1, <1>8, <2>1 DEF Pop, ShapeInv
    <2>3. [op EXCEPT !.at = "pausing"] # None
      BY <1>0, OpFacts DEF Waits
    <2>. QED
      BY <1>0, <1>8, <2>1, <2>2, <2>3 DEF ClearNow, Kind
  <1>9. CASE EndVerify /\ UNCHANGED current
    <2>1. armed' = armed
      <3>1. Disconnect => armed = {} /\ armed' = {}
        BY <1>9 DEF Disconnect, TimerInv, ShapeInv, Lease
      <3>. QED
        BY <1>9, <3>1 DEF EndVerify
    <2>2. owed' \subseteq owed
      BY <1>9 DEF EndVerify, Disconnect
    <2>. QED
      BY <1>0, <1>9, <2>1, <2>2 DEF EndVerify, Kind
  <1>10. CASE (Unverified \/ Refused) /\ op.kind \notin Cleanups
    BY <1>0, <1>10 DEF Unverified, Refused, GiveUp, Kind, Cleanups
  <1>. QED
    BY <1>3, <1>4, <1>5, <1>6, <1>7, <1>8, <1>9, <1>10 DEF Moves

\* What such a step does to the operation fits what it was.
LEMMA MovesKeep == IInv /\ Moves => IInv'
  <1> SUFFICES ASSUME IInv, Moves
               PROVE  IInv'
    OBVIOUS
  <1> USE ActivityNoneAssumption, ActivityBoundsAssumption
  <1>1. op' = None \/ /\ op' \in Operation /\ op'.kind = op.kind /\ op'.conv = op.conv
                      /\ op'.activity = op.activity
                      /\ op'.at \in {"offline", "reading", "pausing"}
                      /\ op.at = IF op'.at = "offline" THEN "verify" ELSE "authorize"
                      /\ op'.at = "pausing" => /\ op.kind \in Cleanups \cup {"paused"}
                                               /\ current[op.conv] # None
                      /\ op'.at = "reading" => op.kind = "read"
    <2>1. op # None /\ op \in Operation
      BY MovesFacts DEF IInv, ShapeInv
    <2>2. ASSUME NEW w \in Waits, op' = [op EXCEPT !.at = w]
          PROVE  /\ op' \in Operation /\ op'.kind = op.kind /\ op'.conv = op.conv
                 /\ op'.activity = op.activity /\ op'.at = w
      BY <2>1, <2>2 DEF Operation
    <2>. QED
      BY <2>2, MovesFacts DEF Waits
  <1>2. ShapeInv'
    BY <1>1, MovesFacts, OpFacts DEF IInv, ShapeInv, Owned, Keys, envVars
  <1>3. SizeInv'
    <2>1. history' = history => SizeInv'
      BY DEF IInv, SizeInv, Convs
    <2>. QED
      BY <2>1, MovesFacts, AdmitSizes DEF IInv
  <1>4. KindInv'
    BY <1>1, MovesFacts DEF IInv, KindInv, Cleanups
  <1>5. TimerInv'
    BY <1>1, MovesFacts DEF IInv, TimerInv, Kind
  <1>6. StopInv'
    BY <1>1, MovesFacts DEF IInv, StopInv, Kind, At, Owned, envVars
  <1>7. LifeInv'
    BY MovesFacts DEF IInv, LifeInv
  <1>. QED
    BY <1>2, <1>3, <1>4, <1>5, <1>6, <1>7 DEF IInv

\* The steps that give up the lease of the operation.
Clears ==
  \/ (Unverified \/ Refused) /\ op.kind \in Cleanups
  \/ Paused
  \/ ClearNow /\ ~UNCHANGED current

\* Such a step takes the lease of the operation, and the operation ends or verifies.
LEMMA ClearsFacts ==
  ASSUME IInv, Clears
  PROVE  /\ op # None /\ op.at \in {"authorize", "pausing"} /\ op.conv \in Conversations
         /\ Pop(op.conv)
         /\ op' = None \/ (Owned' = {} /\ op' = [op EXCEPT !.at = "verify"])
         /\ UNCHANGED <<history, fired, todo, envVars, starts, lifetimes>>
         /\ owed' \subseteq owed
  <1>1. /\ op # None /\ op.at \in {"authorize", "pausing"}
        /\ Pop(op.conv) /\ AfterClear(Owned \ {op.conv})
        /\ UNCHANGED <<history, fired, todo, envVars, starts, lifetimes>>
        /\ owed' \subseteq owed
    BY DEF Clears, Unverified, Refused, Paused, ClearNow, Authorized, At, GiveUp
  <1>2. op.conv \in Conversations
    BY <1>1, OpFacts DEF IInv
  <1>3. Owned' = Owned \ {op.conv}
    BY <1>1, <1>2 DEF Pop, Owned, IInv, ShapeInv
  <1>. QED
    BY <1>1, <1>2, <1>3 DEF AfterClear, Release

\* A lease goes, and its timer with it.
LEMMA ClearsKeep == IInv /\ Clears => IInv'
  <1> SUFFICES ASSUME IInv, Clears
               PROVE  IInv'
    OBVIOUS
  <1> USE ActivityNoneAssumption
  <1>1. op' = None \/ /\ op' \in Operation /\ op'.kind = op.kind /\ op'.conv = op.conv
                      /\ op'.activity = op.activity
                      /\ op'.at = "verify" /\ Owned' = {}
    BY ClearsFacts, OpFacts DEF IInv, Waits
  <1>2. /\ op # None /\ op.conv \in Conversations
        /\ current' = [current EXCEPT ![op.conv] = None]
        /\ armed' = armed \ {current[op.conv]}
        /\ current \in [Conversations -> Lease \cup {None}]
        /\ UNCHANGED <<history, fired, todo, route, loaded, stop, starts, lifetimes>>
        /\ owed' \subseteq owed
    BY ClearsFacts DEF Pop, IInv, ShapeInv, envVars
  <1>3. ShapeInv'
    BY <1>1, <1>2 DEF IInv, ShapeInv, Owned
  <1>4. SizeInv'
    BY <1>2 DEF IInv, SizeInv, Convs
  <1>5. KindInv'
    BY <1>1 DEF IInv, KindInv
  <1>6. TimerInv'
    <2>1. \A l \in armed' : current'[l.conv] = l
      BY <1>2 DEF IInv, TimerInv, ShapeInv, Lease
    <2>2. Kind("expire")' => op'.conv \in Conversations /\ current'[op'.conv] \notin armed'
      BY <1>1, <1>2 DEF IInv, ShapeInv, Kind
    <2>. QED
      BY <1>2, <2>1, <2>2 DEF IInv, TimerInv
  <1>7. StopInv'
    <2>1. \A c \in Owned' : c \in Owned /\ c # op.conv
      BY <1>2 DEF Owned
    <2>. QED
      BY <1>1, <1>2, <2>1 DEF IInv, StopInv, Kind, At
  <1>8. LifeInv'
    BY <1>2 DEF IInv, LifeInv
  <1>. QED
    BY <1>3, <1>4, <1>5, <1>6, <1>7, <1>8 DEF IInv

\* The steps that forget all leases.
Drops == Disconnected \/ Gone \/ (EndVerify /\ Disconnect)

\* No lease is left, and no timer.
LEMMA DropsKeep == IInv /\ Drops => IInv'
  <1> SUFFICES ASSUME IInv, Drops
               PROVE  IInv'
    OBVIOUS
  <1> USE ActivityNoneAssumption
  <1>1. /\ op' = None \/ (op # None /\ op' = [op EXCEPT !.at = "verify"])
        /\ current' = [c \in Conversations |-> None] /\ armed' = {} /\ owed' = {}
        /\ UNCHANGED <<history, fired, todo, route, loaded, stop, starts, lifetimes>>
    BY DEF Drops, Disconnected, LockFree, Gone, At, EndVerify, Disconnect, AfterClear,
       Release, envVars
  <1>2. op' = None \/ /\ op # None /\ op' \in Operation /\ op'.kind = op.kind
                      /\ op'.at = "verify" /\ op'.conv = op.conv
    BY <1>1, OpFacts DEF IInv, Waits
  <1>3. Owned' = {}
    BY <1>1 DEF Owned
  <1>4. ShapeInv'
    BY <1>1, <1>2, <1>3 DEF IInv, ShapeInv
  <1>5. SizeInv'
    BY <1>1 DEF IInv, SizeInv, Convs
  <1>6. KindInv'
    BY <1>2 DEF IInv, KindInv
  <1>7. TimerInv'
    BY <1>1, <1>2 DEF IInv, TimerInv, Kind
  <1>8. StopInv'
    BY <1>1, <1>2, <1>3 DEF IInv, StopInv, Kind
  <1>9. LifeInv'
    BY <1>1 DEF IInv, LifeInv
  <1>. QED
    BY <1>4, <1>5, <1>6, <1>7, <1>8, <1>9 DEF IInv

\* A new lease: its serial number is that of no earlier one.
LEMMA StartKeeps == IInv /\ StartTyping => IInv'
  <1> SUFFICES ASSUME IInv, StartTyping
               PROVE  IInv'
    OBVIOUS
  <1> USE ActivityNoneAssumption, ActivityBoundsAssumption
  <1> DEFINE c == op.conv
             a == op.activity
             lease == [conv |-> c, activity |-> a, binding |-> op.before,
                       serial |-> starts + 1]
  <1>1. /\ op # None /\ op.at = "authorize" /\ op.kind = "typing" /\ stop = "no"
        /\ route[c] = op.before
        /\ ~Retired(c, a) /\ ~Full(c, a)
        /\ starts < MaxStarts /\ starts' = starts + 1
        /\ history' = history \cup {<<c, a>>}
        /\ current' = [current EXCEPT ![c] = lease]
        /\ armed' = (armed \ {current[c]}) \cup {lease}
        /\ op' = [op EXCEPT !.at = "typing"]
        /\ owed' = owed \cup {c}
        /\ lifetimes' = IF Owns(c, a) THEN lifetimes
                        ELSE [lifetimes EXCEPT ![<<c, a>>] = @ + 1]
        /\ UNCHANGED <<fired, todo, route, loaded, stop>>
    BY DEF StartTyping, Authorized, At, Current, Install, Serial, envVars
  <1>2. c \in Conversations /\ a \in Activities
    BY <1>1, OpFacts DEF IInv, KindInv
  <1>3. starts \in Nat /\ starts' \in 1 .. MaxStarts
    BY <1>1 DEF IInv, ShapeInv
  <1>4. lease \in Lease
    BY <1>1, <1>2, <1>3 DEF IInv, KindInv, Lease
  <1>5. /\ op' \in Operation /\ op' # None /\ op'.kind = "typing" /\ op'.at = "typing"
        /\ op'.conv = c
    BY <1>1, OpFacts DEF IInv, Waits
  <1>6. <<c, a>> \in Keys
    BY <1>2 DEF Keys
  <1>7. ShapeInv'
    BY <1>1, <1>2, <1>3, <1>4, <1>5, <1>6 DEF IInv, ShapeInv, Owned, Lease
  <1>8. SizeInv'
    BY <1>1, <1>2, AdmitSizes DEF IInv
  <1>9. KindInv'
    BY <1>5 DEF IInv, KindInv
  <1>10. TimerInv'
    <2>1. lease \notin fired /\ lease.serial = starts'
      BY <1>1, <1>3 DEF IInv, TimerInv
    <2>2. \A l \in armed' : current'[l.conv] = l
      BY <1>1, <1>2, <1>4 DEF IInv, TimerInv, ShapeInv, Lease
    <2>3. \A l \in armed' \cup fired' : l.serial <= starts'
      <3>1. \A l \in armed \cup fired : l.serial \in Nat /\ l.serial <= starts
        BY DEF IInv, TimerInv, ShapeInv, Lease
      <3>. QED
        BY <1>1, <1>3, <2>1, <3>1
    <2>. QED
      BY <1>1, <1>5, <2>1, <2>2, <2>3 DEF IInv, TimerInv, Kind
  <1>11. StopInv'
    BY <1>1, <1>5 DEF IInv, StopInv, Kind
  <1>12. LifeInv'
    <2>1. ~Owns(c, a) => <<c, a>> \notin history
      BY <1>1 DEF Retired
    <2>2. lifetimes \in [Keys -> Nat] /\ \A k \in Keys : lifetimes[k] \in Nat
      BY DEF IInv, ShapeInv
    <2>. QED
      BY <1>1, <1>6, <2>1, <2>2 DEF IInv, LifeInv
  <1>. QED
    BY <1>7, <1>8, <1>9, <1>10, <1>11, <1>12 DEF IInv

\* The lock is taken by a call.
Begins ==
  \/ BeginProbe
  \/ \E c \in Conversations, a \in Activities : BeginTyping(c, a) \/ BeginPause(c, a)
  \/ \E c \in Conversations, b \in Bindings : BeginRead(c, b)

\* An operation that has just begun has submitted nothing.
LEMMA BeginsKeep == IInv /\ Begins => IInv'
  <1> SUFFICES ASSUME IInv, Begins
               PROVE  IInv'
    OBVIOUS
  <1> USE ActivityNoneAssumption
  <1>1. /\ op = None /\ stop = "no"
        /\ UNCHANGED <<current, history, armed, fired, todo, route, loaded, stop, starts,
                       owed, lifetimes>>
    BY DEF Begins, BeginProbe, BeginTyping, BeginPause, BeginRead, Begin, LockFree, Current,
       leaseVars, envVars
  <1>2. /\ op' \in Operation
        /\ \/ op'.kind = "probe" /\ op'.at = "verify"
           \/ /\ op'.kind \in {"typing", "paused", "read"} /\ op'.at = "authorize"
              /\ op'.conv \in Conversations /\ op'.before \in Bindings
              /\ op'.kind \in {"typing", "paused"} => op'.activity \in Activities
    <2>1. CASE BeginProbe
      BY <2>1 DEF BeginProbe, Operation, Kinds, Waits
    <2>2. ASSUME NEW c \in Conversations, NEW a \in Activities,
                 BeginTyping(c, a) \/ BeginPause(c, a)
          PROVE  /\ op' \in Operation
                 /\ op'.kind \in {"typing", "paused"} /\ op'.at = "authorize"
                 /\ op'.conv \in Conversations /\ op'.before \in Bindings
                 /\ op'.activity \in Activities
      BY <2>2 DEF BeginTyping, BeginPause, Begin, Operation, Kinds, Waits, IInv, ShapeInv
    <2>3. ASSUME NEW c \in Conversations, NEW b \in Bindings, BeginRead(c, b)
          PROVE  /\ op' \in Operation
                 /\ op'.kind = "read" /\ op'.at = "authorize"
                 /\ op'.conv \in Conversations /\ op'.before \in Bindings
      BY <2>3 DEF BeginRead, Begin, Operation, Kinds, Waits, IInv, ShapeInv
    <2>. QED
      BY <2>1, <2>2, <2>3 DEF Begins
  <1>3. ShapeInv'
    BY <1>1, <1>2 DEF IInv, ShapeInv, Owned
  <1>4. SizeInv'
    BY <1>1 DEF IInv, SizeInv, Convs
  <1>5. KindInv'
    BY <1>2 DEF KindInv, Cleanups
  <1>6. TimerInv' /\ StopInv'
    BY <1>1, <1>2 DEF IInv, TimerInv, StopInv, Kind
  <1>7. LifeInv'
    BY <1>1 DEF IInv, LifeInv
  <1>. QED
    BY <1>3, <1>4, <1>5, <1>6, <1>7 DEF IInv

\* A timer fires: from now on it waits for the lock.
LEMMA FireKeeps == IInv /\ Timer => IInv'
  <1> SUFFICES ASSUME IInv, NEW l \in armed, Fire(l)
               PROVE  IInv'
    BY DEF Timer
  <1>1. /\ armed' = armed \ {l} /\ fired' = fired \cup {l}
        /\ UNCHANGED <<current, history, op, todo, route, loaded, stop, starts, owed,
                       lifetimes>>
    BY DEF Fire, envVars
  <1>2. ShapeInv'
    BY <1>1 DEF IInv, ShapeInv, Owned
  <1>3. SizeInv' /\ KindInv' /\ StopInv' /\ LifeInv'
    BY <1>1 DEF IInv, SizeInv, Convs, KindInv, StopInv, Kind, At, Owned, LifeInv
  <1>4. TimerInv'
    BY <1>1 DEF IInv, TimerInv, Kind
  <1>. QED
    BY <1>2, <1>3, <1>4 DEF IInv

\* An expiry gets the lock: the lease it is about to clear is that of its timer.
LEMMA ExpiryKeeps == IInv /\ Expiry => IInv'
  <1> SUFFICES ASSUME IInv, NEW l \in fired, BeginExpire(l)
               PROVE  IInv'
    BY DEF Expiry
  <1> USE ActivityNoneAssumption
  <1>1. /\ op = None /\ stop # "cleaning"
        /\ fired' = fired \ {l}
        /\ UNCHANGED <<current, history, armed, todo, route, loaded, stop, starts, owed,
                       lifetimes>>
    BY DEF BeginExpire, LockFree, envVars
  <1>2. l \in Lease /\ l.conv \in Conversations /\ l.activity \in Activities
    BY DEF IInv, ShapeInv, Lease
  <1>3. \/ op' = None
        \/ /\ current[l.conv] = l /\ stop # "done"
           /\ op' \in Operation /\ op'.kind = "expire" /\ op'.at = "authorize"
           /\ op'.conv = l.conv
    <2>1. CASE current[l.conv] = l
      <3>1. stop # "done"
        BY <1>2, <2>1 DEF IInv, StopInv, Owned
      <3>2. route[l.conv] \in Bindings \cup {None}
        BY <1>2 DEF IInv, ShapeInv
      <3>. QED
        BY <1>2, <2>1, <3>1, <3>2 DEF BeginExpire, Operation, Kinds, Waits
    <2>2. CASE current[l.conv] # l
      BY <1>1, <2>2 DEF BeginExpire
    <2>. QED
      BY <2>1, <2>2
  <1>4. ShapeInv'
    BY <1>1, <1>2, <1>3 DEF IInv, ShapeInv, Owned
  <1>5. SizeInv' /\ LifeInv'
    BY <1>1 DEF IInv, SizeInv, Convs, LifeInv
  <1>6. KindInv'
    BY <1>1, <1>2, <1>3 DEF KindInv, Cleanups
  <1>7. TimerInv'
    BY <1>1, <1>2, <1>3 DEF IInv, TimerInv, Kind
  <1>8. StopInv'
    BY <1>1, <1>3 DEF IInv, StopInv, Kind, Owned
  <1>. QED
    BY <1>4, <1>5, <1>6, <1>7, <1>8 DEF IInv

\* async_stop takes the next lease, or finds that it is gone.
LEMMA CleanupKeeps == IInv /\ NextCleanup => IInv'
  <1> SUFFICES ASSUME IInv, NextCleanup
               PROVE  IInv'
    OBVIOUS
  <1> USE ActivityNoneAssumption
  <1>1. PICK c \in todo :
          /\ todo' = todo \ {c}
          /\ IF current[c] # None
             THEN op' = [kind |-> "stop", at |-> "authorize", conv |-> c,
                         activity |-> None, before |-> route[c], bound |-> None]
             ELSE UNCHANGED op
    BY DEF NextCleanup
  <1>2. /\ op = None /\ stop = "cleaning"
        /\ UNCHANGED <<current, history, armed, fired, route, loaded, stop, starts, owed,
                       lifetimes>>
    BY DEF NextCleanup, leaseVars, envVars
  <1>3. c \in Conversations /\ route[c] \in Bindings \cup {None}
    BY DEF IInv, ShapeInv
  <1>4. \/ op' = None /\ current[c] = None
        \/ /\ current[c] # None /\ op' \in Operation /\ op' # None
           /\ op'.kind = "stop" /\ op'.at = "authorize" /\ op'.conv = c
    BY <1>1, <1>2, <1>3 DEF Operation, Kinds, Waits
  <1>5. ShapeInv'
    BY <1>1, <1>2, <1>3, <1>4 DEF IInv, ShapeInv, Owned
  <1>6. SizeInv' /\ LifeInv'
    BY <1>2 DEF IInv, SizeInv, Convs, LifeInv
  <1>7. KindInv'
    BY <1>2, <1>4 DEF KindInv, Cleanups
  <1>8. TimerInv'
    BY <1>2, <1>4 DEF IInv, TimerInv, Kind
  <1>9. StopInv'
    BY <1>1, <1>2, <1>4 DEF IInv, StopInv, Kind, At, Owned
  <1>. QED
    BY <1>5, <1>6, <1>7, <1>8, <1>9 DEF IInv

\* The steps of a stop between two leases, and those of the world around.
Others ==
  \/ CallStop \/ BeginStop \/ EndStop \/ Unload
  \/ \E c \in Conversations, b \in Bindings \cup {None} : Reroute(c, b)
  \/ UNCHANGED vars

\* A stop goes on to its next phase; the rest does not touch the leases.
LEMMA OthersKeep == IInv /\ Others => IInv'
  <1> SUFFICES ASSUME IInv, Others
               PROVE  IInv'
    OBVIOUS
  <1>1. /\ UNCHANGED <<current, history, armed, fired, op, starts, owed, lifetimes>>
        /\ todo' \in {todo, Owned}
    BY DEF Others, CallStop, BeginStop, EndStop, Unload, Reroute, vars, leaseVars
  <1>2. /\ loaded' \in BOOLEAN /\ stop' \in {"no", "called", "cleaning", "done"}
        /\ route' \in [Conversations -> Bindings \cup {None}]
    BY DEF Others, CallStop, BeginStop, EndStop, Unload, Reroute, vars, envVars, IInv, ShapeInv
  <1>3. ShapeInv'
    BY <1>1, <1>2 DEF IInv, ShapeInv, Owned
  <1>4. SizeInv' /\ KindInv' /\ TimerInv' /\ LifeInv'
    BY <1>1 DEF IInv, SizeInv, Convs, KindInv, TimerInv, Kind, LifeInv
  <1>5. StopInv'
    <2>1. \/ UNCHANGED <<stop, todo>>
          \/ op = None /\ stop \in {"no", "called"}
             /\ (stop' = "called" \/ (stop' = "cleaning" /\ todo' = Owned))
          \/ stop = "no" /\ stop' = "called"
          \/ op = None /\ stop = "cleaning" /\ todo = {} /\ stop' = "done"
      BY DEF Others, CallStop, BeginStop, EndStop, Unload, Reroute, LockFree, vars, envVars
    <2>. QED
      BY <1>1, <2>1 DEF IInv, StopInv, Kind, At, Owned
  <1>. QED
    BY <1>3, <1>4, <1>5 DEF IInv

\* A runtime starts with empty tables.
LEMMA InitKeeps == Init => IInv
  <1> SUFFICES ASSUME Init
               PROVE  IInv
    OBVIOUS
  <1> USE ActivityBoundsAssumption DEF Init
  <1>1. Owned = {} /\ Convs = {}
    BY DEF Owned, Convs
  <1>2. ShapeInv
    BY <1>1 DEF ShapeInv
  <1>3. SizeInv
    BY <1>1, FS_EmptySet DEF SizeInv
  <1>4. KindInv /\ TimerInv /\ StopInv /\ LifeInv
    BY DEF KindInv, TimerInv, StopInv, Kind, LifeInv, Keys
  <1>. QED
    BY <1>2, <1>3, <1>4 DEF IInv

\* Every step keeps the invariant.
LEMMA NextKeeps == IInv /\ [Next]_vars => IInv'
  <1> SUFFICES ASSUME IInv, [Next]_vars
               PROVE  IInv'
    OBVIOUS
  <1>1. OpStep => Moves \/ Clears \/ Drops \/ StartTyping \/ NextCleanup \/ Others
    BY DEF OpStep, Moves, Clears, Drops, Others, EndVerify
  <1>2. Call => Begins \/ Drops
    BY DEF Call, Begins, Drops
  <1>3. Environment \/ BeginStop \/ UNCHANGED vars => Others
    BY DEF Environment, Others
  <1>. QED
    BY <1>1, <1>2, <1>3, MovesKeep, ClearsKeep, DropsKeep, StartKeeps, BeginsKeep, FireKeeps,
       ExpiryKeeps, CleanupKeeps, OthersKeep DEF Next
-----------------------------------------------------------------------------
\* activity.py: the inductive invariant holds, for any conversations, activities and
\* routes, however calls, timers, stops and route changes interleave.
THEOREM IInvHolds == Spec => []IInv
  BY InitKeeps, NextKeeps, PTL DEF Spec

\* activity.py:18-19: the state has its types, and the tables stay within their bounds.
THEOREM TypesHold == Spec => []TypeOK
  <1>1. IInv => TypeOK
    BY DEF IInv, ShapeInv, SizeInv, TypeOK
  <1>. QED
    BY <1>1, IInvHolds, PTL

\* activity.py:496-500: an activity that was retired is never current again.
THEOREM NoRevivalHolds == Spec => []NoRevival
  <1>1. IInv => NoRevival
    BY DEF IInv, LifeInv, NoRevival
  <1>. QED
    BY <1>1, IInvHolds, PTL

\* activity.py:583-589: after a stop there are no leases, timers or operations.
THEOREM QuietAfterStopHolds == Spec => []QuietAfterStop
  <1>1. IInv => QuietAfterStop
    <2> SUFFICES ASSUME IInv, stop = "done"
                 PROVE  Owned = {} /\ armed = {} /\ op = None
      BY DEF QuietAfterStop
    <2>1. Owned = {} /\ op = None
      BY DEF IInv, StopInv
    <2>2. ASSUME NEW l \in armed
          PROVE  FALSE
      BY <2>1, ActivityNoneAssumption DEF IInv, TimerInv, ShapeInv, Lease, Owned
    <2>. QED
      BY <2>1, <2>2
  <1>. QED
    BY <1>1, IInvHolds, PTL

\* activity.py:508-514: an expiry clears only the lease whose timer has fired.
THEOREM ExpiryOwnLeaseHolds == Spec => ExpiryOwnLease
  <1>1. IInv /\ [Next]_vars =>
          [Kind("expire") /\ current[op.conv] # None /\ current'[op.conv] = None
             => current[op.conv] \notin armed]_vars
    <2> SUFFICES ASSUME IInv, Kind("expire"), current[op.conv] # None,
                        current'[op.conv] = None
                 PROVE  current[op.conv] \notin armed
      OBVIOUS
    <2>. QED
      BY DEF IInv, TimerInv
  <1>. QED
    BY <1>1, IInvHolds, PTL DEF Spec, ExpiryOwnLease

\* The end of the checks: where a request goes is what the conversation is bound to.
LEMMA EffectsStep ==
  ASSUME IInv, [Next]_vars, At("authorize"), op' # None
  PROVE  /\ op'.at \in {"typing", "pausing"} => current'[op.conv].binding = route[op.conv]
         /\ op'.at = "reading" => op.bound = route[op.conv]
  <1> USE ActivityNoneAssumption
  <1>1. /\ op # None /\ op.at = "authorize" /\ op.conv \in Conversations
        /\ op.before \in Bindings \cup {None}
        /\ \A w \in Waits : [op EXCEPT !.at = w].at = w
    BY OpFacts DEF At, IInv
  <1>2. current \in [Conversations -> Lease \cup {None}]
    BY DEF IInv, ShapeInv
  <1>3. CASE StartTyping
    BY <1>1, <1>2, <1>3 DEF StartTyping, Authorized, Install, Waits
  <1>4. CASE PauseNow \/ ReadNow
    BY <1>1, <1>4 DEF PauseNow, ReadNow, Authorized, Release, leaseVars, Waits
  <1>5. CASE ClearNow
    <2>1. CASE current[op.conv].binding = op.before
      <3>1. current' = current /\ op' = [op EXCEPT !.at = "pausing"]
            /\ route[op.conv] = op.before
        BY <1>5, <2>1 DEF ClearNow, Authorized
      <3>. QED
        BY <1>1, <2>1, <3>1 DEF Waits
    <2>2. CASE current[op.conv].binding # op.before
      BY <1>1, <1>5, <2>2 DEF ClearNow, AfterClear, Release, Waits
    <2>. QED
      BY <2>1, <2>2
  <1>6. CASE Unverified \/ Gone \/ Refused
    BY <1>1, <1>6 DEF Unverified, Gone, Refused, GiveUp, AfterClear, Release, Waits
  <1>7. CASE RefuseTyping \/ RefusePause
    BY <1>7 DEF RefuseTyping, RefusePause, Release
  <1>8. CASE op' = op
    BY <1>1, <1>8
  <1>9. ~(Call \/ Expiry \/ NextCleanup \/ BeginStop \/ EndStop)
    BY <1>1 DEF Call, BeginTyping, BeginPause, BeginRead, BeginProbe, Begin, Disconnected,
       Expiry, BeginExpire, NextCleanup, BeginStop, EndStop, LockFree
  <1>10. Timer \/ Environment \/ UNCHANGED vars => op' = op
    BY DEF Timer, Fire, Environment, CallStop, Unload, Reroute, vars
  <1>11. ~(Submitted \/ Paused \/ PauseCancelled \/ VerifiedOffline \/ EndVerify \/ OfflineSent)
    BY <1>1 DEF Submitted, Paused, PauseCancelled, VerifiedOffline, EndVerify, OfflineSent, At
  <1>. QED
    BY <1>3, <1>4, <1>5, <1>6, <1>7, <1>8, <1>9, <1>10, <1>11 DEF Next, OpStep

\* activity.py:396-401: however the route moved during the checks, a request goes to what
\* the conversation is bound to when it is submitted.
THEOREM EffectsOnOwnRouteHolds == Spec => EffectsOnOwnRoute
  <1>1. IInv /\ [Next]_vars =>
          [At("authorize") /\ op' # None
             => /\ op'.at \in {"typing", "pausing"} =>
                     current'[op.conv].binding = route[op.conv]
                /\ op'.at = "reading" => op.bound = route[op.conv]]_vars
    BY EffectsStep
  <1>. QED
    BY <1>1, IInvHolds, PTL DEF Spec, EffectsOnOwnRoute
=============================================================================
