--------------------------- MODULE GuestGroupProofs ---------------------------
(***************************************************************************)
(* Proofs about GuestGroup, for any number of guests, failures, crashes and *)
(* reloads: a group is created once, and once more for each record that the *)
(* Store lost; a private send stays within one stay of its guest; what is   *)
(* trusted is what the Store was given last; what is saved is what a start  *)
(* accepts.                                                                 *)
(***************************************************************************)
EXTENDS GuestGroup, Sums, FiniteSetTheorems, TLAPS

\* The attempt to create a group is recorded in d; the group is.
Marked(d) == d.status # "unconfigured"
Settled(d) == d.status \in {"group_saved", "ready", "suspended"}

\* What depends on how saves ended.
ends == <<stopping, deferred, unrecorded, astray>>

\* Groups that were asked for, or are about to be.
Asked == creates + (IF At("create") THEN 1 ELSE 0)

\* Which fields the records have: nothing depends on more of their types.
ShapeInv ==
  /\ creates \in Nat /\ unrecorded \in Nat
  /\ "status" \in DOMAIN data
  /\ file # None => "status" \in DOMAIN file
  /\ \A d \in deferred : "status" \in DOMAIN d
  /\ stale # None => "status" \in DOMAIN stale
  /\ op # None => {"kind", "at", "next"} \subseteq DOMAIN op

\* The locks: no save and no send at the same time, neither without a runtime, and
\* nothing that the save was made from changes before it ends.  Nothing is deferred
\* before Home Assistant stops, and nothing written after.
LockInv ==
  /\ ~running => op = None /\ send = None
  /\ send # None => ~Saving
  /\ Saving => /\ op.at \in Saves /\ healthy /\ ~stopping
               /\ Allowed
               /\ op.next = Updated
  /\ deferred # {} => stopping

\* What each kind of operation goes through.
KindInv ==
  op # None =>
    /\ op.kind \in {"setup", "reconcile", "adopt"}
    /\ op.kind = "reconcile" => op.at \in {"read", "roster", "ready", "suspend"}
    /\ op.kind = "adopt" => op.at = "adopt"
    /\ op.at = "read" => op.kind = "reconcile"
    /\ op.at \in {"create", "created"} => Marked(data)
    /\ op.at \in {"provision", "roster"} => Settled(data)

\* The record of a creation.  A group is asked for when no other was, or once for each
\* record that was swallowed or deferred; where no record is, in the file, in what is
\* deferred or in memory, each was.
RecordInv ==
  /\ Asked <= unrecorded + 1
  /\ file = None \/ ~Marked(file) => Asked <= unrecorded
  /\ \A d \in deferred : ~Marked(d) => Asked <= unrecorded
  /\ healthy /\ ~Marked(data) => Asked <= unrecorded
  /\ stale # None => Marked(stale)

\* What is trusted was saved last, and nobody who may leave it behind has begun.
TrustInv ==
  confirmed =>
    /\ Settled(data)
    /\ op # None => op.kind = "setup"
    /\ healthy
    /\ astray \/ (Final = {data} /\ (deferred = {} => file # None))

IInv == ShapeInv /\ LockInv /\ KindInv /\ RecordInv /\ TrustInv
-----------------------------------------------------------------------------
\* What a save writes keeps the record of the creation.
LEMMA UpdatedFacts ==
  ASSUME "status" \in DOMAIN data, op.at \in Saves, Allowed,
         op.at = "roster" => Settled(data)
  PROVE  /\ "status" \in DOMAIN Updated
         /\ op.at # "bind" => Marked(Updated)
         /\ op.at = "bind" => Updated.status = data.status
         /\ op.at = "mark" => ~Marked(data)
         /\ op.at \in {"group", "roster", "ready"} => Settled(Updated)
         /\ Settled(data) /\ op.at \notin {"unknown", "mark"} => Settled(Updated)
  <1>1. CASE op.at = "bind"
    BY <1>1 DEF Updated, Settled
  <1>2. CASE op.at = "mark"
    <2>1. Updated.status = "creating" /\ "status" \in DOMAIN Updated
      BY <1>2 DEF Updated, StatusAfter
    <2>. QED
      BY <1>2, <2>1 DEF Allowed, Marked
  <1>3. CASE op.at = "unknown"
    <2>1. Updated.status = "create_unknown" /\ "status" \in DOMAIN Updated
      BY <1>3 DEF Updated, StatusAfter
    <2>. QED
      BY <1>3, <2>1 DEF Marked
  <1>4. CASE op.at \in {"group", "adopt", "enable", "ready", "suspend"}
    <2>1. /\ Updated.status \in {"group_saved", "suspended", "ready"}
          /\ "status" \in DOMAIN Updated
      BY <1>4 DEF Updated, StatusAfter
    <2>. QED
      BY <1>4, <2>1 DEF Marked, Settled
  <1>5. CASE op.at = "roster"
    BY <1>5 DEF Updated, Reconciled, Marked, Settled
  <1>. QED
    BY <1>1, <1>2, <1>3, <1>4, <1>5 DEF Saves

\* Before anything was provisioned.
LEMMA InitKeeps == Init => IInv
  BY DEF Init, IInv, ShapeInv, LockInv, KindInv, RecordInv, TrustInv, Pristine, Saving,
         Asked, At, Marked, Settled

\* The numbers of the record of a creation.
LEMMA AskedFacts ==
  ASSUME IInv
  PROVE  /\ creates \in Nat /\ unrecorded \in Nat /\ Asked \in Nat
         /\ creates <= Asked
         /\ ~At("create") => Asked = creates
         /\ At("create") => Asked = creates + 1
  BY DEF IInv, ShapeInv, Asked

\* What an operation is like that has just begun, or gone on.
LEMMA BeginShape ==
  ASSUME NEW kind, NEW at, NEW hint, Begin(kind, at, hint)
  PROVE  /\ op'.kind = kind /\ op'.at = at /\ op'.next = None
         /\ {"kind", "at", "next"} \subseteq DOMAIN op'
  BY DEF Begin

\* What a save under way is about to write.
LEMMA SavingFacts ==
  ASSUME IInv, Saving
  PROVE  /\ op.at \in Saves /\ healthy /\ send = None /\ running
         /\ ~stopping /\ deferred = {}
         /\ "status" \in DOMAIN op.next
         /\ op.at # "bind" => Marked(op.next)
         /\ op.at = "bind" => op.next.status = data.status
         /\ op.at = "mark" => ~Marked(data)
         /\ op.at \in {"group", "roster", "ready"} => Settled(op.next)
         /\ Settled(data) /\ op.at \notin {"unknown", "mark"} => Settled(op.next)
         /\ Marked(data) => Marked(op.next)
  <1>1. /\ op.at \in Saves /\ healthy /\ send = None /\ running
        /\ ~stopping /\ deferred = {}
        /\ Allowed /\ op.next = Updated
    BY DEF IInv, LockInv, Saving
  <1>2. /\ "status" \in DOMAIN data
        /\ op.at = "roster" => Settled(data)
    BY DEF IInv, ShapeInv, KindInv, Saving
  <1>. QED
    BY <1>1, <1>2, UpdatedFacts DEF Marked

\* Steps that leave the data, the file and the operation alone.
LEMMA IdleKeeps ==
  ASSUME IInv,
         UNCHANGED <<file, deferred, unrecorded, astray, data, healthy, createdHere, running,
                     op, stale, creates>>,
         stopping' = stopping \/ (stopping' /\ ~Saving),
         confirmed' => confirmed,
         send' # None => running /\ ~Saving
  PROVE  IInv'
  <1>1. Updated' = Updated /\ Allowed' = Allowed
    BY DEF Updated, Allowed, Reconciled, Occurred, Current, Premature
  <1>2. ShapeInv'
    BY DEF IInv, ShapeInv
  <1>3. LockInv'
    BY <1>1 DEF IInv, LockInv, Saving
  <1>4. KindInv'
    BY DEF IInv, KindInv, Marked, Settled
  <1>5. RecordInv'
    BY DEF IInv, RecordInv, Marked, Asked, At
  <1>6. TrustInv'
    BY DEF IInv, TrustInv, Settled, Final
  <1>. QED
    BY <1>2, <1>3, <1>4, <1>5, <1>6 DEF IInv

\* Steps that only move the operation on to where nothing is saved yet.
LEMMA MoveKeeps ==
  ASSUME IInv, NEW kind, NEW at, NEW hint,
         Begin(kind, at, hint) \/ End,
         UNCHANGED <<file, ends, data, running, send, stale, creates>>,
         Begin(kind, at, hint) =>
           /\ running
           /\ kind \in {"setup", "reconcile", "adopt"} /\ at # "create"
           /\ kind = "reconcile" => at \in {"read", "roster", "ready", "suspend"}
           /\ kind = "adopt" => at = "adopt"
           /\ at = "read" => kind = "reconcile"
           /\ at = "created" => Marked(data)
           /\ at \in {"provision", "roster"} => Settled(data)
           /\ confirmed' => kind = "setup",
         confirmed' => confirmed,
         healthy' => healthy,
         confirmed' => healthy' = healthy
  PROVE  IInv'
  <1>1. ~Saving' /\ ~At("create")'
    BY BeginShape DEF Saving, At, End
  <1>2. ShapeInv'
    BY BeginShape DEF IInv, ShapeInv, End, ends
  <1>3. LockInv'
    BY <1>1 DEF IInv, LockInv, End, ends
  <1>4. KindInv'
    BY BeginShape DEF IInv, KindInv, Marked, Settled, End
  <1>5. RecordInv'
    <2>1. Asked' <= Asked /\ Asked' \in Nat
      BY <1>1, AskedFacts DEF Asked
    <2>. QED
      BY <1>1, <2>1, AskedFacts DEF IInv, RecordInv, Marked, ends
  <1>6. TrustInv'
    BY BeginShape DEF IInv, TrustInv, Settled, Final, End, ends
  <1>. QED
    BY <1>2, <1>3, <1>4, <1>5, <1>6 DEF IInv
-----------------------------------------------------------------------------
\* What Fail does to the operation and to trust.
LEMMA FailMoves ==
  ASSUME IInv, op # None, Fail
  PROVE  /\ ~confirmed' /\ running
         /\ \/ End
            \/ Begin(op.kind, "suspend", None) /\ op.kind = "reconcile"
  BY DEF Fail, Goto, IInv, LockInv

\* The options flow replaces a file nobody uses by an empty record.
LEMMA InitializeKeeps == IInv /\ Initialize => IInv'
  <1> SUFFICES ASSUME IInv, Initialize
               PROVE  IInv'
    OBVIOUS
  <1>1. Updated' = Updated /\ Allowed' = Allowed
    BY DEF Initialize, registryVars, Updated, Allowed, Reconciled, Occurred, Current,
           Premature
  <1>2. ShapeInv'
    BY DEF IInv, ShapeInv, Initialize, registryVars, worldVars, history, boundVars,
       Pristine
  <1>3. LockInv'
    BY <1>1 DEF IInv, LockInv, Saving, Initialize, registryVars
  <1>4. KindInv'
    BY DEF IInv, KindInv, Marked, Settled, Initialize, registryVars
  <1>5. RecordInv'
    BY DEF IInv, RecordInv, Marked, Asked, At, Initialize, registryVars, worldVars,
       storeVars, history, boundVars
  <1>6. TrustInv'
    <2>1. file = None /\ ~stopping /\ UNCHANGED <<confirmed, healthy, astray, data, op>>
      BY DEF Initialize, registryVars, history
    <2>2. deferred = {}
      BY <2>1 DEF IInv, LockInv
    <2>3. confirmed => astray
      BY <2>1, <2>2 DEF IInv, TrustInv
    <2>. QED
      BY <2>1, <2>3 DEF IInv, TrustInv, Settled
  <1>. QED
    BY <1>2, <1>3, <1>4, <1>5, <1>6 DEF IInv

\* A start restores a record that is in the file.
LEMMA SetupKeeps == IInv /\ Setup => IInv'
  <1> SUFFICES ASSUME IInv, Setup
               PROVE  IInv'
    OBVIOUS
  <1>1. /\ Begin("setup", "checks", None)
        /\ UNCHANGED <<file, stopping, deferred, unrecorded, send, stale, creates>>
        /\ ~confirmed' /\ running' /\ send = None
        /\ healthy' => file # None /\ data' = file
        /\ ~healthy' => data' = Pristine
    BY DEF Setup, Restore, worldVars, storeVars, history, boundVars, IInv, LockInv
  <1>2. ~Saving' /\ ~At("create")'
    BY <1>1, BeginShape DEF Saving, At
  <1>3. "status" \in DOMAIN Pristine
    BY DEF Pristine
  <1>4. ShapeInv'
    BY <1>1, <1>3, BeginShape DEF IInv, ShapeInv
  <1>5. LockInv'
    BY <1>1, <1>2 DEF IInv, LockInv
  <1>6. KindInv'
    BY <1>1, BeginShape DEF IInv, KindInv
  <1>7. RecordInv'
    <2>1. Asked' <= Asked /\ Asked' \in Nat
      BY <1>1, <1>2, AskedFacts DEF Asked
    <2>. QED
      BY <1>1, <1>2, <2>1, AskedFacts DEF IInv, RecordInv, Marked
  <1>8. TrustInv'
    BY <1>1 DEF TrustInv
  <1>. QED
    BY <1>4, <1>5, <1>6, <1>7, <1>8 DEF IInv

\* The request to create: the record is in the file already.
LEMMA CreateKeeps == IInv /\ Create => IInv'
  <1> SUFFICES ASSUME IInv, Create
               PROVE  IInv'
    OBVIOUS
  <1>1. /\ Begin(op.kind, "created", None) /\ op # None /\ op.at = "create"
        /\ UNCHANGED <<file, ends, data, healthy, confirmed, running, send, stale>>
        /\ creates' = creates + 1
        /\ running
    BY DEF Create, Goto, At, registryVars, storeVars, history, ends, IInv, LockInv
  <1>2. ~Saving' /\ ~At("create")'
    BY <1>1, BeginShape DEF Saving, At
  <1>3. op.kind = "setup" /\ Marked(data)
    BY <1>1 DEF IInv, KindInv
  <1>4. ShapeInv'
    BY <1>1, BeginShape DEF IInv, ShapeInv, ends
  <1>5. LockInv'
    BY <1>1, <1>2 DEF IInv, LockInv, ends
  <1>6. KindInv'
    BY <1>1, <1>3, BeginShape DEF KindInv, Marked
  <1>7. RecordInv'
    <2>1. Asked' = Asked
      BY <1>1, <1>2, AskedFacts DEF Asked, At
    <2>. QED
      BY <1>1, <2>1 DEF IInv, RecordInv, Marked, ends
  <1>8. TrustInv'
    BY <1>1, <1>3, BeginShape DEF IInv, TrustInv, Settled, Final, ends
  <1>. QED
    BY <1>4, <1>5, <1>6, <1>7, <1>8 DEF IInv

\* A roster that was read only decides what to save next.
LEMMA ReadKeeps == IInv /\ Read => IInv'
  <1> SUFFICES ASSUME IInv, Read
               PROVE  IInv'
    OBVIOUS
  <1>1. /\ op # None /\ op.at \in {"provision", "read"}
        /\ {"kind", "at", "next"} \subseteq DOMAIN op
        /\ UNCHANGED <<file, ends, data, healthy, createdHere, running, send, stale, creates>>
        /\ ~confirmed' /\ running
    BY DEF Read, worldVars, storeVars, history, boundVars, ends, IInv, ShapeInv, LockInv
  <1>2. ~Saving
    BY <1>1 DEF IInv, LockInv, Saves
  <1>3. /\ op'.kind = op.kind /\ op'.next = None
        /\ op'.at \in {"ready", "roster"}
        /\ op'.at = "ready" => op.kind = "reconcile"
        /\ DOMAIN op' = DOMAIN op
    <2>1. op' = [op EXCEPT !.roster = roster, !.fresh = TRUE, !.when = now,
                           !.at = IF op.kind = "reconcile" /\ data.status = "suspended"
                                  THEN "ready" ELSE "roster"]
      BY DEF Read
    <2>2. op.next = None
      BY <1>1, <1>2 DEF Saving
    <2>. QED
      BY <1>1, <2>1, <2>2
  <1>4. Settled(data)
    BY <1>1 DEF Read, Settled, IInv, KindInv
  <1>5. ~Saving' /\ ~At("create")'
    BY <1>3 DEF Saving, At
  <1>6. ShapeInv'
    BY <1>1, <1>3 DEF IInv, ShapeInv, ends
  <1>7. LockInv'
    BY <1>1, <1>5 DEF IInv, LockInv, ends
  <1>8. KindInv'
    BY <1>1, <1>3, <1>4 DEF IInv, KindInv, Settled
  <1>9. RecordInv'
    <2>1. Asked' <= Asked /\ Asked' \in Nat
      BY <1>1, <1>5, AskedFacts DEF Asked
    <2>. QED
      BY <1>1, <2>1, AskedFacts DEF IInv, RecordInv, Marked, ends
  <1>10. TrustInv'
    BY <1>1 DEF TrustInv
  <1>. QED
    BY <1>6, <1>7, <1>8, <1>9, <1>10 DEF IInv

\* A snapshot is taken, of what the save is about.
LEMMA BeginSaveKeeps == IInv /\ BeginSave => IInv'
  <1> SUFFICES ASSUME IInv, BeginSave
               PROVE  IInv'
    OBVIOUS
  <1>1. /\ op # None /\ op.at \in Saves /\ send = None /\ healthy /\ Allowed /\ ~stopping
        /\ {"kind", "at", "next"} \subseteq DOMAIN op
        /\ UNCHANGED <<file, ends, data, healthy, confirmed, createdHere, running, send, stale,
                       creates>>
        /\ running
    BY DEF BeginSave, Free, registryVars, worldVars, storeVars, history, boundVars,
       ends, IInv,
           ShapeInv, LockInv
  <1>2. /\ op' = [op EXCEPT !.next = Updated]
        /\ op'.kind = op.kind /\ op'.at = op.at /\ op'.next = Updated
        /\ op'.roster = op.roster /\ op'.hint = op.hint /\ op'.when = op.when
        /\ DOMAIN op' = DOMAIN op
    BY <1>1 DEF BeginSave
  <1>3. Updated' = Updated /\ Allowed' = Allowed
    BY <1>1, <1>2 DEF Updated, Allowed, Reconciled, Occurred, Current, Premature
  <1>4. ShapeInv'
    BY <1>1, <1>2 DEF IInv, ShapeInv, ends
  <1>5. LockInv'
    BY <1>1, <1>2, <1>3 DEF IInv, LockInv, ends
  <1>6. KindInv'
    BY <1>1, <1>2 DEF IInv, KindInv, Marked, Settled
  <1>7. RecordInv'
    <2>1. At("create")' = At("create")
      BY <1>1, <1>2 DEF At, Saves
    <2>. QED
      BY <1>1, <2>1 DEF IInv, RecordInv, Marked, Asked, ends
  <1>8. TrustInv'
    BY <1>1, <1>2 DEF IInv, TrustInv, Settled, Final, ends
  <1>. QED
    BY <1>4, <1>5, <1>6, <1>7, <1>8 DEF IInv

\* Where an operation goes after its save.
LEMMA AfterSaveMoves ==
  ASSUME IInv, op # None, AfterSave
  PROVE  \/ End
         \/ /\ op'.kind = op.kind /\ op'.next = None
            /\ {"kind", "at", "next"} \subseteq DOMAIN op'
            /\ \/ /\ op.at = "bind" /\ op'.at \in {"provision", "mark"}
                  /\ op'.at = "provision" => Settled(data)
               \/ op.at = "mark" /\ op'.at = "create"
               \/ op.at = "group" /\ op'.at = "provision"
               \/ op.at = "ready" /\ op'.at = "roster"
               \/ op.at = "roster" /\ op.kind = "setup" /\ op'.at = "enable"
  <1>1. {"kind", "at", "next"} \subseteq DOMAIN op
    BY DEF IInv, ShapeInv
  <1>2. CASE op.at = "bind" /\ AfterBind
    BY <1>2, BeginShape DEF AfterBind, Goto, Settled
  <1>3. CASE op.at = "ready" /\ op' = [op EXCEPT !.at = "roster", !.next = None, !.when = now]
    BY <1>1, <1>3
  <1>4. CASE \/ op.at = "mark" /\ Goto("create")
             \/ op.at = "group" /\ Goto("provision")
             \/ op.at = "roster" /\ op.kind = "setup" /\ Goto("enable")
    BY <1>4, BeginShape DEF Goto
  <1>. QED
    BY <1>2, <1>3, <1>4 DEF AfterSave

\* What a save is about to write keeps the records.
LEMMA ToWrite ==
  ASSUME IInv, op # None, op.at \in Saves, Allowed
  PROVE  /\ "status" \in DOMAIN Updated
         /\ op.at # "bind" => Marked(Updated)
         /\ op.at = "bind" => Updated.status = data.status
         /\ op.at = "mark" => ~Marked(data)
         /\ op.at \in {"group", "roster", "ready"} => Settled(Updated)
         /\ Settled(data) /\ op.at \notin {"unknown", "mark"} => Settled(Updated)
         /\ Marked(data) => Marked(Updated)
         /\ ~Marked(Updated) => ~Marked(data)
  <1>1. "status" \in DOMAIN data /\ (op.at = "roster" => Settled(data))
    BY DEF IInv, ShapeInv, KindInv
  <1>. QED
    BY <1>1, UpdatedFacts DEF Marked

\* A save that returned, wherever what it was given is: the memory and the operation.
LEMMA AcceptKeeps ==
  ASSUME IInv, op # None, op.at \in Saves, healthy, Allowed, send = None, running,
         Accept(Updated)
  PROVE  /\ healthy' /\ send' = None /\ running' /\ ~Saving'
         /\ "status" \in DOMAIN data'
         /\ op' # None => {"kind", "at", "next"} \subseteq DOMAIN op'
         /\ KindInv'
         /\ confirmed' => Settled(data') /\ (op' # None => op'.kind = "setup")
         /\ stale' = stale /\ creates' = creates /\ data' = Updated
         /\ Asked = creates /\ Asked' \in Nat
         /\ Asked' <= creates + (IF op.at = "mark" THEN 1 ELSE 0)
         /\ op.at = "mark" => Marked(Updated) /\ ~Marked(data)
         /\ ~Marked(Updated) => ~Marked(data)
  <1>1. /\ data' = Updated
        /\ confirmed' => op.at = "roster"
                           \/ (confirmed /\ op.at \notin {"unknown", "adopt", "suspend"})
        /\ AfterSave
        /\ UNCHANGED <<healthy, running, send, stale, creates>>
    BY DEF Accept, worldVars
  <1>2. ~Saving'
    BY <1>1, AfterSaveMoves DEF Saving, End
  <1>3. op' # None => /\ op'.kind = op.kind
                      /\ {"kind", "at", "next"} \subseteq DOMAIN op'
                      /\ op.at = "roster" => op.kind = "setup"
    BY <1>1, AfterSaveMoves DEF End
  <1>4. At("create")' => op.at = "mark"
    BY <1>1, AfterSaveMoves DEF End, At
  <1>5. ~At("create")
    BY DEF At, Saves
  <1>6. /\ Asked = creates /\ Asked' \in Nat
        /\ Asked' <= creates + (IF op.at = "mark" THEN 1 ELSE 0)
    BY <1>1, <1>4, <1>5, AskedFacts DEF Asked
  <1>7. KindInv'
    <2>1. CASE End
      BY <2>1 DEF End, KindInv
    <2>2. CASE op.at = "bind" /\ op'.kind = op.kind /\ op'.at \in {"provision", "mark"}
               /\ (op'.at = "provision" => Settled(data))
      BY <1>1, <2>2, ToWrite DEF IInv, KindInv
    <2>3. CASE op.at = "mark" /\ op'.kind = op.kind /\ op'.at = "create"
      BY <1>1, <2>3, ToWrite DEF IInv, KindInv, Marked
    <2>4. CASE op.at \in {"group", "ready"} /\ op'.kind = op.kind
               /\ op'.at = IF op.at = "group" THEN "provision" ELSE "roster"
      <3>1. Settled(Updated)
        BY <2>4, ToWrite
      <3>2. op.kind = "reconcile" => op'.at = "roster"
        BY <2>4 DEF IInv, KindInv
      <3>3. op.kind \in {"setup", "reconcile"}
        BY <2>4 DEF IInv, KindInv
      <3>. QED
        BY <1>1, <2>4, <3>1, <3>2, <3>3 DEF KindInv, Settled
    <2>5. CASE op.at = "roster" /\ op.kind = "setup" /\ op'.kind = op.kind
               /\ op'.at = "enable"
      BY <2>5 DEF KindInv
    <2>. QED
      BY <1>1, <2>1, <2>2, <2>3, <2>4, <2>5, AfterSaveMoves
  <1>8. confirmed' => Settled(data') /\ (op' # None => op'.kind = "setup")
    <2>1. confirmed /\ op.at = "mark" => FALSE
      BY ToWrite DEF IInv, TrustInv, Settled, Marked
    <2>2. confirmed' => Settled(Updated)
      BY <1>1, <2>1, ToWrite DEF IInv, TrustInv
    <2>3. confirmed' /\ op' # None => op'.kind = "setup"
      <3>1. CASE op.at = "roster"
        BY <1>3, <3>1
      <3>2. CASE op.at # "roster"
        BY <1>1, <3>2, AfterSaveMoves DEF End, IInv, TrustInv
      <3>. QED
        BY <3>1, <3>2
    <2>. QED
      BY <1>1, <2>2, <2>3
  <1>. QED
    BY <1>1, <1>2, <1>3, <1>6, <1>7, <1>8, ToWrite

\* A save under way, like every save, writes what the memory is to be.
LEMMA SavingGives ==
  ASSUME IInv, Saving
  PROVE  /\ op # None /\ op.next # None /\ op.next = Updated /\ op.at \in Saves
         /\ healthy /\ Allowed /\ send = None /\ running /\ ~stopping /\ deferred = {}
  BY DEF IInv, LockInv, Saving

\* A save that is written: the record is in the file, then in memory.
LEMMA SavedKeeps == IInv /\ Saved => IInv'
  <1> SUFFICES ASSUME IInv, Saved
               PROVE  IInv'
    OBVIOUS
  <1>1. /\ Saving /\ Accept(Updated) /\ file' = Updated /\ Updated # None
        /\ op # None /\ op.at \in Saves /\ healthy /\ Allowed /\ send = None /\ running
        /\ ~stopping' /\ deferred' = {} /\ deferred = {} /\ unrecorded' = unrecorded
    BY SavingGives DEF Saved
  <1>2. ShapeInv'
    BY <1>1, AcceptKeeps DEF IInv, ShapeInv
  <1>3. LockInv'
    BY <1>1, AcceptKeeps DEF LockInv
  <1>4. RecordInv'
    <2>1. ~Marked(data) => creates <= unrecorded
      BY <1>1, AcceptKeeps DEF IInv, RecordInv
    <2>2. creates <= unrecorded + 1
      BY <1>1, AcceptKeeps DEF IInv, RecordInv
    <2>3. stale # None => Marked(stale)
      BY DEF IInv, RecordInv
    <2>. QED
      BY <1>1, <2>1, <2>2, <2>3, AcceptKeeps, AskedFacts DEF RecordInv, Marked
  <1>5. TrustInv'
    BY <1>1, AcceptKeeps DEF TrustInv, Settled, Final
  <1>. QED
    BY <1>1, <1>2, <1>3, <1>4, <1>5, AcceptKeeps DEF IInv

\* A save that is swallowed: a record that is lost is counted.
LEMMA SwallowedKeeps == IInv /\ Swallowed => IInv'
  <1> SUFFICES ASSUME IInv, Swallowed
               PROVE  IInv'
    OBVIOUS
  <1>1. /\ Saving /\ Accept(Updated) /\ astray'
        /\ op # None /\ op.at \in Saves /\ healthy /\ Allowed /\ send = None /\ running
        /\ ~stopping' /\ deferred' = {} /\ file' = file
        /\ unrecorded' = IF op.at = "mark" THEN unrecorded + 1 ELSE unrecorded
    BY SavingGives DEF Swallowed, Unrecorded, storeVars
  <1>2. ShapeInv'
    BY <1>1, AcceptKeeps DEF IInv, ShapeInv
  <1>3. LockInv'
    BY <1>1, AcceptKeeps DEF LockInv
  <1>4. RecordInv'
    <2>1. ~Marked(data) => creates <= unrecorded
      BY <1>1, AcceptKeeps DEF IInv, RecordInv
    <2>2. /\ creates <= unrecorded + 1
          /\ file = None \/ ~Marked(file) => creates <= unrecorded
          /\ stale # None => Marked(stale)
      BY <1>1, AcceptKeeps DEF IInv, RecordInv
    <2>. QED
      BY <1>1, <2>1, <2>2, AcceptKeeps, AskedFacts DEF RecordInv, Marked
  <1>5. TrustInv'
    BY <1>1, AcceptKeeps DEF TrustInv, Settled
  <1>. QED
    BY <1>1, <1>2, <1>3, <1>4, <1>5, AcceptKeeps DEF IInv

\* So is one that is deferred.
LEMMA DeferredKeeps == IInv /\ Deferred => IInv'
  <1> SUFFICES ASSUME IInv, Deferred
               PROVE  IInv'
    OBVIOUS
  <1>1. /\ Accept(Updated) /\ deferred' = {Updated}
        /\ op # None /\ op.at \in Saves /\ healthy /\ Allowed /\ send = None /\ running
        /\ stopping' /\ file' = file
        /\ unrecorded' = IF op.at = "mark" THEN unrecorded + 1 ELSE unrecorded
    BY DEF Deferred, Unrecorded, Free, IInv, LockInv
  <1>2. ShapeInv'
    BY <1>1, AcceptKeeps DEF IInv, ShapeInv
  <1>3. LockInv'
    BY <1>1, AcceptKeeps DEF LockInv
  <1>4. RecordInv'
    <2>1. ~Marked(data) => creates <= unrecorded
      BY <1>1, AcceptKeeps DEF IInv, RecordInv
    <2>2. /\ creates <= unrecorded + 1
          /\ file = None \/ ~Marked(file) => creates <= unrecorded
          /\ stale # None => Marked(stale)
      BY <1>1, AcceptKeeps DEF IInv, RecordInv
    <2>. QED
      BY <1>1, <2>1, <2>2, AcceptKeeps, AskedFacts DEF RecordInv, Marked
  <1>5. TrustInv'
    BY <1>1, AcceptKeeps DEF TrustInv, Settled, Final
  <1>. QED
    BY <1>1, <1>2, <1>3, <1>4, <1>5, AcceptKeeps DEF IInv

\* A step that may replace the file, and no more than ends or fails the operation.
LEMMA FileKeeps ==
  ASSUME IInv, NEW next,
         file' \in {file, next},
         file' = next => next # None /\ "status" \in DOMAIN next
                         /\ (Marked(next) \/ Asked <= unrecorded),
         UNCHANGED <<ends, data, running, send, stale, creates>>,
         End \/ (op # None /\ Begin(op.kind, "suspend", None) /\ op.kind = "reconcile"),
         ~confirmed',
         healthy' => healthy
  PROVE  IInv'
  <1>1. ~Saving' /\ ~At("create")'
    BY BeginShape DEF Saving, At, End
  <1>2. ShapeInv'
    BY BeginShape DEF IInv, ShapeInv, End, ends
  <1>3. LockInv'
    BY <1>1 DEF IInv, LockInv, End, ends
  <1>4. KindInv'
    BY BeginShape DEF IInv, KindInv, End
  <1>5. RecordInv'
    <2>1. Asked' <= Asked /\ Asked' \in Nat
      BY <1>1, AskedFacts DEF Asked
    <2>. QED
      BY <1>1, <2>1, AskedFacts DEF IInv, RecordInv, Marked, ends
  <1>6. TrustInv'
    BY DEF TrustInv
  <1>. QED
    BY <1>2, <1>3, <1>4, <1>5, <1>6 DEF IInv

\* A save that failed, with the old file or the new one.
LEMMA NotSavedKeeps == IInv /\ NotSaved => IInv'
  <1> SUFFICES ASSUME IInv, NotSaved
               PROVE  IInv'
    OBVIOUS
  <1>1. /\ Saving /\ op # None /\ op.next # None /\ Fail
        /\ file' \in {file, op.next} /\ ~healthy'
        /\ UNCHANGED <<ends, data, running, send, stale, creates>>
    BY DEF NotSaved, Saving, worldVars, history, ends
  <1>2. Marked(op.next) \/ Asked <= unrecorded
    BY <1>1, SavingFacts DEF IInv, RecordInv, Marked
  <1>. QED
    BY <1>1, <1>2, SavingFacts, FailMoves, FileKeeps

\* A save whose caller was cancelled goes on to its end.
LEMMA CancelledKeeps == IInv /\ Cancelled => IInv'
  <1> SUFFICES ASSUME IInv, Cancelled
               PROVE  IInv'
    OBVIOUS
  <1>1. /\ End /\ op # None /\ op.kind # "setup"
        /\ file' \in (IF Saving THEN {file, op.next} ELSE {file})
        /\ UNCHANGED <<ends, data, healthy, confirmed, running, send, stale, creates>>
    BY DEF Cancelled, registryVars, worldVars, history, ends
  <1>2. ~confirmed'
    BY <1>1 DEF IInv, TrustInv
  <1>3. Saving => op.next # None /\ (Marked(op.next) \/ Asked <= unrecorded)
    BY SavingFacts DEF Saving, IInv, RecordInv, Marked
  <1>4. CASE Saving
    BY <1>1, <1>2, <1>3, <1>4, SavingFacts, FileKeeps
  <1>5. CASE ~Saving
    BY <1>1, <1>2, <1>5, FileKeeps
  <1>. QED
    BY <1>4, <1>5

\* A save of an earlier runtime is a record too.
LEMMA StaleSaveKeeps == IInv /\ StaleSave => IInv'
  <1> SUFFICES ASSUME IInv, StaleSave
               PROVE  IInv'
    OBVIOUS
  <1>1. /\ stale # None /\ stale' = None /\ file' \in {file, stale}
        /\ "status" \in DOMAIN stale /\ Marked(stale) /\ astray'
        /\ UNCHANGED <<stopping, deferred, unrecorded, data, healthy, confirmed, createdHere,
                       running, op, send, creates>>
    BY DEF StaleSave, registryVars, worldVars, IInv, ShapeInv, RecordInv
  <1>2. Updated' = Updated /\ Allowed' = Allowed
    BY <1>1 DEF Updated, Allowed, Reconciled, Occurred, Current, Premature
  <1>3. ShapeInv'
    BY <1>1 DEF IInv, ShapeInv
  <1>4. LockInv'
    BY <1>1, <1>2 DEF IInv, LockInv, Saving
  <1>5. KindInv'
    BY <1>1 DEF IInv, KindInv, Marked, Settled
  <1>6. RecordInv'
    BY <1>1 DEF IInv, RecordInv, Marked, Asked, At
  <1>7. TrustInv'
    BY <1>1 DEF IInv, TrustInv, Settled
  <1>. QED
    BY <1>3, <1>4, <1>5, <1>6, <1>7 DEF IInv

\* What a runtime leaves unfinished is a record: a creation is part of a setup, and
\* that is not left.
LEMMA UnfinishedFacts ==
  ASSUME IInv, op # None => op.kind # "setup", NEW next \in Unfinished
  PROVE  "status" \in DOMAIN next /\ Marked(next)
  <1>1. op # None /\ healthy
    BY DEF Unfinished
  <1>2. CASE Saving
    <2>1. next = op.next /\ op.at # "bind"
      BY <1>1, <1>2, SavingFacts DEF Unfinished, IInv, KindInv
    <2>. QED
      BY <1>2, <2>1, SavingFacts
  <1>3. CASE ~Saving /\ op.kind = "adopt"
    <2>1. op.at = "adopt" /\ next = Updated
      BY <1>1, <1>3 DEF Unfinished, IInv, KindInv
    <2>2. "status" \in DOMAIN data
      BY DEF IInv, ShapeInv
    <2>. QED
      BY <2>1, <2>2 DEF Updated, StatusAfter, Marked
  <1>4. CASE ~Saving /\ op.kind # "adopt"
    <2>1. "status" \in DOMAIN data
      BY DEF IInv, ShapeInv
    <2>2. CASE next \in {[data EXCEPT !.status = "ready"], [data EXCEPT !.status = "suspended"]}
      BY <2>1, <2>2 DEF Marked
    <2>3. CASE \E hint : next = Reconciled([data EXCEPT !.status = "ready"], roster, hint, now)
      BY <2>1, <2>3 DEF Reconciled, Marked
    <2>. QED
      BY <1>1, <1>4, <2>2, <2>3 DEF Unfinished
  <1>. QED
    BY <1>2, <1>3, <1>4

\* A reload forgets the memory; what it leaves unfinished is a record.
LEMMA ReloadKeeps == IInv /\ Reload => IInv'
  <1> SUFFICES ASSUME IInv, Reload
               PROVE  IInv'
    OBVIOUS
  <1>1. /\ End /\ ~running' /\ send = None /\ send' = None
        /\ data' = Pristine /\ ~healthy' /\ ~confirmed'
        /\ op # None => op.kind # "setup"
        /\ stale' \in Unfinished \cup {stale}
        /\ UNCHANGED <<file, stopping, deferred, unrecorded, creates>>
    BY DEF Reload, worldVars, storeVars
  <1>2. stale' # None => "status" \in DOMAIN stale' /\ Marked(stale')
    BY <1>1, UnfinishedFacts DEF IInv, ShapeInv, RecordInv
  <1>3. ShapeInv'
    BY <1>1, <1>2 DEF IInv, ShapeInv, End, Pristine
  <1>4. LockInv' /\ KindInv' /\ TrustInv'
    BY <1>1 DEF IInv, LockInv, KindInv, TrustInv, End, Saving
  <1>5. RecordInv'
    <2>1. ~At("create")'
      BY <1>1 DEF At, End
    <2>2. Asked' <= Asked /\ Asked' \in Nat
      BY <1>1, <2>1, AskedFacts DEF Asked
    <2>. QED
      BY <1>1, <1>2, <2>2, AskedFacts DEF IInv, RecordInv, Marked
  <1>. QED
    BY <1>3, <1>4, <1>5 DEF IInv

\* The end of the process forgets the memory and leaves one of the records in the file.
LEMMA GoneKeeps ==
  ASSUME IInv, Gone,
         \/ file' = file
         \/ /\ file' # None /\ "status" \in DOMAIN file'
            /\ Marked(file') \/ Asked <= unrecorded
  PROVE  IInv'
  <1>1. /\ op' = None /\ ~running' /\ send' = None /\ stale' = None
        /\ data' = Pristine /\ ~healthy' /\ ~confirmed' /\ deferred' = {}
        /\ UNCHANGED <<creates, unrecorded>>
    BY DEF Gone, worldVars
  <1>2. ShapeInv'
    BY <1>1 DEF IInv, ShapeInv, Pristine
  <1>3. LockInv' /\ KindInv' /\ TrustInv'
    BY <1>1 DEF LockInv, KindInv, TrustInv, Saving
  <1>4. RecordInv'
    <2>1. ~At("create")'
      BY <1>1 DEF At
    <2>2. Asked' <= Asked /\ Asked' \in Nat
      BY <1>1, <2>1, AskedFacts DEF Asked
    <2>. QED
      BY <1>1, <2>2, AskedFacts DEF IInv, RecordInv, Marked
  <1>. QED
    BY <1>2, <1>3, <1>4 DEF IInv

\* A crash keeps the file, old or new.
LEMMA CrashKeeps == IInv /\ Crash => IInv'
  <1> SUFFICES ASSUME IInv, Crash
               PROVE  IInv'
    OBVIOUS
  <1>1. Gone /\ file' \in (IF Saving THEN {file, op.next} ELSE {file})
    BY DEF Crash
  <1>2. Saving => /\ op.next # None /\ "status" \in DOMAIN op.next
                  /\ Marked(op.next) \/ Asked <= unrecorded
    BY SavingFacts DEF Saving, IInv, RecordInv, Marked
  <1>3. file' # file =>
          /\ file' # None /\ "status" \in DOMAIN file'
          /\ Marked(file') \/ Asked <= unrecorded
    BY <1>1, <1>2 DEF Marked
  <1>. QED
    BY <1>1, <1>3, GoneKeeps

\* An orderly end writes what was deferred, or what a late save left.
LEMMA ExitKeeps == IInv /\ Exit => IInv'
  <1> SUFFICES ASSUME IInv, Exit
               PROVE  IInv'
    OBVIOUS
  <1>1. Gone /\ file' \in Final \cup {stale} /\ file' # None
    BY DEF Exit
  <1>. QED
    BY <1>1, GoneKeeps DEF Final, IInv, ShapeInv, RecordInv, Marked

\* An alarm changes what is remembered of the operation, not where it stands.
LEMMA AlarmKeeps == IInv /\ Alarm => IInv'
  <1> SUFFICES ASSUME IInv, Alarm
               PROVE  IInv'
    OBVIOUS
  <1>1. /\ send # None /\ send' = None /\ ~confirmed' /\ ~Saving
        /\ op' = IF op = None THEN None ELSE [op EXCEPT !.fresh = FALSE]
        /\ UNCHANGED <<file, ends, data, healthy, running, stale, creates>>
        /\ running
    BY DEF Alarm, worldVars, storeVars, ends, IInv, LockInv
  <1>2. op # None => /\ op'.kind = op.kind /\ op'.at = op.at /\ op'.next = op.next
                     /\ DOMAIN op' = DOMAIN op
    BY <1>1 DEF IInv, ShapeInv
  <1>3. op' # None => op # None /\ op'.kind = op.kind /\ op'.at = op.at
    BY <1>1, <1>2
  <1>4. ~Saving' /\ (At("create")' => At("create"))
    BY <1>1, <1>2, <1>3 DEF Saving, At
  <1>5. ShapeInv'
    BY <1>1, <1>2 DEF IInv, ShapeInv, ends
  <1>6. LockInv'
    BY <1>1, <1>4 DEF IInv, LockInv, ends
  <1>7. KindInv'
    BY <1>1, <1>3 DEF IInv, KindInv, Marked, Settled
  <1>8. RecordInv'
    <2>1. Asked' <= Asked /\ Asked' \in Nat
      BY <1>1, <1>4, AskedFacts DEF Asked
    <2>. QED
      BY <1>1, <2>1, AskedFacts DEF IInv, RecordInv, Marked, ends
  <1>9. TrustInv'
    BY <1>1 DEF TrustInv
  <1>. QED
    BY <1>5, <1>6, <1>7, <1>8, <1>9 DEF IInv
-----------------------------------------------------------------------------
\* The steps of an operation between two saves.
LEMMA OperationKeeps ==
  IInv /\ (Checked \/ Unverified \/ Answered \/ Unanswered \/ Refused \/ Reconcile \/ Adopt)
    => IInv'
  <1> SUFFICES ASSUME IInv,
                      \/ Checked \/ Unverified \/ Answered \/ Unanswered
                      \/ Refused \/ Reconcile \/ Adopt
               PROVE  IInv'
    OBVIOUS
  <1> USE DEF registryVars, worldVars, storeVars, history, boundVars, ends
  <1>1. CASE Checked
    <2>1. op # None /\ op.kind = "setup" /\ running
      BY <1>1 DEF Checked, At, IInv, KindInv, LockInv
    <2>. QED
      BY <1>1, <2>1, MoveKeeps DEF Checked, Goto
  <1>2. CASE Unverified
    BY <1>2, FailMoves, MoveKeeps DEF Unverified
  <1>3. CASE Answered
    <2>1. op # None /\ op.kind = "setup" /\ running
      BY <1>3 DEF Answered, At, IInv, KindInv, LockInv
    <2>. QED
      BY <1>3, <2>1, MoveKeeps DEF Answered, Goto
  <1>4. CASE Unanswered
    <2>1. op # None /\ op.kind = "setup" /\ running
      BY <1>4 DEF Unanswered, IInv, KindInv, LockInv
    <2>. QED
      BY <1>4, <2>1, MoveKeeps DEF Unanswered, Goto
  <1>5. CASE Refused
    BY <1>5, FailMoves, MoveKeeps DEF Refused
  <1>6. CASE Reconcile
    <2>1. PICK hint : Begin("reconcile", "read", hint)
      BY <1>6 DEF Reconcile
    <2>. QED
      BY <1>6, <2>1, MoveKeeps DEF Reconcile
  <1>7. CASE Adopt
    <2>1. ~confirmed
      BY <1>7 DEF Adopt, IInv, TrustInv, Settled
    <2>. QED
      BY <1>7, <2>1, MoveKeeps DEF Adopt
  <1>. QED
    BY <1>1, <1>2, <1>3, <1>4, <1>5, <1>6, <1>7

\* Every step keeps the invariant.
LEMMA NextKeeps == IInv /\ [Next]_vars => IInv'
  <1> SUFFICES ASSUME IInv, [Next]_vars
               PROVE  IInv'
    OBVIOUS
  <1>1. CASE Suspend \/ Shutdown \/ World \/ Tick \/ UNCHANGED vars
    BY <1>1, IdleKeeps DEF Suspend, Shutdown, World, Tick, vars, registryVars,
       worldVars, storeVars, history, boundVars,
       IInv, LockInv
  <1>2. ASSUME NEW p \in Guests, Route(p)
        PROVE  IInv'
    BY <1>2, IdleKeeps DEF Route, Free, registryVars, worldVars, storeVars, history,
       boundVars
  <1>3. CASE Verify \/ Sent
    BY <1>3, IdleKeeps DEF Verify, Sent, registryVars, worldVars, storeVars, history,
       boundVars, IInv, LockInv
  <1>. QED
    BY <1>1, <1>2, <1>3, InitializeKeeps, SetupKeeps, CreateKeeps, ReadKeeps,
       BeginSaveKeeps, SavedKeeps, SwallowedKeeps, DeferredKeeps, NotSavedKeeps,
       CancelledKeeps, StaleSaveKeeps, ReloadKeeps, CrashKeeps, ExitKeeps, AlarmKeeps,
       OperationKeeps DEF Next

\* guest_manager.py, guest_registry.py: the inductive invariant holds, for any number of
\* guests, failing, swallowed and deferred saves, crashes, reloads and changes of the group.
THEOREM IInvHolds == Spec => []IInv
  BY InitKeeps, NextKeeps, PTL DEF Spec

\* guest_manager.py:239: WAHA is asked for at most one group, and for one more with each
\* record of an attempt that the Store swallowed or deferred; once it is asked for one that
\* is recorded the file says so.
THEOREM CreatedOnceHolds == Spec => []CreatedOnce
  <1>1. IInv => CreatedOnce
    BY AskedFacts DEF IInv, RecordInv, CreatedOnce, Marked
  <1>. QED
    BY <1>1, IInvHolds, PTL

\* guest_registry.py:242: what routes are trusted from is what the next start finds, unless
\* the Store swallowed the last save or one from before a reload came after it.
THEOREM ConfirmedIsSavedHolds == Spec => []ConfirmedIsSaved
  <1>1. IInv => ConfirmedIsSaved
    BY DEF IInv, TrustInv, ConfirmedIsSaved
  <1>. QED
    BY <1>1, IInvHolds, PTL

\* A send remembers its guest and the stay it was looked up in.
SendInv ==
  send # None => /\ {"to", "stay"} \subseteq DOMAIN send
                 /\ data.active[send.to] = send.stay
                 /\ data.status = "ready"

\* No step changes the stays of a guest under a send.
LEMMA SendKeeps == IInv /\ SendInv /\ [Next]_vars => SendInv'
  <1> SUFFICES ASSUME IInv, SendInv, [Next]_vars
               PROVE  SendInv'
    OBVIOUS
  <1>1. ASSUME NEW p \in Guests, Route(p)
        PROVE  SendInv'
    BY <1>1 DEF Route, Routed, SendInv, registryVars
  <1>2. CASE Verify
    <2>1. /\ send' = [send EXCEPT !.at = "send"] /\ send # None
          /\ data' = data
      BY <1>2 DEF Verify, registryVars
    <2>. QED
      BY <2>1 DEF SendInv
  <1>3. CASE Alarm \/ Sent \/ Crash \/ Exit
    BY <1>3 DEF Alarm, Sent, Crash, Exit, Gone, SendInv
  <1>4. CASE Setup \/ Saved \/ Swallowed \/ Deferred \/ Reload
    <2>1. send = None /\ send' = send
      BY <1>4, SavingGives DEF Setup, Saved, Swallowed, Deferred, Accept, Free, Reload,
         IInv,
         LockInv
    <2>. QED
      BY <2>1 DEF SendInv
  <1>5. CASE UNCHANGED <<send, data>>
    BY <1>5 DEF SendInv
  <1>6. CASE \/ Initialize \/ Checked \/ Unverified \/ Create \/ Answered \/ Unanswered
             \/ Read \/ BeginSave \/ Refused \/ NotSaved \/ Cancelled \/ Reconcile
             \/ Adopt \/ Suspend \/ StaleSave \/ Shutdown \/ World \/ Tick
    BY <1>5, <1>6 DEF Initialize, Checked, Unverified, Create, Answered, Unanswered, Read,
       BeginSave, Refused, NotSaved, Cancelled, Reconcile, Adopt, Suspend, StaleSave,
       Shutdown, World, Tick, registryVars
  <1>7. CASE UNCHANGED vars
    BY <1>5, <1>7 DEF vars, registryVars
  <1>. QED
    BY <1>1, <1>2, <1>3, <1>4, <1>6, <1>7 DEF Next

\* guest_registry.py:686: a private send is about one stay of its guest from its lookup
\* to its end.
THEOREM SendsToMembersHolds == Spec => []SendsToMembers
  <1>1. Init => SendInv
    BY DEF Init, SendInv
  <1>2. SendInv => SendsToMembers
    BY DEF SendInv, SendsToMembers
  <1>. QED
    BY <1>1, <1>2, SendKeeps, IInvHolds, PTL DEF Spec
-----------------------------------------------------------------------------
(***************************************************************************)
(* What a start accepts                                                    *)
(***************************************************************************)

Stay == [who : Guests, start : Nat, end : Nat]

Statuses == {"unconfigured", "creating", "create_unknown", "group_saved", "ready",
             "suspended"}

Data == [account : BOOLEAN, group : BOOLEAN, status : Statuses,
         active : [Guests -> Nat], closed : SUBSET Stay, seen : Nat]

\* Who is in the group as far as d knows.
Staying(d) == {p \in Guests : d.active[p] # 0}

\* A record that a start accepts, observed by time t, whose present stays began before it
\* was observed; only finitely many guests have a stay.
Good(d, t) ==
  /\ d \in Data
  /\ Validates(d)
  /\ IsFiniteSet(d.closed) /\ IsFiniteSet(Staying(d))
  /\ d.seen <= t
  /\ \A p \in Guests : d.active[p] <= d.seen

\* What an operation has read, and what it has reached where it saves a status.
OpInv ==
  op # None =>
    /\ {"roster", "hint", "when"} \subseteq DOMAIN op
    /\ op.hint \in Hint \cup {None}
    /\ op.roster \in SUBSET Guests /\ IsFiniteSet(op.roster)
    /\ op.when \in Nat /\ op.when <= now
    /\ op.at = "mark" => data.account
    /\ op.at \in {"enable", "ready", "suspend"} => Settled(data)
    /\ op.kind = "adopt" => Marked(data)

\* The memory, the file and what may replace it.
GoodInv ==
  /\ now \in Nat
  /\ roster \in SUBSET Guests /\ IsFiniteSet(roster)
  /\ Good(data, now)
  /\ file # None => Good(file, now)
  /\ stale # None => Good(stale, now)
  /\ \A d \in deferred : Good(d, now)

FileInv == OpInv /\ GoodInv
-----------------------------------------------------------------------------
\* Of the elements of a finite set of stays, any number can be picked that none of the
\* others outlasts.
LEMMA LatestExist ==
  ASSUME NEW S \in SUBSET Stay, IsFiniteSet(S), NEW n \in Nat, n <= Cardinality(S)
  PROVE  \E kept \in kSubset(n, S) :
           \A stay \in kept, gone \in S \ kept : stay.end >= gone.end
  <1>. DEFINE Latest(kept, T) ==
                kept \in kSubset(n, T)
                /\ \A stay \in kept, gone \in T \ kept : stay.end >= gone.end
              P == {T \in SUBSET S : n <= Cardinality(T) => \E kept : Latest(kept, T)}
  <1>1. ASSUME NEW T \in SUBSET S, \A U \in SUBSET T : U # T => U \in P,
               n <= Cardinality(T)
        PROVE  \E kept : Latest(kept, T)
    <2>1. IsFiniteSet(T) /\ Cardinality(T) \in Nat
      BY FS_Subset, FS_CardinalityType
    <2>2. CASE n = Cardinality(T)
      <3>1. T \in kSubset(n, T)
        BY <2>2 DEF kSubset
      <3>. QED
        BY <3>1
    <2>3. CASE n < Cardinality(T)
      <3>1. T # {}
        BY <2>1, <2>3, FS_EmptySet
      <3>2. PICK x \in T : \A y \in T : x.end <= y.end
        <4>1. {y.end : y \in T} \in SUBSET Nat /\ {y.end : y \in T} # {}
          BY <3>1 DEF Stay
        <4>2. PICK m \in {y.end : y \in T} : \A k \in {y.end : y \in T} : m <= k
          BY <4>1, LeastNumber
        <4>. QED
          BY <4>2
      <3>3. /\ T \ {x} \in SUBSET T /\ T \ {x} # T
            /\ Cardinality(T \ {x}) = Cardinality(T) - 1
        BY <2>1, <3>2, FS_RemoveElement
      <3>4. n <= Cardinality(T \ {x})
        BY <2>1, <2>3, <3>3
      <3>5. PICK kept : Latest(kept, T \ {x})
        BY <1>1, <3>3, <3>4
      <3>6. kept \in kSubset(n, T) /\ kept \subseteq T \ {x}
        BY <3>5 DEF kSubset
      <3>7. ASSUME NEW stay \in kept, NEW gone \in T \ kept
            PROVE  stay.end >= gone.end
        <4>1. stay \in Stay /\ gone \in Stay
          BY <3>6
        <4>2. stay.end \in Nat /\ gone.end \in Nat
          BY <4>1 DEF Stay
        <4>3. CASE gone = x
          BY <3>2, <3>6, <4>2, <4>3
        <4>4. CASE gone # x
          BY <3>5, <4>4
        <4>. QED
          BY <4>3, <4>4
      <3>. QED
        BY <3>6, <3>7
    <2>4. Cardinality(T) \in Nat
      BY <2>1
    <2>. QED
      BY <1>1, <2>2, <2>3, <2>4
  <1>2. \A T \in SUBSET S : (\A U \in SUBSET T : U # T => U \in P) => T \in P
    BY <1>1
  <1>3. S \in P
    <2>. HIDE DEF P
    <2>. QED
      BY <1>2, SubsetInduction
  <1>. QED
    BY <1>3

\* Pruning picks from the stays that are over.
LEMMA PrunedSome ==
  ASSUME NEW S \in SUBSET Stay, IsFiniteSet(S)
  PROVE  Pruned(S) \subseteq S
  <1>1. CASE Cardinality(S) <= MaxClosed
    BY <1>1 DEF Pruned
  <1>2. CASE ~(Cardinality(S) <= MaxClosed)
    <2>1. MaxClosed \in Nat /\ Cardinality(S) \in Nat
      BY GuestBoundsAssumption, FS_CardinalityType
    <2>2. \E kept \in kSubset(MaxClosed, S) :
            \A stay \in kept, gone \in S \ kept : stay.end >= gone.end
      BY <1>2, <2>1, LatestExist
    <2>3. Pruned(S) \in kSubset(MaxClosed, S)
      BY <1>2, <2>2 DEF Pruned
    <2>. QED
      BY <2>3 DEF kSubset
  <1>. QED
    BY <1>1, <1>2

\* What has the stays of a good record, and a status that fits, is good.
LEMMA LikeGood ==
  ASSUME NEW d, Good(d, now), NEW e \in Data,
         e.active = d.active, e.closed = d.closed, e.seen = d.seen,
         e.status # "unconfigured" => e.account,
         e.group <=> e.status \in {"group_saved", "ready", "suspended"},
         d.group => e.group
  PROVE  Good(e, now)
  <1>1. Staying(e) = Staying(d)
    BY DEF Staying
  <1>2. d.group \in BOOLEAN /\ e.group \in BOOLEAN
    BY DEF Good, Data
  <1>3. Validates(e)
    BY <1>2 DEF Good, Validates
  <1>. QED
    BY <1>1, <1>3 DEF Good

\* Stays that a roster ends began before, and those it begins began by then, whatever the
\* time of the hint.
LEMMA ReconciledGood ==
  ASSUME NEW d, Good(d, now), Settled(d), now \in Nat,
         NEW members \in SUBSET Guests, IsFiniteSet(members),
         NEW hint \in Hint \cup {None}, NEW when \in Nat, d.seen <= when, when <= now,
         ~Premature(hint, d, when)
  PROVE  Good(Reconciled(d, members, hint, when), now)
  <1>. DEFINE e == Reconciled(d, members, hint, when)
              left == {p \in Guests \ members : d.active[p] # 0}
              over == {[who |-> p, start |-> d.active[p],
                        end |-> Occurred(p, "leave", hint, d, when)] : p \in left}
              active == [p \in Guests |->
                           IF p \notin members THEN 0
                           ELSE IF d.active[p] # 0 THEN d.active[p]
                           ELSE Occurred(p, "join", hint, d, when)]
  <1>1. /\ d \in Data /\ d.seen \in Nat /\ d.active \in [Guests -> Nat]
        /\ d.closed \in SUBSET Stay /\ IsFiniteSet(d.closed)
        /\ \A p \in Guests : d.active[p] \in Nat /\ d.active[p] <= d.seen
    BY DEF Good, Data
  <1>2. \A p \in Guests, type \in {"join", "leave"} :
          /\ Occurred(p, type, hint, d, when) \in Nat
          /\ d.seen <= Occurred(p, type, hint, d, when)
          /\ Occurred(p, type, hint, d, when) <= when
    <2>1. hint # None => hint.at \in Nat
      BY GuestBoundsAssumption DEF Hint
    <2>. QED
      BY <1>1, <2>1 DEF Occurred, Current, Premature
  <1>3. e = [d EXCEPT !.active = active, !.closed = Pruned(d.closed \cup over), !.seen = when]
    BY DEF Reconciled
  <1>4. active \in [Guests -> Nat] /\ \A p \in Guests : active[p] <= when
    BY <1>1, <1>2
  <1>5. over \in SUBSET Stay /\ \A stay \in over : stay.start <= stay.end
    <2>1. ASSUME NEW p \in left
          PROVE  /\ d.active[p] \in Nat /\ Occurred(p, "leave", hint, d, when) \in Nat
                 /\ d.active[p] <= Occurred(p, "leave", hint, d, when)
      BY <1>1, <1>2
    <2>. QED
      BY <2>1 DEF Stay
  <1>6. IsFiniteSet(over)
    <2>1. IsFiniteSet(left)
      BY FS_Subset DEF Good, Staying
    <2>. DEFINE f == [p \in left |->
                       [who |-> p, start |-> d.active[p],
                        end |-> Occurred(p, "leave", hint, d, when)]]
    <2>2. f \in Surjection(left, over)
      BY DEF Surjection
    <2>. HIDE DEF left, over, f
    <2>. QED
      BY <2>1, <2>2, FS_Surjection
  <1>. HIDE DEF over, active
  <1>7. /\ Pruned(d.closed \cup over) \in SUBSET Stay
        /\ Pruned(d.closed \cup over) \subseteq d.closed \cup over
        /\ IsFiniteSet(Pruned(d.closed \cup over))
    <2>1. IsFiniteSet(d.closed \cup over) /\ d.closed \cup over \in SUBSET Stay
      BY <1>1, <1>5, <1>6, FS_Union
    <2>2. Pruned(d.closed \cup over) \subseteq d.closed \cup over
      BY <2>1, PrunedSome
    <2>. QED
      BY <2>1, <2>2, FS_Subset
  <1>8. /\ e \in Data /\ e.active = active /\ e.closed = Pruned(d.closed \cup over)
        /\ e.seen = when /\ e.status = d.status /\ e.group = d.group
        /\ e.account = d.account
    <2>. HIDE DEF e
    <2>. QED
      BY <1>1, <1>3, <1>4, <1>7 DEF Data
  <1>. HIDE DEF e
  <1>9. IsFiniteSet(Staying(e))
    <2>1. Staying(e) \subseteq members
      BY <1>8 DEF Staying, active
    <2>. QED
      BY <2>1, FS_Subset
  <1>10. Validates(e)
    <2>1. \A stay \in d.closed : stay.start <= stay.end
      BY DEF Good, Validates
    <2>2. /\ d.status # "unconfigured" => d.account
          /\ d.group <=> d.status \in {"group_saved", "ready", "suspended"}
      BY DEF Good, Validates
    <2>3. e.group
      BY <1>8, <2>2 DEF Settled
    <2>. QED
      BY <1>5, <1>7, <1>8, <2>1, <2>2, <2>3 DEF Validates
  <1>11. Good(e, now)
    BY <1>4, <1>7, <1>8, <1>9, <1>10 DEF Good
  <1>. QED
    BY <1>11 DEF e

\* What any save writes is good.
LEMMA UpdatedGood ==
  ASSUME IInv, FileInv, op # None, op.at \in Saves, Allowed
  PROVE  Good(Updated, now)
  <1>1. Good(data, now) /\ data \in Data /\ Validates(data)
    BY DEF FileInv, GoodInv, Good
  <1>2. CASE op.at = "bind"
    <2>1. Updated = [data EXCEPT !.account = TRUE]
      BY <1>2 DEF Updated
    <2>2. Updated \in Data
      BY <1>1, <2>1 DEF Data
    <2>. QED
      BY <1>1, <2>1, <2>2, LikeGood DEF Data, Validates
  <1>3. CASE op.at = "roster"
    <2>1. /\ Updated = Reconciled(data, op.roster, op.hint, op.when)
          /\ data.seen <= op.when /\ ~Premature(op.hint, data, op.when)
      BY <1>3 DEF Updated, Allowed
    <2>2. Settled(data)
      BY <1>3 DEF IInv, KindInv
    <2>. QED
      BY <1>1, <2>1, <2>2, ReconciledGood DEF FileInv, OpInv, GoodInv
  <1>4. CASE op.at \in Saves \ {"bind", "roster"}
    <2>1. Updated = [data EXCEPT !.group = @ \/ op.at \in {"group", "adopt"},
                                 !.status = StatusAfter[op.at]]
      BY <1>4 DEF Updated
    <2>2. StatusAfter[op.at] \in Statuses \ {"unconfigured"}
      BY <1>4 DEF StatusAfter, Saves, Statuses
    <2>3. /\ Updated \in Data /\ Updated.account = data.account
          /\ Updated.group = (data.group \/ op.at \in {"group", "adopt"})
          /\ Updated.status = StatusAfter[op.at]
          /\ Updated.active = data.active /\ Updated.closed = data.closed
          /\ Updated.seen = data.seen
      BY <1>1, <2>1, <2>2 DEF Data
    <2>4. data.account
      BY <1>1, <1>4 DEF Saves, Allowed, Validates, FileInv, OpInv, Settled
    <2>5. Updated.group <=> Updated.status \in {"group_saved", "ready", "suspended"}
      <3>1. data.group \in BOOLEAN
            /\ (data.group <=> data.status \in {"group_saved", "ready", "suspended"})
        BY <1>1 DEF Data, Validates
      <3>2. CASE op.at \in {"mark", "unknown"}
        <4>1. ~data.group
          BY <3>1, <3>2 DEF Allowed
        <4>2. StatusAfter[op.at] \notin {"group_saved", "ready", "suspended"}
          BY <3>2 DEF StatusAfter
        <4>. QED
          BY <2>3, <3>2, <4>1, <4>2
      <3>3. CASE op.at \in {"group", "adopt"}
        <4>1. StatusAfter[op.at] \in {"group_saved", "ready", "suspended"}
          BY <3>3 DEF StatusAfter
        <4>. QED
          BY <2>3, <3>3, <4>1
      <3>4. CASE op.at \in {"enable", "ready", "suspend"}
        <4>1. data.group
          BY <3>1, <3>4 DEF FileInv, OpInv, Settled
        <4>2. StatusAfter[op.at] \in {"group_saved", "ready", "suspended"}
          BY <3>4 DEF StatusAfter
        <4>. QED
          BY <2>3, <4>1, <4>2
      <3>. QED
        BY <1>4, <3>2, <3>3, <3>4 DEF Saves
    <2>. QED
      BY <1>1, <2>3, <2>4, <2>5, LikeGood
  <1>. QED
    BY <1>2, <1>3, <1>4

\* So is what a runtime leaves unfinished.
LEMMA UnfinishedGood ==
  ASSUME IInv, FileInv, NEW next \in Unfinished
  PROVE  Good(next, now)
  <1>1. /\ op # None /\ Good(data, now) /\ data \in Data /\ Validates(data) /\ now \in Nat
        /\ op.hint \in Hint \cup {None}
    BY DEF Unfinished, FileInv, GoodInv, OpInv, Good
  <1>2. CASE Saving
    <2>1. next = Updated /\ op.at \in Saves /\ Allowed
      BY <1>1, <1>2 DEF Unfinished, IInv, LockInv
    <2>. QED
      BY <1>1, <2>1, UpdatedGood
  <1>3. CASE ~Saving /\ op.kind = "adopt"
    <2>1. next = Updated /\ op.at = "adopt" /\ Marked(data)
      BY <1>1, <1>3 DEF Unfinished, IInv, KindInv, FileInv, OpInv
    <2>2. Updated = [data EXCEPT !.group = TRUE, !.status = "suspended"]
      <3>1. StatusAfter[op.at] = "suspended"
        BY <2>1 DEF StatusAfter
      <3>2. Updated = [data EXCEPT !.group = @ \/ op.at \in {"group", "adopt"},
                                   !.status = StatusAfter[op.at]]
        BY <2>1 DEF Updated
      <3>3. (data.group \/ op.at \in {"group", "adopt"}) = TRUE
        BY <2>1
      <3>. QED
        BY <3>1, <3>2, <3>3, Zenon
    <2>3. Updated \in Data
      BY <1>1, <2>2 DEF Data, Statuses
    <2>4. data.account
      BY <1>1, <2>1 DEF Validates, Marked
    <2>. QED
      BY <1>1, <2>1, <2>2, <2>3, <2>4, LikeGood DEF Data
  <1>4. CASE ~Saving /\ op.kind # "adopt"
    <2>1. /\ data.group /\ data.account /\ data.status \in {"ready", "suspended"}
          /\ \/ \E s \in {"ready", "suspended"} : next = [data EXCEPT !.status = s]
             \/ /\ ~Premature(op.hint, data, now)
                /\ next = Reconciled([data EXCEPT !.status = "ready"], roster, op.hint, now)
      BY <1>1, <1>4 DEF Unfinished, Validates, Premature
    <2>2. ASSUME NEW s \in {"ready", "suspended"}
          PROVE  /\ Good([data EXCEPT !.status = s], now)
                 /\ [data EXCEPT !.status = s].status = s
                 /\ [data EXCEPT !.status = s].seen = data.seen
      <3>. DEFINE e == [data EXCEPT !.status = s]
      <3>1. e \in Data
        BY <1>1 DEF Data, Statuses
      <3>2. /\ e.active = data.active /\ e.closed = data.closed /\ e.seen = data.seen
            /\ e.account = data.account /\ e.group = data.group /\ e.status = s
        BY <1>1 DEF Data
      <3>. HIDE DEF e
      <3>3. Good(e, now)
        BY <1>1, <2>1, <3>1, <3>2, LikeGood
      <3>. QED
        BY <3>2, <3>3 DEF e
    <2>3. CASE \E s \in {"ready", "suspended"} : next = [data EXCEPT !.status = s]
      BY <2>2, <2>3
    <2>4. CASE /\ ~Premature(op.hint, data, now)
               /\ next = Reconciled([data EXCEPT !.status = "ready"], roster, op.hint, now)
      <3>. DEFINE e == [data EXCEPT !.status = "ready"]
      <3>1. Good(e, now) /\ Settled(e) /\ e.seen = data.seen
        BY <2>2 DEF Settled
      <3>2. ~Premature(op.hint, e, now)
        BY <2>4, <3>1 DEF Premature
      <3>3. e.seen <= now /\ roster \in SUBSET Guests /\ IsFiniteSet(roster)
        BY <3>1 DEF Good, FileInv, GoodInv
      <3>. HIDE DEF e
      <3>4. Good(Reconciled(e, roster, op.hint, now), now)
        BY <1>1, <3>1, <3>2, <3>3, ReconciledGood
      <3>. QED
        BY <2>4, <3>4 DEF e
    <2>. QED
      BY <2>1, <2>3, <2>4
  <1>. QED
    BY <1>2, <1>3, <1>4
-----------------------------------------------------------------------------
\* What is good stays so while time passes.
LEMMA GoodLater ==
  ASSUME NEW d, NEW t \in Nat, NEW u \in Nat, t <= u, Good(d, t)
  PROVE  Good(d, u)
  <1>1. d.seen \in Nat
    BY DEF Good, Data
  <1>. QED
    BY <1>1 DEF Good

\* The empty record is good.
LEMMA PristineGood ==
  ASSUME now \in Nat
  PROVE  Good(Pristine, now)
  <1>1. Pristine \in Data
    BY DEF Pristine, Data, Statuses, Stay
  <1>2. Staying(Pristine) = {} /\ Pristine.closed = {}
    BY DEF Pristine, Staying
  <1>3. Validates(Pristine)
    BY DEF Pristine, Validates
  <1>4. \A p \in Guests : Pristine.active[p] <= Pristine.seen
    BY DEF Pristine
  <1>5. Pristine.seen <= now
    BY DEF Pristine
  <1>. QED
    BY <1>1, <1>2, <1>3, <1>4, <1>5, FS_EmptySet DEF Good

\* Where the contents of memory, file and late save come from.
LEMMA Brought ==
  ASSUME [Next]_vars
  PROVE  /\ \/ data' \in {data, Pristine}
            \/ file # None /\ data' = file
            \/ Saving /\ data' = op.next
            \/ Deferred /\ data' = Updated
         /\ \/ file' \in {file, Pristine}
            \/ Saving /\ file' = op.next
            \/ file' # None /\ file' \in deferred \cup {stale}
         /\ \/ deferred' \in {deferred, {}}
            \/ Deferred /\ deferred' = {Updated}
         /\ stale' \in Unfinished \cup {stale, None}
         /\ now' \in {now, now + 1}
         /\ roster' = roster \/ \E p \in Guests : roster' = (roster \ {p}) \cup ({p} \ roster)
  <1>1. CASE \/ Checked \/ Unverified \/ Create \/ Answered \/ Unanswered \/ Read \/ BeginSave
             \/ Refused \/ Reconcile \/ Adopt \/ Suspend \/ Verify \/ Alarm \/ Sent
             \/ (\E p \in Guests : Route(p)) \/ UNCHANGED vars
    BY <1>1 DEF Checked, Unverified, Create, Answered, Unanswered, Read, BeginSave,
       Refused,
       Reconcile, Adopt, Suspend, Verify, Alarm, Sent, Route, vars, registryVars,
       worldVars, storeVars, history
  <1>2. CASE Initialize
    BY <1>2 DEF Initialize, registryVars, worldVars, storeVars, history
  <1>3. CASE Setup
    <2>1. data' = Pristine \/ (file # None /\ data' = file)
      BY <1>3 DEF Setup, Restore
    <2>. QED
      BY <1>3, <2>1 DEF Setup, worldVars, storeVars, history
  <1>4. CASE Saved \/ Swallowed \/ Deferred
    BY <1>4 DEF Saved, Swallowed, Deferred, Accept, worldVars, storeVars
  <1>5. CASE NotSaved \/ Cancelled
    BY <1>5 DEF NotSaved, Cancelled, registryVars, worldVars, storeVars, history
  <1>6. CASE Reload
    BY <1>6 DEF Reload, worldVars, storeVars, history
  <1>7. CASE StaleSave
    BY <1>7 DEF StaleSave, registryVars, worldVars, storeVars, history
  <1>8. CASE Crash \/ Exit
    <2>1. \/ file' = file
          \/ Saving /\ file' = op.next
          \/ file' # None /\ file' \in deferred \cup {stale}
      BY <1>8 DEF Crash, Exit, Final
    <2>. QED
      BY <1>8, <2>1 DEF Crash, Exit, Gone, worldVars
  <1>9. CASE World \/ Shutdown
    BY <1>9 DEF World, Shutdown, registryVars, worldVars, storeVars
  <1>10. CASE Tick
    BY <1>10 DEF Tick, registryVars, worldVars, storeVars, history
  <1>. QED
    BY <1>1, <1>2, <1>3, <1>4, <1>5, <1>6, <1>7, <1>8, <1>9, <1>10 DEF Next

\* Every step leaves good contents only.
LEMMA GoodKept ==
  ASSUME IInv, FileInv, [Next]_vars
  PROVE  GoodInv'
  <1>1. /\ now \in Nat /\ now' \in Nat /\ now <= now'
        /\ Good(data, now)
        /\ file # None => Good(file, now)
        /\ stale # None => Good(stale, now)
        /\ \A d \in deferred : Good(d, now)
        /\ roster \in SUBSET Guests /\ IsFiniteSet(roster)
    BY Brought DEF FileInv, GoodInv
  <1>2. Saving => Good(op.next, now)
    <2>1. Saving => op # None /\ op.at \in Saves /\ Allowed /\ op.next = Updated
      BY DEF IInv, LockInv, Saving
    <2>. QED
      BY <2>1, UpdatedGood
  <1>3. Good(Pristine, now)
    BY <1>1, PristineGood
  <1>4. Deferred => Good(Updated, now)
    BY UpdatedGood DEF Deferred
  <1>5. /\ Good(data', now)
        /\ file' # None => Good(file', now)
        /\ stale' # None => Good(stale', now)
        /\ \A d \in deferred' : Good(d, now)
    BY <1>1, <1>2, <1>3, <1>4, Brought, UnfinishedGood
  <1>6. /\ Good(data', now')
        /\ file' # None => Good(file', now')
        /\ stale' # None => Good(stale', now')
        /\ \A d \in deferred' : Good(d, now')
    BY <1>1, <1>5, GoodLater
  <1>7. roster' \in SUBSET Guests /\ IsFiniteSet(roster')
    <2>1. CASE roster' = roster
      BY <1>1, <2>1
    <2>2. ASSUME NEW p \in Guests, roster' = (roster \ {p}) \cup ({p} \ roster)
          PROVE  roster' \in SUBSET Guests /\ IsFiniteSet(roster')
      <3>1. IsFiniteSet(roster \ {p}) /\ IsFiniteSet({p} \ roster)
        BY <1>1, FS_Subset, FS_Singleton
      <3>. QED
        BY <1>1, <2>2, <3>1, FS_Union
    <2>. QED
      BY <2>1, <2>2, Brought
  <1>. QED
    BY <1>1, <1>6, <1>7 DEF GoodInv

\* What an operation that has just begun, or gone on, knows.
LEMMA OpBegun ==
  ASSUME NEW kind, NEW at, NEW hint \in Hint \cup {None}, Begin(kind, at, hint),
         now' \in Nat,
         at = "mark" => data'.account,
         at \in {"enable", "ready", "suspend"} => Settled(data'),
         kind = "adopt" => Marked(data')
  PROVE  OpInv'
  <1>1. op' = [kind |-> kind, at |-> at, hint |-> hint, roster |-> {}, when |-> 0,
               fresh |-> FALSE, next |-> None]
    BY DEF Begin
  <1>2. /\ op'.kind = kind /\ op'.at = at /\ op'.hint = hint /\ op'.roster = {}
        /\ op'.when = 0 /\ {"roster", "hint", "when"} \subseteq DOMAIN op'
    BY <1>1
  <1>3. IsFiniteSet({})
    BY FS_EmptySet
  <1>. QED
    BY <1>2, <1>3 DEF OpInv, Settled, Marked, Hint

\* What goes on with what it knows keeps it.
LEMMA OpStays ==
  ASSUME OpInv, now \in Nat, now' \in Nat, now <= now', data' = data,
         op' # None =>
           /\ op # None /\ DOMAIN op' = DOMAIN op
           /\ op'.kind = op.kind /\ op'.at = op.at /\ op'.hint = op.hint
           /\ op'.roster = op.roster /\ op'.when = op.when
  PROVE  OpInv'
  BY DEF OpInv, Settled, Marked, Hint

\* Every step leaves an operation that knows what it needs.
LEMMA OpKept ==
  ASSUME IInv, FileInv, [Next]_vars
  PROVE  OpInv'
  <1>1. now \in Nat /\ now' \in Nat /\ now <= now' /\ OpInv
    BY Brought DEF FileInv, GoodInv
  <1>2. op # None => /\ {"kind", "at", "next"} \subseteq DOMAIN op
                     /\ {"roster", "hint", "when"} \subseteq DOMAIN op
    BY DEF IInv, ShapeInv, FileInv, OpInv
  <1>3. CASE \/ Initialize \/ Suspend \/ (\E p \in Guests : Route(p)) \/ Verify \/ Sent
             \/ StaleSave \/ Shutdown \/ World \/ Tick \/ UNCHANGED vars
    <2>1. op' = op /\ data' = data
      BY <1>3 DEF Initialize, Suspend, Route, Verify, Sent, StaleSave, Shutdown, World,
         Tick,
         vars, registryVars
    <2>. QED
      BY <1>1, <2>1, OpStays
  <1>4. CASE Cancelled \/ Reload \/ Crash \/ Exit
    BY <1>4 DEF Cancelled, Reload, Crash, Exit, Gone, End, OpInv
  <1>5. CASE Setup
    BY <1>1, <1>5, OpBegun DEF Setup
  <1>6. CASE Checked \/ Create \/ Answered \/ Unanswered
    <2>1. op # None /\ data' = data
          /\ \E at \in {"bind", "created", "group", "unknown"} : Begin(op.kind, at, None)
      BY <1>6 DEF Checked, Create, Answered, Unanswered, At, Goto, registryVars
    <2>2. op.kind = "adopt" => Marked(data')
      BY <1>1, <2>1 DEF OpInv
    <2>. QED
      BY <1>1, <2>1, <2>2, OpBegun
  <1>7. CASE Unverified \/ Refused \/ NotSaved
    <2>1. op # None /\ data' = data /\ Fail
      BY <1>7 DEF Unverified, Refused, NotSaved, Saving
    <2>2. CASE End
      BY <2>2 DEF End, OpInv
    <2>3. CASE ~End
      <3>1. Begin(op.kind, "suspend", None) /\ op.kind = "reconcile" /\ Settled(data)
        BY <2>1, <2>3 DEF Fail, Goto, Settled
      <3>. QED
        BY <1>1, <2>1, <3>1, OpBegun
    <2>. QED
      BY <2>2, <2>3
  <1>8. CASE Read
    <2>1. /\ op # None /\ data' = data
          /\ op' = [op EXCEPT !.roster = roster, !.fresh = TRUE, !.when = now,
                              !.at = IF op.kind = "reconcile" /\ data.status = "suspended"
                                     THEN "ready" ELSE "roster"]
      BY <1>8 DEF Read
    <2>2. /\ DOMAIN op' = DOMAIN op /\ op'.roster = roster /\ op'.when = now
          /\ op'.hint = op.hint /\ op'.kind = op.kind
          /\ op'.at \in {"ready", "roster"}
          /\ op'.at = "ready" => data.status = "suspended"
      BY <1>2, <2>1
    <2>3. roster \in SUBSET Guests /\ IsFiniteSet(roster)
      BY DEF FileInv, GoodInv
    <2>. QED
      BY <1>1, <2>1, <2>2, <2>3 DEF OpInv, Settled, Marked, Hint
  <1>9. CASE BeginSave
    <2>1. op # None /\ data' = data /\ op' = [op EXCEPT !.next = Updated]
      BY <1>9 DEF BeginSave, registryVars
    <2>2. /\ DOMAIN op' = DOMAIN op /\ op'.kind = op.kind /\ op'.at = op.at
          /\ op'.hint = op.hint /\ op'.roster = op.roster /\ op'.when = op.when
      BY <1>2, <2>1
    <2>. QED
      BY <1>1, <2>1, <2>2, OpStays
  <1>10. CASE Alarm
    <2>1. /\ data' = data
          /\ op' = IF op = None THEN None ELSE [op EXCEPT !.fresh = FALSE]
      BY <1>10 DEF Alarm
    <2>2. op' # None =>
            /\ op # None /\ DOMAIN op' = DOMAIN op /\ op'.kind = op.kind /\ op'.at = op.at
            /\ op'.hint = op.hint /\ op'.roster = op.roster /\ op'.when = op.when
      BY <1>2, <2>1
    <2>. QED
      BY <1>1, <2>1, <2>2, OpStays
  <1>11. CASE Reconcile
    BY <1>1, <1>11, OpBegun DEF Reconcile
  <1>12. CASE Adopt
    BY <1>1, <1>12, OpBegun DEF Adopt, Marked, registryVars
  <1>13. CASE Saved \/ Swallowed \/ Deferred
    <2>1. /\ op # None /\ data' = Updated /\ AfterSave /\ op.at \in Saves /\ Allowed
      BY <1>13, SavingGives DEF Saved, Swallowed, Deferred, Accept
    <2>2. op.kind = "adopt" => op.at = "adopt"
      BY <2>1 DEF IInv, KindInv
    <2>3. CASE op.at = "bind"
      <3>1. Updated.account
        <4>1. Updated = [data EXCEPT !.account = TRUE]
          BY <2>3 DEF Updated
        <4>. QED
          BY <4>1 DEF FileInv, GoodInv, Good, Data
      <3>2. End \/ \E at \in {"provision", "mark"} : Begin(op.kind, at, None)
        BY <2>1, <2>3 DEF AfterSave, AfterBind, Goto
      <3>3. CASE End
        BY <3>3 DEF End, OpInv
      <3>. QED
        BY <1>1, <2>1, <2>2, <2>3, <3>1, <3>2, <3>3, OpBegun
    <2>4. CASE op.at \in {"mark", "group"}
      <3>1. \E at \in {"create", "provision"} : Begin(op.kind, at, None)
        BY <2>1, <2>4 DEF AfterSave, Goto
      <3>. QED
        BY <1>1, <2>2, <2>4, <3>1, OpBegun
    <2>5. CASE op.at = "ready"
      <3>1. op' = [op EXCEPT !.at = "roster", !.next = None, !.when = now]
        BY <2>1, <2>5 DEF AfterSave
      <3>2. /\ DOMAIN op' = DOMAIN op /\ op'.kind = op.kind /\ op'.at = "roster"
            /\ op'.hint = op.hint /\ op'.roster = op.roster /\ op'.when = now
        BY <1>2, <2>1, <3>1
      <3>. QED
        BY <1>1, <2>1, <2>2, <2>5, <3>2 DEF OpInv, Hint
    <2>6. CASE op.at = "roster"
      <3>1. Settled(data')
        BY <2>1, <2>6, ToWrite DEF Settled
      <3>2. End \/ Begin(op.kind, "enable", None)
        BY <2>1, <2>6 DEF AfterSave, Goto
      <3>3. CASE End
        BY <3>3 DEF End, OpInv
      <3>. QED
        BY <1>1, <2>2, <2>6, <3>1, <3>2, <3>3, OpBegun
    <2>7. CASE op.at \notin {"bind", "mark", "group", "ready", "roster"}
      BY <2>1, <2>7 DEF AfterSave, End, OpInv
    <2>. QED
      BY <2>3, <2>4, <2>5, <2>6, <2>7
  <1>. QED
    BY <1>3, <1>4, <1>5, <1>6, <1>7, <1>8, <1>9, <1>10, <1>11, <1>12, <1>13 DEF Next

\* guest_registry.py:223: for any guests, hints, failing saves, reloads and crashes, the
\* file is one that the next start accepts.
THEOREM FileValidatesHolds == Spec => []FileValidates
  <1>1. Init => FileInv
    <2>. SUFFICES ASSUME Init
                  PROVE  FileInv
      OBVIOUS
    <2>1. /\ now = 1 /\ data = Pristine /\ file = None /\ stale = None /\ op = None
          /\ roster = {} /\ deferred = {}
      BY DEF Init
    <2>2. Good(Pristine, now)
      BY <2>1, PristineGood
    <2>3. IsFiniteSet({})
      BY FS_EmptySet
    <2>. QED
      BY <2>1, <2>2, <2>3 DEF FileInv, OpInv, GoodInv
  <1>2. IInv /\ FileInv /\ [Next]_vars => FileInv'
    BY GoodKept, OpKept DEF FileInv
  <1>3. FileInv => FileValidates
    BY DEF FileInv, GoodInv, Good, FileValidates
  <1>. QED
    BY <1>1, <1>2, <1>3, IInvHolds, PTL DEF Spec
=============================================================================
