------------------------------ MODULE GuestGroup ------------------------------
(***************************************************************************)
(* The managed guest group (guest_manager.py, guest_registry.py): a group   *)
(* is created at WAHA at most once, its roster is read, compared with what *)
(* is saved, saved and then trusted for routes.  The manager has a lock for *)
(* setup, reconciliation and adoption; the registry has one for its data,   *)
(* which a private send holds from the lookup of its route to its end.      *)
(* The Store of the registry is the plain one of Home Assistant: a save may *)
(* return although nothing was written.                                     *)
(***************************************************************************)
EXTENDS Naturals, FiniteSets, FiniteSetsExt

CONSTANTS
  Guests,       \* accounts that join and leave the group
  MaxClosed,    \* MAX_CLOSED_MEMBERSHIPS
  MaxTime,      \* bound: the clock stops here
  MaxFailures,  \* bound: failing, swallowed or cancelled saves
  MaxCrashes,   \* bound: ends of the process
  MaxReloads,   \* bound: reloads of the entry
  MaxChanges,   \* bound: changes of the group at WAHA
  None          \* no file, no operation, no send

ASSUME GuestBoundsAssumption ==
  /\ MaxClosed \in Nat \ {0} /\ MaxTime \in Nat \ {0}
  /\ {MaxFailures, MaxCrashes, MaxReloads, MaxChanges} \subseteq Nat

VARIABLES
  file,         \* the Store of the registry: as data, or None
  stopping,     \* Home Assistant stops: the Store defers what it is given
  deferred,     \* what the Store has deferred to the very end: one save, the last, or {}
  data,         \* _data
  healthy,      \* storage_healthy
  confirmed,    \* confirmed: the saved roster is trusted
  createdHere,  \* _create_started_here
  running,      \* the entry is set up
  op,           \* who holds the lock of the manager, and how far it is
  send,         \* a private send, which holds the lock of the registry
  stale,        \* what a reconciliation of the runtime before a reload will save
  creates,      \* groups that WAHA created
  roster,       \* who is in the group at WAHA
  intruder,     \* an unreviewed participant is an admin of the group
  alarmed,      \* history: an intruder was seen, and no later roster was verified
  unrecorded,   \* history: attempts to create whose save returned without a write
  astray,       \* history: the last save was swallowed, or a late one came after it
  now,          \* the wall clock
  failures, crashes, reloads, changes

registryVars == <<data, healthy, confirmed, createdHere>>
storeVars == <<file, stopping, deferred>>
worldVars == <<creates, roster, intruder, changes>>
history == <<alarmed, unrecorded, astray>>
boundVars == <<failures, crashes, reloads>>
vars == <<storeVars, registryVars, running, op, send, stale, worldVars, history, now,
          boundVars>>
-----------------------------------------------------------------------------
(* The operators named ...Variant are plausible mistakes in the definition    *)
(* that follows them; the specification does not use them.                   *)

\* A participant event, authenticated, but of any time: the clocks differ.
Hint == [who : Guests, type : {"join", "leave"}, at : 1 .. MaxTime + 1]

\* An operation waits for WAHA, or, here, for the lock of the registry and a save.
Saves == {"bind", "mark", "unknown", "group", "enable", "roster", "ready", "suspend",
          "adopt"}

\* _empty: when the present stay of each guest began (0 for none), the stays that
\* are over, and when the roster was last observed (0 for never).
Pristine == [account |-> FALSE, group |-> FALSE, status |-> "unconfigured",
             active |-> [p \in Guests |-> 0], closed |-> {}, seen |-> 0]

Begin(kind, at, hint) ==
  op' = [kind |-> kind, at |-> at, hint |-> hint, roster |-> {}, when |-> 0,
         fresh |-> FALSE, next |-> None]
At(stage) == op # None /\ op.at = stage
Saving == op # None /\ op.next # None
Goto(stage) == Begin(op.kind, stage, None)
End == op' = None

\* A send holds the lock for the lookup of its route only.
FreeVariant == ~Saving

\* The lock of the registry.
Free == send = None /\ ~Saving
-----------------------------------------------------------------------------
\* What _validate asks of a Store that a start reads.
Validates(d) ==
  /\ d.status # "unconfigured" => d.account
  /\ d.group <=> d.status \in {"group_saved", "ready", "suspended"}
  /\ ~d.group => d.closed = {} /\ \A p \in Guests : d.active[p] = 0
  /\ \A stay \in d.closed : stay.start <= stay.end

\* A hint is of use unless it is older than the roster before; one from the future
\* fails the reconciliation.
Current(hint, d) == hint # None /\ d.seen # 0 /\ hint.at >= d.seen
Premature(hint, d, when) ==
  hint # None /\ hint.at > when /\ (d.seen # 0 => hint.at >= d.seen)

\* Delayed hints are not left out.
OccurredVariant(p, type, hint, d, when) ==
  IF hint # None /\ hint.who = p /\ hint.type = type THEN hint.at ELSE when

\* provenance: the time of a change is that of its hint, or of the observation.
Occurred(p, type, hint, d, when) ==
  IF Current(hint, d) /\ hint.who = p /\ hint.type = type THEN hint.at ELSE when

\* _prune: of the stays that are over the latest are kept.
Pruned(closed) ==
  IF Cardinality(closed) <= MaxClosed THEN closed
  ELSE CHOOSE kept \in kSubset(MaxClosed, closed) :
         \A stay \in kept, gone \in closed \ kept : stay.end >= gone.end

\* async_reconcile of the registry: stays begin and end.
Reconciled(d, members, hint, when) ==
  LET left == {p \in Guests \ members : d.active[p] # 0}
  IN [d EXCEPT
       !.active = [p \in Guests |->
         IF p \notin members THEN 0
         ELSE IF d.active[p] # 0 THEN d.active[p]
         ELSE Occurred(p, "join", hint, d, when)],
       !.closed = Pruned(@ \cup
         {[who |-> p, start |-> d.active[p], end |-> Occurred(p, "leave", hint, d, when)] :
            p \in left}),
       !.seen = when]

\* The status that each save but the first and those of a roster writes.
StatusAfter == [mark |-> "creating", unknown |-> "create_unknown", group |-> "group_saved",
                adopt |-> "suspended", suspend |-> "suspended", enable |-> "ready",
                ready |-> "ready"]

\* What a save writes, each under the lock of the registry.
Updated ==
  IF op.at = "bind" THEN [data EXCEPT !.account = TRUE]
  ELSE IF op.at = "roster" THEN Reconciled(data, op.roster, op.hint, op.when)
  ELSE [data EXCEPT !.group = @ \/ op.at \in {"group", "adopt"},
                    !.status = StatusAfter[op.at]]

\* What the registry refuses with an error.
Allowed ==
  /\ op.at = "mark" => ~data.group /\ data.status = "unconfigured"
  /\ op.at = "unknown" => data.status = "creating"
  /\ op.at = "group" => /\ ~data.group /\ data.account
                        /\ data.status # "create_unknown"
                        /\ data.status = "creating" => createdHere
  /\ op.at = "adopt" => ~data.group /\ data.status \in {"creating", "create_unknown"}
  /\ op.at = "roster" => data.seen <= op.when /\ ~Premature(op.hint, data, op.when)
-----------------------------------------------------------------------------
(***************************************************************************)
(* async_initialize_empty, async_start, async_setup                        *)
(***************************************************************************)

\* The options flow, when the feature is confirmed the first time; what is there is
\* never replaced.  A save that is swallowed here changes nothing.
Initialize ==
  /\ file = None /\ ~stopping
  /\ file' = Pristine
  /\ UNCHANGED <<stopping, deferred, registryVars, running, op, send, stale, worldVars,
                 history, now, boundVars>>

\* async_start: a Store that validates is restored, but not confirmed.
Restore ==
  /\ healthy' = (file # None /\ Validates(file))
  /\ astray' = FALSE
  /\ UNCHANGED <<alarmed, unrecorded>>
  /\ data' = IF healthy' THEN file ELSE Pristine
  /\ confirmed' = FALSE
  /\ createdHere' = FALSE

Setup ==
  /\ ~running
  /\ running' = TRUE
  /\ Restore
  /\ Begin("setup", "checks", None)
  /\ UNCHANGED <<storeVars, send, stale, worldVars, now, boundVars>>

\* An error of the setup, or of a reconciliation: nothing is trusted, and what was
\* ready is saved as suspended.
Fail ==
  /\ confirmed' = FALSE
  /\ IF op.kind = "reconcile" /\ op.at # "suspend" /\ data.status \in {"ready", "suspended"}
     THEN Goto("suspend") ELSE End

\* Versions, session, account, admins: any of these requests may fail.
Checked ==
  /\ At("checks")
  /\ healthy
  /\ Goto("bind")
  /\ UNCHANGED <<storeVars, registryVars, running, send, stale, worldVars, history, now,
                 boundVars>>

\* A request failed, or what it shows is not what was reviewed.
Unverified ==
  /\ op # None /\ op.at \in {"checks", "provision", "read"}
  /\ Fail
  /\ UNCHANGED <<storeVars, data, healthy, createdHere, running, send, stale, worldVars,
                 history, now, boundVars>>

\* The request to create the group, and what becomes of it.
Create ==
  /\ At("create")
  /\ creates' = creates + 1
  /\ Goto("created")
  /\ UNCHANGED <<storeVars, registryVars, running, send, stale, roster, intruder, changes,
                 history, now, boundVars>>

Answered ==
  /\ At("created")
  /\ Goto("group")
  /\ UNCHANGED <<storeVars, registryVars, running, send, stale, worldVars, history, now,
                 boundVars>>

\* No answer: the group may be there.
Unanswered ==
  /\ op # None /\ op.at \in {"create", "created"}
  /\ Goto("unknown")
  /\ UNCHANGED <<storeVars, registryVars, running, send, stale, worldVars, history, now,
                 boundVars>>

\* _finish_provisioning and async_reconcile, to the roster that they verified; the
\* time is that of the call of the registry, which confirms nothing from there on.
Read ==
  /\ op # None /\ op.at \in {"provision", "read"}
  /\ ~intruder
  /\ op.kind = "reconcile" =>
       healthy /\ data.group /\ data.status \in {"ready", "suspended"}
  /\ op' = [op EXCEPT !.roster = roster, !.fresh = TRUE, !.when = now,
                      !.at = IF op.kind = "reconcile" /\ data.status = "suspended"
                             THEN "ready" ELSE "roster"]
  /\ confirmed' = FALSE
  /\ UNCHANGED <<storeVars, data, healthy, createdHere, running, send, stale, worldVars,
                 history, now, boundVars>>
-----------------------------------------------------------------------------
(***************************************************************************)
(* _save                                                                   *)
(***************************************************************************)
BeginSave ==
  /\ op # None /\ op.at \in Saves
  /\ Free /\ ~stopping
  /\ healthy /\ Allowed
  /\ op' = [op EXCEPT !.next = Updated]
  /\ UNCHANGED <<storeVars, registryVars, running, send, stale, worldVars, history, now,
                 boundVars>>

Refused ==
  /\ op # None /\ op.at \in Saves
  /\ Free
  /\ ~(healthy /\ Allowed)
  /\ Fail
  /\ UNCHANGED <<storeVars, data, healthy, createdHere, running, send, stale, worldVars,
                 history, now, boundVars>>

\* The attempt is not recorded before the request.
AfterBindVariant ==
  IF data.group THEN IF data.status = "group_saved" THEN Goto("provision") ELSE End
  ELSE IF data.status = "unconfigured" THEN Goto("create") ELSE End

\* After the account is bound a group that is saved is verified by itself, one
\* whose creation is not settled needs an administrator.
AfterBind ==
  IF data.group THEN IF data.status = "group_saved" THEN Goto("provision") ELSE End
  ELSE IF data.status = "unconfigured" THEN Goto("mark") ELSE End

\* What comes after a save that returned.
AfterSave ==
  \/ op.at = "bind" /\ AfterBind
  \/ op.at = "mark" /\ Goto("create")
  \/ op.at = "group" /\ Goto("provision")
  \/ op.at = "ready" /\ op' = [op EXCEPT !.at = "roster", !.next = None, !.when = now]
  \/ op.at = "roster" /\ op.kind = "setup" /\ Goto("enable")
  \/ op.at = "roster" /\ op.kind = "reconcile" /\ End
  \/ op.at \in {"unknown", "adopt", "suspend", "enable"} /\ End

\* async_save returned: d is taken to be saved.
Accept(d) ==
  /\ data' = d
  /\ confirmed' = (op.at = "roster"
                   \/ (confirmed /\ op.at \notin {"unknown", "adopt", "suspend"}))
  /\ createdHere' = (op.at = "mark"
                     \/ (createdHere /\ op.at \notin {"unknown", "group", "adopt"}))
  /\ alarmed' = (alarmed /\ ~(op.at = "roster" /\ op.fresh))
  /\ AfterSave
  /\ UNCHANGED <<healthy, running, send, stale, worldVars, now, crashes, reloads>>

\* The record of an attempt to create is not in the file.
Unrecorded ==
  unrecorded' = IF op.at = "mark" THEN unrecorded + 1 ELSE unrecorded

Saved ==
  /\ Saving
  /\ file' = op.next
  /\ astray' = FALSE
  /\ Accept(op.next)
  /\ UNCHANGED <<stopping, deferred, unrecorded, failures>>

\* The Store logs that it could not write, and returns as if it had.
Swallowed ==
  /\ Saving
  /\ failures < MaxFailures
  /\ failures' = failures + 1
  /\ astray' = TRUE
  /\ Unrecorded
  /\ Accept(op.next)
  /\ UNCHANGED storeVars

\* While Home Assistant stops the Store keeps what it is given for the end, and
\* returns at once.
Deferred ==
  /\ op # None /\ op.at \in Saves
  /\ Free /\ stopping
  /\ healthy /\ Allowed
  /\ deferred' = {Updated}
  /\ astray' = FALSE
  /\ Unrecorded
  /\ Accept(Updated)
  /\ UNCHANGED <<file, stopping, failures>>

\* A failure is taken for the loss of one step only.
NotSavedVariant ==
  /\ Saving
  /\ failures < MaxFailures
  /\ failures' = failures + 1
  /\ file' \in {file, op.next}
  /\ End
  /\ UNCHANGED <<stopping, deferred, registryVars, running, send, stale, worldVars,
                 history, now, crashes, reloads>>

\* The save raises: the file may hold the new data, and nothing is saved any more.
NotSaved ==
  /\ Saving
  /\ failures < MaxFailures
  /\ failures' = failures + 1
  /\ file' \in {file, op.next}
  /\ healthy' = FALSE
  /\ Fail
  /\ UNCHANGED <<stopping, deferred, data, createdHere, running, send, stale, worldVars,
                 history, now, crashes, reloads>>

\* The caller of a reconciliation or an adoption is cancelled: the file is written,
\* or will not be, and the memory stays behind.
Cancelled ==
  /\ op # None /\ op.kind # "setup"
  /\ failures < MaxFailures
  /\ failures' = failures + 1
  /\ file' \in (IF Saving THEN {file, op.next} ELSE {file})
  /\ End
  /\ UNCHANGED <<stopping, deferred, registryVars, running, send, stale, worldVars,
                 history, now, crashes, reloads>>
-----------------------------------------------------------------------------
(***************************************************************************)
(* async_reconcile, async_adopt_unknown_group, suspend                     *)
(***************************************************************************)

\* A query, a timer, or a webhook with a hint.
Reconcile ==
  /\ running /\ op = None
  /\ \E hint \in Hint \cup {None} : Begin("reconcile", "read", hint)
  /\ confirmed' = FALSE
  /\ UNCHANGED <<storeVars, data, healthy, createdHere, running, send, stale, worldVars,
                 history, now, boundVars>>

\* An administrator names the group of a creation without an outcome; all reads
\* show what was reviewed.
Adopt ==
  /\ running /\ op = None
  /\ healthy /\ data.status \in {"creating", "create_unknown"}
  /\ creates > 0 /\ ~intruder
  /\ Begin("adopt", "adopt", None)
  /\ UNCHANGED <<storeVars, registryVars, running, send, stale, worldVars, history, now,
                 boundVars>>

\* The session cannot be read, or a send to the group failed.
Suspend ==
  /\ running /\ confirmed
  /\ confirmed' = FALSE
  /\ UNCHANGED <<storeVars, data, healthy, createdHere, running, op, send, stale, worldVars,
                 history, now, boundVars>>
-----------------------------------------------------------------------------
(***************************************************************************)
(* async_with_route and _verify_live                                       *)
(***************************************************************************)

\* resolve_route
Routed(p) == healthy /\ confirmed /\ data.status = "ready" /\ data.active[p] # 0

Route(p) ==
  /\ running
  /\ Free
  /\ Routed(p)
  /\ send' = [to |-> p, stay |-> data.active[p], at |-> "verify"]
  /\ UNCHANGED <<storeVars, registryVars, running, op, stale, worldVars, history, now,
                 boundVars>>

\* The roster that is read afresh has the guest and no intruder.
Verify ==
  /\ send # None /\ send.at = "verify"
  /\ send.to \in roster /\ ~intruder
  /\ send' = [send EXCEPT !.at = "send"]
  /\ UNCHANGED <<storeVars, registryVars, running, op, stale, worldVars, history, now,
                 boundVars>>

\* An intruder is seen: routes are suspended at once.
Alarm ==
  /\ send # None /\ send.at = "verify"
  /\ intruder
  /\ send' = None
  /\ confirmed' = FALSE
  /\ alarmed' = TRUE
  /\ op' = IF op = None THEN None ELSE [op EXCEPT !.fresh = FALSE]
  /\ UNCHANGED <<storeVars, data, healthy, createdHere, running, stale, worldVars,
                 unrecorded, astray, now, boundVars>>

\* The check fails, or the send ends.
Sent ==
  /\ send # None
  /\ send' = None
  /\ UNCHANGED <<storeVars, registryVars, running, op, stale, worldVars, history, now,
                 boundVars>>
-----------------------------------------------------------------------------
(***************************************************************************)
(* Reload, crash, and the world                                            *)
(***************************************************************************)

\* What a reconciliation or an adoption that is under way may still save: nothing
\* waits for it.
Unfinished ==
  IF op = None \/ ~healthy THEN {}
  ELSE IF Saving THEN {op.next}
  ELSE IF op.kind = "adopt" THEN {Updated}
  ELSE IF ~data.group \/ data.status = "group_saved" THEN {}
  ELSE {[data EXCEPT !.status = "ready"], [data EXCEPT !.status = "suspended"]} \cup
       {Reconciled([data EXCEPT !.status = "ready"], roster, hint, now) :
          hint \in {h \in {op.hint} : ~Premature(h, data, now)}}

\* async_unload_entry waits for sends that were admitted, and a setup ends first.
Reload ==
  /\ running /\ ~stopping
  /\ reloads < MaxReloads
  /\ send = None
  /\ op # None => op.kind # "setup"
  /\ reloads' = reloads + 1
  /\ stale' \in Unfinished \cup {stale}
  /\ running' = FALSE
  /\ End
  /\ data' = Pristine
  /\ healthy' = FALSE
  /\ confirmed' = FALSE
  /\ createdHere' = FALSE
  /\ alarmed' = FALSE
  /\ UNCHANGED <<storeVars, send, worldVars, unrecorded, astray, now, failures, crashes>>

StaleSave ==
  /\ stale # None /\ ~stopping
  /\ file' \in {file, stale}
  /\ stale' = None
  /\ astray' = TRUE
  /\ UNCHANGED <<stopping, deferred, registryVars, running, op, send, worldVars, alarmed,
                 unrecorded, now, boundVars>>

\* Home Assistant begins to stop; a save that has begun is taken to end before.
Shutdown ==
  /\ running /\ ~stopping /\ ~Saving
  /\ crashes < MaxCrashes
  /\ stopping' = TRUE
  /\ UNCHANGED <<file, deferred, registryVars, running, op, send, stale, worldVars, history,
                 now, boundVars>>

\* The process ends, and its memory with it.
Gone ==
  /\ running
  /\ crashes < MaxCrashes
  /\ crashes' = crashes + 1
  /\ stopping' = FALSE /\ deferred' = {}
  /\ stale' = None
  /\ running' = FALSE
  /\ op' = None
  /\ send' = None
  /\ data' = Pristine
  /\ healthy' = FALSE
  /\ confirmed' = FALSE
  /\ createdHere' = FALSE
  /\ alarmed' = FALSE
  /\ UNCHANGED <<worldVars, unrecorded, astray, now, failures, reloads>>

Crash ==
  /\ file' \in (IF Saving THEN {file, op.next} ELSE {file})
  /\ Gone

\* What an orderly end leaves in the file.
Final == IF deferred = {} THEN {file} ELSE deferred

\* The final write, also that of a Store from before a reload, in any order.
Exit ==
  /\ stopping
  /\ file' \in (Final \cup {stale}) \ {None}
  /\ Gone

\* Accounts join and leave the group; somebody makes an account an admin.
World ==
  /\ creates > 0
  /\ changes < MaxChanges
  /\ changes' = changes + 1
  /\ \/ \E p \in Guests : roster' = (roster \ {p}) \cup ({p} \ roster) /\ UNCHANGED intruder
     \/ intruder' = ~intruder /\ UNCHANGED roster
  /\ UNCHANGED <<storeVars, registryVars, running, op, send, stale, creates, history, now,
                 boundVars>>

Tick ==
  /\ now < MaxTime
  /\ now' = now + 1
  /\ UNCHANGED <<storeVars, registryVars, running, op, send, stale, worldVars, history,
                 boundVars>>
-----------------------------------------------------------------------------
Init ==
  /\ file = None
  /\ data = Pristine
  /\ healthy = FALSE /\ confirmed = FALSE /\ createdHere = FALSE
  /\ stopping = FALSE /\ deferred = {}
  /\ running = FALSE
  /\ op = None /\ send = None /\ stale = None
  /\ creates = 0 /\ roster = {} /\ intruder = FALSE
  /\ alarmed = FALSE /\ unrecorded = 0 /\ astray = FALSE
  /\ now = 1
  /\ failures = 0 /\ crashes = 0 /\ reloads = 0 /\ changes = 0

Next ==
  \/ Initialize \/ Setup \/ Checked \/ Unverified
  \/ Create \/ Answered \/ Unanswered \/ Read
  \/ BeginSave \/ Refused \/ Saved \/ Swallowed \/ Deferred \/ NotSaved \/ Cancelled
  \/ Reconcile \/ Adopt \/ Suspend
  \/ (\E p \in Guests : Route(p)) \/ Verify \/ Alarm \/ Sent
  \/ Reload \/ StaleSave \/ Shutdown \/ Crash \/ Exit \/ World \/ Tick

Spec == Init /\ [][Next]_vars
-----------------------------------------------------------------------------
\* guest_manager.py:239: over lost answers, failing saves, crashes and reloads
\* WAHA is asked to create at most one group, and what is saved says from the
\* request on that it may exist.  Each further group takes an attempt of its own
\* whose record the Store swallowed or deferred: nothing else lets one through.
CreatedOnce ==
  /\ creates <= 1 + unrecorded
  /\ creates > unrecorded => file # None /\ file.status # "unconfigured"

\* guest_registry.py:223: whatever the hints, failures and restarts, the file is
\* one that the next start accepts: it would refuse it for good.
FileValidates ==
  file # None => Validates(file)

\* guest_registry.py:686: a private send goes to a guest whose stay is the one of
\* its conversation until the send ends: no reconciliation comes in between.
SendsToMembers ==
  send # None => /\ data.active[send.to] = send.stay
                 /\ data.status = "ready"

\* guest_registry.py:242: what is trusted for routes is what the next start finds, over
\* saves that fail, are cancelled or are deferred, also after a reload: unless the
\* Store swallowed the last save, or one from before a reload came after it.
ConfirmedIsSaved ==
  confirmed => healthy /\ (astray \/ Final = {data})

\* docs/GUEST_GROUP_API.md:365-369: after an intruder was seen routing is suspended
\* until a roster that was read later is verified.
SuspendedUntilReverified ==
  alarmed => ~confirmed
=============================================================================
