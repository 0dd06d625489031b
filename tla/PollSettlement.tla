---------------------------- MODULE PollSettlement ----------------------------
(***************************************************************************)
(* WahaPollManager and its PollRegistry (poll_manager.py, polls.py): polls *)
(* that were sent wait for one stable vote, which is saved, then announced *)
(* as an action or an event.  A runtime is one WahaPollManager object; all *)
(* runtimes of an entry share a writer slot and a poll file.  A task is a  *)
(* registration, the handling of a vote, or the settlement that a timer    *)
(* started; it holds the manager's lock over every write of the file.      *)
(***************************************************************************)
EXTENDS Naturals, FiniteSets, Sequences, SequencesExt

CONSTANTS
  Polls,        \* message ids of the polls that are sent
  Applications, \* those sent for an application, which keep a receipt
  Runtimes,     \* manager objects
  Tasks,        \* tasks that can be under way at one time
  SettleTime,   \* settle_seconds
  MaxVote,      \* bound: vote timestamps are 1 .. MaxVote, and 0 is no vote
  MaxAttempts,  \* the number of RECOVERY_DELAYS
  MaxRecovery,  \* MAX_RECOVERY_POLLS
  Skew,         \* how much too early, by the wall clock, a timer can fire
  MaxTime,      \* bound: the clock stops here
  MaxCrashes,   \* bound: process crashes
  None          \* no poll, no snapshot, no timer, no task, no owner

ASSUME ApplicationsAssumption == Applications \subseteq Polls
ASSUME PollBoundsAssumption ==
  {SettleTime, MaxVote, MaxAttempts, MaxRecovery, Skew, MaxTime, MaxCrashes}
    \subseteq Nat

VARIABLES
  disk,         \* the poll file
  mem,          \* _registry of each runtime
  snap,         \* the registry a runtime's executor is writing, or None
  lock,         \* _lock: the task or the starting runtime that holds it
  phase,        \* progress of async_start
  stopping,     \* runtimes with _stopping
  slotLock,     \* _PollWriterSlot.lock
  owner,        \* _PollWriterSlot.owner
  timer,        \* _timers: the work that is scheduled for a poll
  recovery,     \* _recovery: the vote that is retried, and how often it was
  task,         \* the tasks under way
  registered,   \* the polls handed to async_register_poll
  spent,        \* polls whose retries were counted as retry_exhausted
  accepted,     \* history: the votes accepted
  acked,        \* history: the newest vote of each poll known to be saved
  journal,      \* history: the receipts an application could have read
  settled,      \* history: the last announcement of each poll
  announced,    \* history: how often each poll was announced
  now,          \* the clock
  crashes       \* how often the process died

fileVars == <<disk, mem, snap, lock>>
runtimeVars == <<phase, stopping, slotLock, owner>>
workVars == <<timer, recovery, spent>>
historyVars == <<accepted, acked, journal, settled, announced>>
envVars == <<registered, now, crashes>>
vars == <<fileVars, runtimeVars, workVars, task, historyVars, envVars>>
-----------------------------------------------------------------------------
\* PendingPoll: its newest accepted vote (0: none yet), whether that vote
\* selects an option, and when it may be settled.
Votes == 0 .. MaxVote
Pending == [ts : Votes, chosen : BOOLEAN, due : 0 .. MaxTime + SettleTime]
Receipt == [poll : Applications, ts : Votes]
Registry == [polls : [Polls -> Pending \cup {None}], receipts : Seq(Receipt)]
EmptyRegistry == [polls |-> [p \in Polls |-> None], receipts |-> <<>>]
Unvoted == [ts |-> 0, chosen |-> FALSE, due |-> 0]

Timer == [ts : Votes, due : 0 .. MaxTime + SettleTime, retry : BOOLEAN]
Recovery == [ts : Votes, attempts : 1 .. MaxAttempts]

\* What tasks wait for: the lock, the end of a write, or the publication.
Waiting == {"register", "vote", "commit", "recover"}
Writing == {"registering", "voting", "committing", "rewriting"}
Job == [at : Waiting \cup Writing \cup {"publish"}, rt : Runtimes, poll : Polls,
        ts : Votes]

ASSUME PollNoneAssumption ==
  /\ None \notin Tasks \cup Runtimes \cup Pending \cup Registry
  /\ None \notin Timer \cup Recovery \cup Job
  /\ Tasks \cap Runtimes = {}

At(t, label) == task[t] # None /\ task[t].at = label
Rt(t) == task[t].rt
Poll(t) == task[t].poll
Here(t) == mem[Rt(t)]
Entry(t) == Here(t).polls[Poll(t)]
Fenced(r) == r \in stopping \/ owner # r

Goto(t, label) == task' = [task EXCEPT ![t].at = label]
Finish(t) == task' = [task EXCEPT ![t] = None]
-----------------------------------------------------------------------------
(* The operators named ...Variant are plausible mistakes in the definition    *)
(* that follows them; the specification does not use them.                   *)

Larger(x, y) == IF x >= y THEN x ELSE y

\* Every vote in a snapshot that is acknowledged is known to be saved.
Acknowledge(m) ==
  acked' = [p \in Polls |-> IF m.polls[p] = None THEN acked[p]
                            ELSE Larger(acked[p], m.polls[p].ts)]

(***************************************************************************)
(* _write_registry over DurableStore.async_save.  A cancelled caller learns*)
(* that it was cancelled when the write has been acknowledged; a write that*)
(* fails can have replaced the file or not.                                *)
(***************************************************************************)
Write(r, result) ==
  /\ snap[r] # None
  /\ snap' = [snap EXCEPT ![r] = None]
  /\ \/ /\ result \in {"ok", "cancelled"}
        /\ disk' = snap[r]
        /\ Acknowledge(snap[r])
     \/ /\ result = "failed"
        /\ disk' \in {disk, snap[r]}
        /\ UNCHANGED acked

\* Task t takes the lock and hands registry m to the executor.
Save(t, m) ==
  /\ lock' = [lock EXCEPT ![Rt(t)] = t]
  /\ snap' = [snap EXCEPT ![Rt(t)] = m]

Release(r) == lock' = [lock EXCEPT ![r] = None]

\* PollRegistry.commit and remember_selection: the poll is consumed, and an
\* application poll leaves a receipt.
Consumed(m, p) ==
  [polls |-> [m.polls EXCEPT ![p] = None],
   receipts |-> IF p \in Applications
                THEN Append(m.receipts, [poll |-> p, ts |-> m.polls[p].ts])
                ELSE m.receipts]

\* _cancel_work and _recovery.pop.
CancelWork(r, p) ==
  /\ timer' = [timer EXCEPT ![r][p] = None]
  /\ recovery' = [recovery EXCEPT ![r][p] = None]
  /\ spent' = [spent EXCEPT ![r] = @ \ {p}]

\* _schedule_commit, which does nothing once the manager is stopped.
Scheduled(r, p, entry, retry) ==
  IF r \in stopping THEN timer
  ELSE [timer EXCEPT ![r][p] = [ts |-> entry.ts, due |-> entry.due,
                                retry |-> retry]]

\* How often the newest vote of p was retried.
Attempts(r, p, ts) ==
  IF recovery[r][p] # None /\ recovery[r][p].ts = ts
  THEN recovery[r][p].attempts ELSE 0

\* One retry too many.
NoRetryVariant(r, p, ts) ==
  \/ /\ recovery[r][p] = None
     /\ Cardinality({q \in Polls : recovery[r][q] # None}) >= MaxRecovery
  \/ Attempts(r, p, ts) > MaxAttempts

\* The table is full (with entries that may be exhausted), or the delays are
\* used up.
NoRetry(r, p, ts) ==
  \/ /\ recovery[r][p] = None
     /\ Cardinality({q \in Polls : recovery[r][q] # None}) >= MaxRecovery
  \/ Attempts(r, p, ts) >= MaxAttempts

(***************************************************************************)
(* _schedule_recovery for the vote ts of p, whose entry is the given one (or*)
(* None).  The delays 1, 5 and 30 are not told apart: a retry comes at some*)
(* time, but not before the vote may be settled.                           *)
(***************************************************************************)
ScheduleRecovery(r, p, ts, entry) ==
  \/ /\ r \in stopping
     /\ UNCHANGED workVars
  \/ /\ r \notin stopping
     /\ NoRetry(r, p, ts)
     /\ spent' = [spent EXCEPT ![r] = @ \cup {p}]
     /\ UNCHANGED <<timer, recovery>>
  \/ /\ r \notin stopping
     /\ ~NoRetry(r, p, ts)
     /\ recovery' = [recovery EXCEPT ![r][p] =
                       [ts |-> ts, attempts |-> Attempts(r, p, ts) + 1]]
     /\ timer' = [timer EXCEPT ![r][p] =
                    [ts |-> ts, due |-> entry.due, retry |-> TRUE]]
     /\ UNCHANGED spent
-----------------------------------------------------------------------------
(***************************************************************************)
(* async_start, stop and async_stop                                        *)
(***************************************************************************)

\* A setup of the entry made manager r and enters the writer slot.
EnterSlot(r) ==
  /\ phase[r] = "new"
  /\ slotLock = None
  /\ slotLock' = r
  /\ phase' = [phase EXCEPT ![r] = "slot"]
  /\ UNCHANGED <<fileVars, stopping, owner, workVars, task, historyVars, envVars>>

\* stop: queued callbacks are fenced, timers and retries are dropped.
Fence(r) ==
  /\ stopping' = stopping \cup {r}
  /\ timer' = [timer EXCEPT ![r] = [p \in Polls |-> None]]
  /\ recovery' = [recovery EXCEPT ![r] = [p \in Polls |-> None]]
  /\ UNCHANGED spent

\* Unload, or a setup that fails after the polls were started.
Stop(r) ==
  /\ phase[r] = "up"
  /\ r \notin stopping
  /\ Fence(r)
  /\ UNCHANGED <<fileVars, phase, slotLock, owner, task, historyVars, envVars>>

\* The replacement fences the previous owner at once ...
FencePrevious(r) ==
  /\ phase[r] = "slot"
  /\ owner # None
  /\ Fence(owner)
  /\ phase' = [phase EXCEPT ![r] = "drain"]
  /\ UNCHANGED <<fileVars, slotLock, owner, task, historyVars, envVars>>

\* ... and does not wait for the transaction that holds its lock.
TakeOverVariant(r) ==
  /\ phase[r] = "drain" \/ (phase[r] = "slot" /\ owner = None)
  /\ owner' = r
  /\ lock' = [lock EXCEPT ![r] = r]
  /\ phase' = [phase EXCEPT ![r] = "load"]
  /\ UNCHANGED <<disk, mem, snap, stopping, slotLock, workVars, task,
                 historyVars, envVars>>

\* ... waits for the transaction that holds its lock, and takes over.
TakeOver(r) ==
  /\ \/ phase[r] = "slot" /\ owner = None
     \/ phase[r] = "drain" /\ lock[owner] = None
  /\ owner' = r
  /\ lock' = [lock EXCEPT ![r] = r]
  /\ phase' = [phase EXCEPT ![r] = "load"]
  /\ UNCHANGED <<disk, mem, snap, stopping, slotLock, workVars, task,
                 historyVars, envVars>>

LeaveStart(r, p) ==
  /\ Release(r)
  /\ slotLock' = None
  /\ phase' = [phase EXCEPT ![r] = p]

\* The polls found in the file are not scheduled.
ResumedVariant(r, m) == timer

\* Every poll with a selected option gets its settle timer again.
Resumed(r, m) ==
  [timer EXCEPT ![r] =
     [p \in Polls |-> IF m.polls[p] # None /\ m.polls[p].chosen
                      THEN [ts |-> m.polls[p].ts, due |-> m.polls[p].due,
                            retry |-> FALSE]
                      ELSE None]]

\* PollRegistry.load takes what the file holds.
Found(m) == m

Load(r) ==
  /\ phase[r] = "load"
  /\ mem' = [mem EXCEPT ![r] = Found(disk)]
  /\ timer' = Resumed(r, Found(disk))
  /\ journal' = disk.receipts
  /\ LeaveStart(r, "up")
  /\ UNCHANGED <<disk, snap, stopping, owner, recovery, spent, task, accepted,
                 acked, settled, announced, envVars>>

\* The file cannot be read: the setup fails, and stops the manager.
LoadFails(r) ==
  /\ phase[r] = "load"
  /\ LeaveStart(r, "failed")
  /\ Fence(r)
  /\ UNCHANGED <<disk, mem, snap, owner, task, historyVars, envVars>>

\* The setup is cancelled, which stops nothing.
CancelStart(r) ==
  /\ phase[r] \in {"slot", "drain", "load"}
  /\ LeaveStart(r, "failed")
  /\ UNCHANGED <<disk, mem, snap, stopping, owner, workVars, task, historyVars,
                 envVars>>
-----------------------------------------------------------------------------
(***************************************************************************)
(* async_register_poll                                                     *)
(***************************************************************************)

\* WAHA accepted poll p, and its sender registers it with the manager.  An
\* application poll needs a conversation; the lookup may be awaited.  The
\* contact of a conversation is removed and added at any time, so every lookup
\* may find it or not: one that fails here leaves no trace.
Register(t, r, p) ==
  /\ task[t] = None
  /\ phase[r] = "up"
  /\ ~Fenced(r)
  /\ p \notin registered
  /\ registered' = registered \cup {p}
  /\ task' = [task EXCEPT ![t] = [at |-> "register", rt |-> r, poll |-> p, ts |-> 0]]
  /\ UNCHANGED <<fileVars, runtimeVars, workVars, historyVars, now, crashes>>

BeginRegister(t) ==
  /\ At(t, "register")
  /\ lock[Rt(t)] = None
  /\ ~Fenced(Rt(t))
  /\ LET m == [Here(t) EXCEPT !.polls[Poll(t)] = Unvoted]
     IN mem' = [mem EXCEPT ![Rt(t)] = m] /\ Save(t, m)
  /\ Goto(t, "registering")
  /\ UNCHANGED <<disk, runtimeVars, workVars, historyVars, envVars>>

\* A poll that could not be saved stays in memory, and is saved later.
Registered(t) ==
  /\ At(t, "registering")
  /\ Release(Rt(t))
  /\ Finish(t)
  /\ \/ \E result \in {"ok", "cancelled"} : Write(Rt(t), result)
        /\ UNCHANGED workVars
     \/ /\ Write(Rt(t), "failed")
        /\ ScheduleRecovery(Rt(t), Poll(t), 0, Entry(t))
  /\ UNCHANGED <<mem, runtimeVars, accepted, journal, settled, announced, envVars>>
-----------------------------------------------------------------------------
(***************************************************************************)
(* async_handle_payload                                                    *)
(***************************************************************************)

\* A webhook brings a vote for a poll that is known; its alternate identities
\* may have to be looked up.  (Any other vote is rejected without a trace; what
\* a vote says matters only once it has the lock, and is chosen there.)
Vote(t, r, p) ==
  /\ task[t] = None
  /\ phase[r] = "up"
  /\ ~Fenced(r)
  /\ mem[r].polls[p] # None
  /\ task' = [task EXCEPT ![t] = [at |-> "vote", rt |-> r, poll |-> p, ts |-> 0]]
  /\ UNCHANGED <<fileVars, runtimeVars, workVars, historyVars, envVars>>

\* A vote that is not newer replaces the one that is known.
NewerVariant(ts, entry) == TRUE

\* A vote is stale unless its timestamp is beyond that of the newest one.
Newer(ts, entry) == ts > entry.ts

\* What is checked again under the lock: the poll still waits.
Acceptable(t) ==
  /\ ~Fenced(Rt(t))
  /\ Entry(t) # None

\* apply_vote_with_reason, and the write begins.
BeginVote(t, ts, chosen) ==
  /\ At(t, "vote")
  /\ lock[Rt(t)] = None
  /\ Acceptable(t)
  /\ Newer(ts, Entry(t))
  /\ LET voted == [ts |-> ts, chosen |-> chosen,
                   due |-> IF chosen THEN now + SettleTime ELSE 0]
         m == [Here(t) EXCEPT !.polls[Poll(t)] = voted]
     IN mem' = [mem EXCEPT ![Rt(t)] = m] /\ Save(t, m)
  /\ CancelWork(Rt(t), Poll(t))
  /\ accepted' = accepted \cup {[rt |-> Rt(t), poll |-> Poll(t), ts |-> ts, at |-> now]}
  /\ task' = [task EXCEPT ![t].at = "voting", ![t].ts = ts]
  /\ UNCHANGED <<disk, runtimeVars, acked, journal, settled, announced, envVars>>

\* The write fails and nothing is scheduled.
VoteSavedVariant(t) ==
  /\ At(t, "voting")
  /\ Release(Rt(t))
  /\ Finish(t)
  /\ \/ /\ \E result \in {"ok", "cancelled"} : Write(Rt(t), result)
        /\ timer' = IF Entry(t).chosen
                    THEN Scheduled(Rt(t), Poll(t), Entry(t), FALSE) ELSE timer
        /\ UNCHANGED <<recovery, spent>>
     \/ /\ Write(Rt(t), "failed")
        /\ UNCHANGED workVars
  /\ UNCHANGED <<mem, runtimeVars, accepted, journal, settled, announced, envVars>>

\* The write ends: the settle timer is started, or the vote retried.
VoteSaved(t) ==
  /\ At(t, "voting")
  /\ Release(Rt(t))
  /\ Finish(t)
  /\ \/ /\ \E result \in {"ok", "cancelled"} : Write(Rt(t), result)
        /\ timer' = IF Entry(t).chosen
                    THEN Scheduled(Rt(t), Poll(t), Entry(t), FALSE) ELSE timer
        /\ UNCHANGED <<recovery, spent>>
     \/ /\ Write(Rt(t), "failed")
        /\ ScheduleRecovery(Rt(t), Poll(t), task[t].ts, Entry(t))
  /\ UNCHANGED <<mem, runtimeVars, accepted, journal, settled, announced, envVars>>

\* A registration or a vote that has the lock finds that it must not proceed;
\* any vote can be stale or, for its option, its voter or its conversation, be
\* refused.
Rejected(t) ==
  /\ \/ At(t, "register") /\ Fenced(Rt(t))
     \/ At(t, "vote")
  /\ lock[Rt(t)] = None
  /\ Finish(t)
  /\ UNCHANGED <<fileVars, runtimeVars, workVars, historyVars, envVars>>

\* It is cancelled before it has the lock, or an identity is not resolved.
Abandoned(t) ==
  /\ At(t, "register") \/ At(t, "vote")
  /\ Finish(t)
  /\ UNCHANGED <<fileVars, runtimeVars, workVars, historyVars, envVars>>
-----------------------------------------------------------------------------
(***************************************************************************)
(* _create_commit_task, _async_recover and _async_commit                   *)
(***************************************************************************)

\* A timer fires and starts a settlement or a retry.
Fire(r, p, t) ==
  /\ timer[r][p] # None
  /\ timer[r][p].due <= now + Skew
  /\ task[t] = None
  /\ timer' = [timer EXCEPT ![r][p] = None]
  /\ task' = [task EXCEPT ![t] =
                [at |-> IF timer[r][p].retry THEN "recover" ELSE "commit",
                 rt |-> r, poll |-> p, ts |-> timer[r][p].ts]]
  /\ UNCHANGED <<fileVars, runtimeVars, recovery, spent, historyVars, envVars>>

\* The poll still waits, and no newer vote was accepted.
Current(t) == Entry(t) # None /\ Entry(t).ts = task[t].ts

\* A retry of a vote that selects nothing, or of a registration, is a write.
BeginRewrite(t) ==
  /\ At(t, "recover")
  /\ lock[Rt(t)] = None
  /\ Rt(t) \notin stopping
  /\ Current(t)
  /\ ~Entry(t).chosen
  /\ Save(t, Here(t))
  /\ Goto(t, "rewriting")
  /\ UNCHANGED <<disk, mem, runtimeVars, workVars, historyVars, envVars>>

Rewritten(t) ==
  /\ At(t, "rewriting")
  /\ Release(Rt(t))
  /\ Finish(t)
  /\ \/ /\ \E result \in {"ok", "cancelled"} : Write(Rt(t), result)
        /\ recovery' = [recovery EXCEPT ![Rt(t)][Poll(t)] = None]
        /\ UNCHANGED <<timer, spent>>
     \/ /\ Write(Rt(t), "failed")
        /\ ScheduleRecovery(Rt(t), Poll(t), task[t].ts, Entry(t))
  /\ UNCHANGED <<mem, runtimeVars, accepted, journal, settled, announced, envVars>>

\* Any other retry gives the lock back and goes on as a settlement.
RetryCommit(t) ==
  /\ At(t, "recover")
  /\ lock[Rt(t)] = None
  /\ Rt(t) \notin stopping
  /\ Current(t)
  /\ Entry(t).chosen
  /\ Goto(t, "commit")
  /\ UNCHANGED <<fileVars, runtimeVars, workVars, historyVars, envVars>>

\* What a settlement that has the lock checks first.
Settleable(t) == ~Fenced(Rt(t)) /\ Current(t) /\ Entry(t).chosen

\* There is nothing left to settle or to retry.
Moot(t) ==
  /\ \/ At(t, "commit") /\ ~Settleable(t)
     \/ At(t, "recover") /\ ~(Rt(t) \notin stopping /\ Current(t))
  /\ lock[Rt(t)] = None
  /\ Finish(t)
  /\ UNCHANGED <<fileVars, runtimeVars, workVars, historyVars, envVars>>

Settling(t) ==
  /\ At(t, "commit")
  /\ lock[Rt(t)] = None
  /\ Settleable(t)

\* The window is not looked at.
RipeVariant(t) == TRUE

\* The correction window is over.
Ripe(t) == Entry(t).due <= now

CommitLater(t) ==
  /\ Settling(t)
  /\ ~Ripe(t)
  /\ timer' = Scheduled(Rt(t), Poll(t), Entry(t), FALSE)
  /\ Finish(t)
  /\ UNCHANGED <<fileVars, runtimeVars, recovery, spent, historyVars, envVars>>

\* The receipt of an application cannot be made without its conversation.
CommitUnbuilt(t) ==
  /\ Settling(t)
  /\ Ripe(t)
  /\ Poll(t) \in Applications
  /\ ScheduleRecovery(Rt(t), Poll(t), task[t].ts, Entry(t))
  /\ Finish(t)
  /\ UNCHANGED <<fileVars, runtimeVars, historyVars, envVars>>

\* The staged registry, without the poll, is written; memory keeps the poll.
BeginCommit(t) ==
  /\ Settling(t)
  /\ Ripe(t)
  /\ Save(t, Consumed(Here(t), Poll(t)))
  /\ Goto(t, "committing")
  /\ UNCHANGED <<disk, mem, runtimeVars, workVars, historyVars, envVars>>

\* A settlement whose write failed is published all the same.
CommitSavedVariant(t) ==
  /\ At(t, "committing")
  /\ \E result \in {"ok", "cancelled", "failed"} : Write(Rt(t), result)
  /\ mem' = [mem EXCEPT ![Rt(t)] = snap[Rt(t)]]
  /\ journal' = snap[Rt(t)].receipts
  /\ CancelWork(Rt(t), Poll(t))
  /\ Goto(t, "publish")
  /\ UNCHANGED <<lock, runtimeVars, accepted, settled, announced, envVars>>

\* The write ends.  An acknowledged settlement becomes visible, and is then
\* announced, unless the task of an application poll was cancelled.
CommitSaved(t) ==
  /\ At(t, "committing")
  /\ \/ /\ \/ Write(Rt(t), "ok") /\ Goto(t, "publish") /\ UNCHANGED lock
           \/ /\ Write(Rt(t), "cancelled")
              /\ \/ Poll(t) \in Applications /\ Release(Rt(t)) /\ Finish(t)
                 \/ Poll(t) \notin Applications /\ Goto(t, "publish") /\ UNCHANGED lock
        /\ mem' = [mem EXCEPT ![Rt(t)] = snap[Rt(t)]]
        /\ journal' = snap[Rt(t)].receipts
        /\ CancelWork(Rt(t), Poll(t))
     \/ /\ Write(Rt(t), "failed")
        /\ ScheduleRecovery(Rt(t), Poll(t), task[t].ts, Entry(t))
        /\ Release(Rt(t))
        /\ Finish(t)
        /\ UNCHANGED <<mem, journal>>
  /\ UNCHANGED <<runtimeVars, accepted, settled, announced, envVars>>

\* _async_publish, still under the lock, after the lookup of the person.  The
\* event of an application poll needs its conversation once more.
Publish(t) ==
  /\ At(t, "publish")
  /\ \/ /\ announced' = [announced EXCEPT ![Poll(t)] = @ + 1]
        /\ settled' = [settled EXCEPT ![Poll(t)] =
                         [ts |-> task[t].ts, at |-> now, rt |-> Rt(t)]]
     \/ Poll(t) \in Applications /\ UNCHANGED <<announced, settled>>
  /\ Release(Rt(t))
  /\ Finish(t)
  /\ UNCHANGED <<disk, mem, snap, runtimeVars, workVars, accepted, acked,
                 journal, envVars>>
-----------------------------------------------------------------------------
Tick ==
  /\ now < MaxTime
  /\ now' = now + 1
  /\ UNCHANGED <<fileVars, runtimeVars, workVars, task, historyVars,
                 registered, crashes>>

\* The process dies; a write that was under way is done or not.
Crash ==
  /\ crashes < MaxCrashes
  /\ crashes' = crashes + 1
  /\ disk' \in {disk} \cup {snap[r] : r \in {x \in Runtimes : snap[x] # None}}
  /\ mem' = [r \in Runtimes |-> EmptyRegistry]
  /\ snap' = [r \in Runtimes |-> None]
  /\ lock' = [r \in Runtimes |-> None]
  /\ phase' = [r \in Runtimes |-> IF phase[r] = "new" THEN "new" ELSE "gone"]
  /\ slotLock' = None
  /\ owner' = None
  /\ timer' = [r \in Runtimes |-> [p \in Polls |-> None]]
  /\ recovery' = [r \in Runtimes |-> [p \in Polls |-> None]]
  /\ task' = [t \in Tasks |-> None]
  /\ UNCHANGED <<stopping, spent, historyVars, registered, now>>
-----------------------------------------------------------------------------
Init ==
  /\ disk = EmptyRegistry
  /\ mem = [r \in Runtimes |-> EmptyRegistry]
  /\ snap = [r \in Runtimes |-> None]
  /\ lock = [r \in Runtimes |-> None]
  /\ phase = [r \in Runtimes |-> "new"]
  /\ stopping = {}
  /\ slotLock = None
  /\ owner = None
  /\ timer = [r \in Runtimes |-> [p \in Polls |-> None]]
  /\ recovery = [r \in Runtimes |-> [p \in Polls |-> None]]
  /\ task = [t \in Tasks |-> None]
  /\ registered = {}
  /\ spent = [r \in Runtimes |-> {}]
  /\ accepted = {}
  /\ acked = [p \in Polls |-> 0]
  /\ journal = <<>>
  /\ settled = [p \in Polls |-> None]
  /\ announced = [p \in Polls |-> 0]
  /\ now = 0
  /\ crashes = 0

StartStep(r) == FencePrevious(r) \/ TakeOver(r) \/ Load(r) \/ LoadFails(r)

TaskStep(t) ==
  \/ BeginRegister(t)
  \/ Registered(t)
  \/ \E ts \in 1 .. MaxVote, chosen \in BOOLEAN : BeginVote(t, ts, chosen)
  \/ VoteSaved(t)
  \/ Rejected(t)
  \/ BeginRewrite(t)
  \/ Rewritten(t)
  \/ RetryCommit(t)
  \/ Moot(t)
  \/ CommitLater(t)
  \/ CommitUnbuilt(t)
  \/ BeginCommit(t)
  \/ CommitSaved(t)
  \/ Publish(t)

Next ==
  \/ \E r \in Runtimes : EnterSlot(r) \/ StartStep(r) \/ CancelStart(r) \/ Stop(r)
  \/ \E t \in Tasks : TaskStep(t) \/ Abandoned(t)
  \/ \E t \in Tasks, r \in Runtimes, p \in Polls :
       \/ Register(t, r, p)
       \/ Fire(r, p, t)
       \/ Vote(t, r, p)
  \/ Tick
  \/ Crash

Spec == Init /\ [][Next]_vars
-----------------------------------------------------------------------------
Phases == {"new", "slot", "drain", "load", "up", "failed", "gone"}

\* Every variable stays in its domain.
TypeOK ==
  /\ disk \in Registry
  /\ mem \in [Runtimes -> Registry]
  /\ snap \in [Runtimes -> Registry \cup {None}]
  /\ lock \in [Runtimes -> Tasks \cup Runtimes \cup {None}]
  /\ phase \in [Runtimes -> Phases]
  /\ stopping \subseteq Runtimes
  /\ slotLock \in Runtimes \cup {None}
  /\ owner \in Runtimes \cup {None}
  /\ timer \in [Runtimes -> [Polls -> Timer \cup {None}]]
  /\ recovery \in [Runtimes -> [Polls -> Recovery \cup {None}]]
  /\ task \in [Tasks -> Job \cup {None}]
  /\ registered \subseteq Polls
  /\ spent \in [Runtimes -> SUBSET Polls]
  /\ accepted \subseteq [rt : Runtimes, poll : Polls, ts : Votes, at : 0 .. MaxTime]
  /\ acked \in [Polls -> Votes]
  /\ journal \in Seq(Receipt)
  /\ settled \in [Polls -> [ts : Votes, at : 0 .. MaxTime, rt : Runtimes] \cup {None}]
  /\ announced \in [Polls -> Nat]
  /\ now \in 0 .. MaxTime
  /\ crashes \in 0 .. MaxCrashes

\* A poll is consumed by its first settled choice: it is announced at most
\* once and has at most one receipt, over reloads, crashes, retries and
\* writes that fail after they replaced the file.
SettledOnce ==
  /\ \A p \in Polls : announced[p] <= 1
  /\ \A i, j \in DOMAIN journal : i # j => journal[i].poll # journal[j].poll

\* What is announced is the newest choice: no newer vote had been accepted by
\* the same runtime, and no newer one had been saved by any.
NewestChoice ==
  \A p \in Polls : settled[p] # None =>
    /\ acked[p] <= settled[p].ts
    /\ \A a \in accepted : a.poll = p /\ a.rt = settled[p].rt => a.ts <= settled[p].ts

\* A choice is announced only when its correction window is over: it was
\* accepted a settle time ago, however its timers were lost and restored.
CorrectionWindow ==
  \A p \in Polls : settled[p] # None =>
    \E a \in accepted : /\ a.poll = p
                        /\ a.ts = settled[p].ts
                        /\ a.at + SettleTime <= settled[p].at

\* A receipt that could be read is in the file, at its place in the journal,
\* from then on; and an application's event was announced with its receipt.
ReceiptsDurable ==
  /\ IsPrefix(journal, disk.receipts)
  /\ \A p \in Applications : settled[p] # None =>
       \E i \in DOMAIN journal : journal[i] = [poll |-> p, ts |-> settled[p].ts]

\* The vote of an application that is known to be saved is in the file until a
\* newer one replaces it or its receipt does.
SavedVotesKept ==
  \A p \in Applications : acked[p] > 0 =>
    \/ disk.polls[p] # None /\ disk.polls[p].ts >= acked[p]
    \/ \E i \in DOMAIN disk.receipts :
         disk.receipts[i].poll = p /\ disk.receipts[i].ts >= acked[p]

\* A runtime that serves never forgets work: a poll with a selected option, or
\* one that differs from the file, has a timer, is in the hands of a task, or
\* was counted as exhausted.
NothingStranded ==
  \A r \in Runtimes, p \in Polls :
    /\ phase[r] = "up" /\ r \notin stopping
    /\ mem[r].polls[p] # None
    /\ mem[r].polls[p].chosen \/ mem[r].polls[p] # disk.polls[p]
    => \/ timer[r][p] # None /\ timer[r][p].ts = mem[r].polls[p].ts
       \/ p \in spent[r]
       \/ \E t \in Tasks : /\ task[t] # None
                           /\ Rt(t) = r /\ Poll(t) = p
                           /\ task[t].ts = mem[r].polls[p].ts
                           /\ task[t].at \in Writing \cup {"commit", "recover"}

\* Only the owner of the slot writes the file, and a runtime loads it only when
\* no transaction of another one is left, publication included.
OneWriter ==
  /\ \A r \in Runtimes : snap[r] # None => owner = r
  /\ \A r, x \in Runtimes : phase[r] = "load" /\ x # r => lock[x] = None
=============================================================================
