-------------------------- MODULE PollSettlementProofs --------------------------
(***************************************************************************)
(* Proofs about PollSettlement, for any number of polls, runtimes, tasks   *)
(* and crashes: the poll file has one writer, a poll is settled once, by   *)
(* its newest choice and after its window, what was saved is kept, and no  *)
(* choice is left without a timer or a task.                               *)
(***************************************************************************)
EXTENDS PollSettlement, TLAPS

\* Who is in the writer slot, and who can still admit a write.
SlotInv ==
  \A r \in Runtimes :
    /\ phase[r] \in {"slot", "drain", "load"} => slotLock = r
    /\ phase[r] = "load" => owner = r /\ lock[r] = r
    /\ lock[r] \in Runtimes => lock[r] = r /\ phase[r] = "load"
    /\ phase[r] = "drain" => owner # None /\ owner \in stopping
    /\ phase[r] = "up" /\ r \notin stopping => owner = r
    /\ owner = r => phase[r] \in {"load", "up", "failed"}
    /\ \A p \in Polls : timer[r][p] # None => phase[r] = "up"

\* A task that writes or publishes holds the lock of its runtime, which owns the
\* slot; what it writes is what its runtime has in memory, or that without the
\* poll it settles.
Locked == Writing \cup {"publish"}

LockInv ==
  /\ \A t \in Tasks : task[t] # None =>
       /\ phase[Rt(t)] = "up"
       /\ task[t].at \in Locked => lock[Rt(t)] = t
       /\ task[t].at \in Writing => snap[Rt(t)] # None /\ Entry(t) # None
       /\ task[t].at \in Writing \ {"committing"} => snap[Rt(t)] = Here(t)
       /\ task[t].at = "committing" =>
            /\ Entry(t).ts = task[t].ts
            /\ snap[Rt(t)] = Consumed(Here(t), Poll(t))
  /\ \A r \in Runtimes : lock[r] \in Tasks =>
       /\ task[lock[r]] # None
       /\ task[lock[r]].at \in Locked
       /\ Rt(lock[r]) = r
       /\ owner = r
  /\ \A r \in Runtimes : snap[r] # None =>
       lock[r] \in Tasks /\ task[lock[r]].at \in Writing

BaseInv == TypeOK /\ SlotInv /\ LockInv

\* A runtime whose memory can still reach the file.
Live(r) == phase[r] = "up" /\ (r \notin stopping \/ lock[r] \in Tasks)

\* The registries that can still be served or written: the file, and the memory
\* and the write of the runtime that owns the slot.
InUse(m) ==
  \/ m = disk
  \/ \E r \in Runtimes : Live(r) /\ m = mem[r]
  \/ \E r \in Runtimes : snap[r] # None /\ m = snap[r]

\* Poll p was never given to a registry: its sender has not come so far.
Untouched(p) ==
  \/ p \notin registered
  \/ \E t \in Tasks : At(t, "register") /\ Poll(t) = p

\* The choice of poll p was announced, or its settlement was saved and is about
\* to be announced.
Over(p) ==
  \/ announced[p] > 0
  \/ \E t \in Tasks : At(t, "publish") /\ Poll(t) = p

\* The vote ts of poll p was accepted a settle time before the time x.
Backed(p, ts, x) ==
  \E a \in accepted : a.poll = p /\ a.ts = ts /\ a.at + SettleTime <= x

\* Registry m has the receipt of poll p for a vote of at least ts.
HasReceipt(m, p, ts) ==
  \E i \in DOMAIN m.receipts : m.receipts[i].poll = p /\ m.receipts[i].ts >= ts

\* Every receipt a reader could have seen is in registry m, which has one for
\* each poll at most.
ReceiptsOK(m) ==
  /\ IsPrefix(journal, m.receipts)
  /\ \A i, j \in DOMAIN m.receipts :
       i # j => m.receipts[i].poll # m.receipts[j].poll
  /\ \A i \in DOMAIN m.receipts : ~Untouched(m.receipts[i].poll)

\* A poll that waits in registry m has left no trace of a settlement, and waits
\* with its newest saved vote, which was accepted in time.
PendingOK(m, p) ==
  m.polls[p] # None =>
    /\ ~Untouched(p) /\ ~Over(p)
    /\ \A i \in DOMAIN m.receipts : m.receipts[i].poll # p
    /\ acked[p] <= m.polls[p].ts
    /\ m.polls[p].chosen => Backed(p, m.polls[p].ts, m.polls[p].due)

\* The saved vote of application poll p waits in registry m, or has its receipt.
SavedOK(m, p) ==
  p \in Applications /\ acked[p] > 0 =>
    (m.polls[p] # None /\ m.polls[p].ts >= acked[p]) \/ HasReceipt(m, p, acked[p])

RegistryOK(m) ==
  ReceiptsOK(m) /\ \A p \in Polls : PendingOK(m, p) /\ SavedOK(m, p)

DataInv == \A m \in Registry : InUse(m) => RegistryOK(m)

\* A poll is given to a registry once: nothing has come of it before.
UntouchedInv ==
  /\ \A t, u \in Tasks :
       At(t, "register") /\ At(u, "register") /\ t # u => Poll(t) # Poll(u)
  /\ \A t \in Tasks : At(t, "register") => Poll(t) \in registered
  /\ \A p \in Polls : Untouched(p) =>
       ~Over(p) /\ acked[p] = 0 /\ \A a \in accepted : a.poll # p

\* A runtime accepts votes when it is up, and has the newest one in memory as
\* long as the poll waits.
AcceptedInv ==
  \A a \in accepted :
    /\ phase[a.rt] \in {"up", "gone"}
    /\ mem[a.rt].polls[a.poll] # None => a.ts <= mem[a.rt].polls[a.poll].ts

\* The vote ts of poll p is the newest choice, for runtime r, and was settled
\* when its window was over.
Final(p, ts, r, x) ==
  /\ acked[p] <= ts
  /\ \A a \in accepted : a.poll = p /\ a.rt = r => a.ts <= ts
  /\ Backed(p, ts, x)
  /\ p \in Applications =>
       \E i \in DOMAIN journal : journal[i] = [poll |-> p, ts |-> ts]

SettledInv ==
  /\ \A p \in Polls : announced[p] <= 1
  /\ \A p \in Polls : settled[p] # None =>
       /\ announced[p] > 0
       /\ Final(p, settled[p].ts, settled[p].rt, settled[p].at)
  /\ \A t \in Tasks : At(t, "publish") =>
       announced[Poll(t)] = 0 /\ Final(Poll(t), task[t].ts, Rt(t), now)
  /\ \A t \in Tasks : At(t, "committing") => Backed(Poll(t), task[t].ts, now)

IInv == BaseInv /\ DataInv /\ UntouchedInv /\ AcceptedInv /\ SettledInv
-----------------------------------------------------------------------------
(***************************************************************************)
(* Types                                                                   *)
(***************************************************************************)

\* The numbers are numbers.
LEMMA Numbers ==
  /\ SettleTime \in Nat /\ MaxVote \in Nat /\ MaxAttempts \in Nat
  /\ MaxTime \in Nat /\ MaxCrashes \in Nat /\ Skew \in Nat /\ MaxRecovery \in Nat
  /\ Votes \subseteq Nat /\ 0 \in Votes
  BY PollBoundsAssumption DEF Votes

\* None is nothing else, and tasks are not runtimes.
LEMMA Nothing ==
  /\ None \notin Tasks /\ None \notin Runtimes /\ None \notin Pending
  /\ None \notin Registry /\ None \notin Timer /\ None \notin Recovery
  /\ None \notin Job /\ Tasks \cap Runtimes = {}
  BY PollNoneAssumption

\* Registry m with entry e for poll p.
With(m, p, e) == [polls |-> [m.polls EXCEPT ![p] = e], receipts |-> m.receipts]

LEMMA RegistryFields ==
  ASSUME NEW m \in Registry
  PROVE  /\ m.polls \in [Polls -> Pending \cup {None}] /\ m.receipts \in Seq(Receipt)
         /\ m # None
  BY Nothing DEF Registry

LEMMA WithFields ==
  ASSUME NEW m \in Registry, NEW p \in Polls, NEW e \in Pending \cup {None}
  PROVE  /\ [m EXCEPT !.polls[p] = e] = With(m, p, e)
         /\ With(m, p, e) \in Registry
         /\ With(m, p, e).receipts = m.receipts
         /\ \A q \in Polls : With(m, p, e).polls[q] = IF q = p THEN e ELSE m.polls[q]
  <1>1. PICK f \in [Polls -> Pending \cup {None}], s \in Seq(Receipt) :
          m = [polls |-> f, receipts |-> s]
    BY Zenon DEF Registry
  <1>2. [f EXCEPT ![p] = e] \in [Polls -> Pending \cup {None}]
    OBVIOUS
  <1>3. With(m, p, e) = [polls |-> [f EXCEPT ![p] = e], receipts |-> s]
    BY <1>1 DEF With
  <1>4. [m EXCEPT !.polls[p] = e] = [polls |-> [f EXCEPT ![p] = e], receipts |-> s]
    BY <1>1
  <1>5. With(m, p, e) \in Registry
    BY <1>2, <1>3 DEF Registry
  <1>. QED
    BY <1>1, <1>3, <1>4, <1>5

\* A settlement takes the poll out, and appends the receipt of an application.
LEMMA ConsumedFields ==
  ASSUME NEW m \in Registry, NEW p \in Polls, m.polls[p] # None
  PROVE  /\ Consumed(m, p) \in Registry
         /\ \A q \in Polls : Consumed(m, p).polls[q] = IF q = p THEN None ELSE m.polls[q]
         /\ p \notin Applications => Consumed(m, p).receipts = m.receipts
         /\ p \in Applications =>
              /\ [poll |-> p, ts |-> m.polls[p].ts] \in Receipt
              /\ Consumed(m, p).receipts
                   = Append(m.receipts, [poll |-> p, ts |-> m.polls[p].ts])
  <1>. DEFINE f == [m.polls EXCEPT ![p] = None]
              x == [poll |-> p, ts |-> m.polls[p].ts]
              s == IF p \in Applications THEN Append(m.receipts, x) ELSE m.receipts
  <1>1. f \in [Polls -> Pending \cup {None}]
        /\ \A q \in Polls : f[q] = IF q = p THEN None ELSE m.polls[q]
    BY RegistryFields
  <1>2. p \in Applications => x \in Receipt
    BY RegistryFields DEF Receipt, Pending
  <1>3. s \in Seq(Receipt)
    <2>. HIDE DEF x
    <2>. QED
      BY <1>2, RegistryFields
  <1>4. Consumed(m, p) = [polls |-> f, receipts |-> s]
    BY DEF Consumed
  <1>5. [polls |-> f, receipts |-> s] \in Registry
    <2>. HIDE DEF f, s
    <2>. QED
      BY <1>1, <1>3 DEF Registry
  <1>. QED
    BY <1>1, <1>2, <1>4, <1>5

\* The job of a task.
LEMMA JobFields ==
  ASSUME TypeOK, NEW t \in Tasks, task[t] # None
  PROVE  /\ task[t] \in Job
         /\ task[t].at \in Waiting \cup Writing \cup {"publish"}
         /\ Rt(t) \in Runtimes /\ Poll(t) \in Polls /\ task[t].ts \in Votes
         /\ Here(t) \in Registry /\ Entry(t) \in Pending \cup {None}
  <1>1. task[t] \in Job
    BY DEF TypeOK
  <1>2. /\ task[t].at \in Waiting \cup Writing \cup {"publish"}
        /\ Rt(t) \in Runtimes /\ Poll(t) \in Polls /\ task[t].ts \in Votes
    BY <1>1 DEF Job, Rt, Poll
  <1>3. Here(t) \in Registry
    BY <1>2 DEF TypeOK, Here
  <1>. QED
    BY <1>1, <1>2, <1>3, RegistryFields DEF Entry

\* A task goes on.
LEMMA Goes ==
  ASSUME TypeOK, NEW t \in Tasks, task[t] # None,
         NEW a \in Waiting \cup Writing \cup {"publish"}, NEW v \in Votes,
         \/ v = task[t].ts /\ Goto(t, a)
         \/ task' = [task EXCEPT ![t].at = a, ![t].ts = v]
  PROVE  \E j \in Job : /\ task' = [task EXCEPT ![t] = j]
                       /\ j = [at |-> a, rt |-> Rt(t), poll |-> Poll(t), ts |-> v]
  <1>. DEFINE j == [at |-> a, rt |-> Rt(t), poll |-> Poll(t), ts |-> v]
  <1>1. task[t] \in Job /\ j \in Job
    BY JobFields DEF Job
  <1>2. PICK x \in Waiting \cup Writing \cup {"publish"}, q \in Runtimes, p \in Polls,
             c \in Votes : task[t] = [at |-> x, rt |-> q, poll |-> p, ts |-> c]
    BY <1>1, Zenon DEF Job
  <1>3. Rt(t) = q /\ Poll(t) = p /\ task[t].ts = c
    BY <1>2 DEF Rt, Poll
  <1>4. [task[t] EXCEPT !.at = a] = [at |-> a, rt |-> q, poll |-> p, ts |-> c]
    BY <1>2
  <1>5. [[task[t] EXCEPT !.at = a] EXCEPT !.ts = v] = j
    <2>1. [[at |-> a, rt |-> q, poll |-> p, ts |-> c] EXCEPT !.ts = v]
            = [at |-> a, rt |-> q, poll |-> p, ts |-> v]
      OBVIOUS
    <2>. QED
      BY ONLY <1>3, <1>4, <2>1
  <1>6. task \in [Tasks -> Job \cup {None}]
    BY DEF TypeOK
  <1>7. CASE v = task[t].ts /\ Goto(t, a)
    BY <1>1, <1>3, <1>4, <1>6, <1>7 DEF Goto
  <1>8. CASE task' = [task EXCEPT ![t].at = a, ![t].ts = v]
    <2>1. task' = [task EXCEPT ![t] = [[task[t] EXCEPT !.at = a] EXCEPT !.ts = v]]
      BY <1>6, <1>8
    <2>. QED
      BY <1>1, <1>5, <2>1
  <1>. QED
    BY <1>7, <1>8

\* Timers and retries of one poll of one runtime.
LEMMA WorkTypes ==
  ASSUME TypeOK, NEW r \in Runtimes, NEW p \in Polls
  PROVE  /\ \A x \in Timer \cup {None} :
              /\ [timer EXCEPT ![r][p] = x] \in [Runtimes -> [Polls -> Timer \cup {None}]]
              /\ \A q \in Runtimes, k \in Polls :
                   [timer EXCEPT ![r][p] = x][q][k]
                     = IF q = r /\ k = p THEN x ELSE timer[q][k]
         /\ \A x \in Recovery \cup {None} :
              [recovery EXCEPT ![r][p] = x] \in [Runtimes -> [Polls -> Recovery \cup {None}]]
  BY DEF TypeOK

\* A retry is scheduled, or is not.
LEMMA ScheduleTypes ==
  ASSUME TypeOK, NEW r \in Runtimes, NEW p \in Polls, NEW v \in Votes, NEW e \in Pending,
         ScheduleRecovery(r, p, v, e)
  PROVE  /\ timer' \in [Runtimes -> [Polls -> Timer \cup {None}]]
         /\ recovery' \in [Runtimes -> [Polls -> Recovery \cup {None}]]
         /\ spent' \in [Runtimes -> SUBSET Polls]
         /\ \A q \in Runtimes, k \in Polls : timer'[q][k] # None => timer[q][k] # None \/ q = r
  <1>1. CASE UNCHANGED workVars
    BY <1>1 DEF TypeOK, workVars
  <1>2. CASE /\ spent' = [spent EXCEPT ![r] = @ \cup {p}]
             /\ UNCHANGED <<timer, recovery>>
    BY <1>2 DEF TypeOK
  <1>3. CASE /\ ~NoRetry(r, p, v)
             /\ recovery' = [recovery EXCEPT ![r][p] =
                               [ts |-> v, attempts |-> Attempts(r, p, v) + 1]]
             /\ timer' = [timer EXCEPT ![r][p] =
                            [ts |-> v, due |-> e.due, retry |-> TRUE]]
             /\ UNCHANGED spent
    <2>. DEFINE x == [ts |-> v, due |-> e.due, retry |-> TRUE]
                k == Attempts(r, p, v)
                y == [ts |-> v, attempts |-> k + 1]
    <2>1. x \in Timer
      BY DEF Timer, Pending
    <2>2. recovery[r][p] \in Recovery \cup {None}
      BY DEF TypeOK
    <2>3. k \in Nat
      BY <2>2 DEF Attempts, Recovery
    <2>4. ~(k >= MaxAttempts)
      BY <1>3 DEF NoRetry
    <2>5. k + 1 \in 1 .. MaxAttempts
      <3>. HIDE DEF k
      <3>. QED
        BY <2>3, <2>4, Numbers
    <2>6. y \in Recovery
      <3>. HIDE DEF k
      <3>. QED
        BY <2>5 DEF Recovery
    <2>. HIDE DEF x, y
    <2>7. timer' = [timer EXCEPT ![r][p] = x] /\ recovery' = [recovery EXCEPT ![r][p] = y]
      BY <1>3 DEF x, y
    <2>8. spent' \in [Runtimes -> SUBSET Polls]
      BY <1>3 DEF TypeOK
    <2>. QED
      BY <2>1, <2>6, <2>7, <2>8, WorkTypes
  <1>. QED
    BY <1>1, <1>2, <1>3 DEF ScheduleRecovery

-----------------------------------------------------------------------------
(***************************************************************************)
(* What the steps do                                                       *)
(***************************************************************************)

\* The steps of a starting or stopping runtime that read no file.
SlotStep(r) ==
  EnterSlot(r) \/ Stop(r) \/ FencePrevious(r) \/ TakeOver(r) \/ LoadFails(r)
  \/ CancelStart(r)

\* The steps of a task that change no registry.
QuietStep(t) ==
  \/ \E r \in Runtimes, p \in Polls : Register(t, r, p) \/ Fire(r, p, t) \/ Vote(t, r, p)
  \/ Rejected(t) \/ Abandoned(t) \/ RetryCommit(t) \/ Moot(t)
  \/ CommitLater(t) \/ CommitUnbuilt(t)

\* A write begins.
BeginStep(t) ==
  \/ BeginRegister(t) \/ BeginRewrite(t) \/ BeginCommit(t)
  \/ \E ts \in 1 .. MaxVote, chosen \in BOOLEAN : BeginVote(t, ts, chosen)

\* A write ends.
EndStep(t) == Registered(t) \/ VoteSaved(t) \/ Rewritten(t) \/ CommitSaved(t)

\* The steps, by what they change.
LEMMA NextCases ==
  ASSUME [Next]_vars
  PROVE  \/ \E r \in Runtimes : SlotStep(r) \/ Load(r)
         \/ \E t \in Tasks : QuietStep(t) \/ BeginStep(t) \/ EndStep(t) \/ Publish(t)
         \/ Tick
         \/ Crash
         \/ UNCHANGED vars
  BY DEF Next, StartStep, TaskStep, SlotStep, QuietStep, BeginStep, EndStep

\* The timers and retries are of their types, and only runtimes that are up get
\* new timers.
WorkOK ==
  /\ timer' \in [Runtimes -> [Polls -> Timer \cup {None}]]
  /\ recovery' \in [Runtimes -> [Polls -> Recovery \cup {None}]]
  /\ spent' \in [Runtimes -> SUBSET Polls]
  /\ \A q \in Runtimes, k \in Polls :
       timer'[q][k] # None => timer[q][k] # None \/ phase[q] = "up"

\* Nothing changes in the work.
LEMMA SameWork ==
  ASSUME TypeOK, UNCHANGED workVars
  PROVE  WorkOK
  BY DEF TypeOK, workVars, WorkOK

\* A timer of a poll of a runtime that is up is set or dropped.
LEMMA TimedWork ==
  ASSUME TypeOK, NEW r \in Runtimes, NEW p \in Polls, phase[r] = "up",
         NEW e \in Pending \cup {None}, NEW b \in BOOLEAN,
         \/ timer' = timer
         \/ timer' = [timer EXCEPT ![r][p] = None]
         \/ e # None /\ timer' = Scheduled(r, p, e, b),
         \/ recovery' = recovery
         \/ recovery' = [recovery EXCEPT ![r][p] = None],
         \/ spent' = spent
         \/ spent' = [spent EXCEPT ![r] = @ \ {p}]
  PROVE  WorkOK
  <1>1. \E x \in Timer \cup {None} : timer' = timer \/ timer' = [timer EXCEPT ![r][p] = x]
    <2>1. CASE e # None /\ timer' = Scheduled(r, p, e, b)
      <3>. DEFINE x == [ts |-> e.ts, due |-> e.due, retry |-> b]
      <3>1. x \in Timer
        BY <2>1 DEF Timer, Pending
      <3>2. timer' = timer \/ timer' = [timer EXCEPT ![r][p] = x]
        BY <2>1 DEF Scheduled
      <3>. HIDE DEF x
      <3>. QED
        BY <3>1, <3>2
    <2>. QED
      BY <2>1
  <1>2. /\ timer' \in [Runtimes -> [Polls -> Timer \cup {None}]]
        /\ \A q \in Runtimes, k \in Polls : timer'[q][k] # None => timer[q][k] # None \/ q = r
    <2>1. PICK x \in Timer \cup {None} :
            timer' = timer \/ timer' = [timer EXCEPT ![r][p] = x]
      BY <1>1
    <2>2. timer \in [Runtimes -> [Polls -> Timer \cup {None}]]
      BY DEF TypeOK
    <2>. QED
      BY <2>1, <2>2, WorkTypes
  <1>3. recovery' \in [Runtimes -> [Polls -> Recovery \cup {None}]]
    <2>1. recovery \in [Runtimes -> [Polls -> Recovery \cup {None}]]
      BY DEF TypeOK
    <2>2. recovery' = recovery \/ recovery' = [recovery EXCEPT ![r][p] = None]
      OBVIOUS
    <2>. QED
      BY <2>1, <2>2, WorkTypes
  <1>4. spent' \in [Runtimes -> SUBSET Polls]
    <2>1. spent \in [Runtimes -> SUBSET Polls]
      BY DEF TypeOK
    <2>2. spent' = spent \/ spent' = [spent EXCEPT ![r] = @ \ {p}]
      OBVIOUS
    <2>. QED
      BY ONLY <2>1, <2>2
  <1>. QED
    BY <1>2, <1>3, <1>4 DEF WorkOK

\* A retry is scheduled by a runtime that is up.
LEMMA RetriedWork ==
  ASSUME TypeOK, NEW r \in Runtimes, NEW p \in Polls, phase[r] = "up",
         NEW v \in Votes, NEW e \in Pending, ScheduleRecovery(r, p, v, e)
  PROVE  WorkOK
  BY ScheduleTypes DEF WorkOK

\* A step that changes no registry leaves at most a task that waits, for a poll
\* that was not registered before if it is a registration.
LEMMA Quiet ==
  ASSUME BaseInv, NEW t \in Tasks, QuietStep(t)
  PROVE  /\ UNCHANGED <<fileVars, runtimeVars, historyVars, now, crashes>>
         /\ WorkOK
         /\ task[t] # None => task[t].at \in Waiting
         /\ \E j \in Job \cup {None} :
              /\ task' = [task EXCEPT ![t] = j]
              /\ j # None => j.at \in Waiting /\ phase[j.rt] = "up"
              /\ \/ registered' = registered /\ (j # None => j.at # "register")
                 \/ /\ task[t] = None /\ j # None /\ j.at = "register"
                    /\ j.poll \notin registered
                    /\ registered' = registered \cup {j.poll}
  <1>. USE DEF BaseInv
  <1>1. ASSUME NEW r \in Runtimes, NEW p \in Polls, Register(t, r, p)
        PROVE  /\ UNCHANGED <<fileVars, runtimeVars, historyVars, now, crashes>>
               /\ WorkOK
               /\ task[t] = None
               /\ \E j \in Job : /\ task' = [task EXCEPT ![t] = j] /\ j # None
                                /\ j.at = "register" /\ phase[j.rt] = "up"
                                /\ j.poll \notin registered
                                /\ registered' = registered \cup {j.poll}
    <2>. DEFINE j == [at |-> "register", rt |-> r, poll |-> p, ts |-> 0]
    <2>1. j \in Job /\ j # None
      BY Numbers, Nothing DEF Job, Waiting
    <2>2. j.at = "register" /\ j.rt = r /\ j.poll = p
      OBVIOUS
    <2>3. /\ task' = [task EXCEPT ![t] = j] /\ task[t] = None
          /\ phase[r] = "up" /\ p \notin registered /\ registered' = registered \cup {p}
          /\ UNCHANGED <<fileVars, runtimeVars, workVars, historyVars, now, crashes>>
      BY <1>1 DEF Register
    <2>. HIDE DEF j
    <2>. QED
      BY <2>1, <2>2, <2>3, SameWork
  <1>2. ASSUME NEW r \in Runtimes, NEW p \in Polls, Vote(t, r, p)
        PROVE  /\ UNCHANGED <<fileVars, runtimeVars, historyVars, envVars>>
               /\ WorkOK
               /\ task[t] = None
               /\ \E j \in Job : /\ task' = [task EXCEPT ![t] = j] /\ j # None
                                /\ j.at = "vote" /\ phase[j.rt] = "up"
    <2>. DEFINE j == [at |-> "vote", rt |-> r, poll |-> p, ts |-> 0]
    <2>1. j \in Job /\ j # None
      BY Numbers, Nothing DEF Job, Waiting
    <2>2. j.at = "vote" /\ j.rt = r
      OBVIOUS
    <2>3. /\ task' = [task EXCEPT ![t] = j] /\ task[t] = None /\ phase[r] = "up"
          /\ UNCHANGED <<fileVars, runtimeVars, workVars, historyVars, envVars>>
      BY <1>2 DEF Vote
    <2>. HIDE DEF j
    <2>. QED
      BY <2>1, <2>2, <2>3, SameWork
  <1>3. ASSUME NEW r \in Runtimes, NEW p \in Polls, Fire(r, p, t)
        PROVE  /\ UNCHANGED <<fileVars, runtimeVars, historyVars, envVars>>
               /\ WorkOK
               /\ task[t] = None
               /\ \E j \in Job : /\ task' = [task EXCEPT ![t] = j] /\ j # None
                                /\ j.at \in {"recover", "commit"} /\ phase[j.rt] = "up"
    <2>. DEFINE x == timer[r][p]
                a == IF x.retry THEN "recover" ELSE "commit"
                j == [at |-> a, rt |-> r, poll |-> p, ts |-> x.ts]
    <2>1. /\ task' = [task EXCEPT ![t] = j] /\ task[t] = None /\ x # None
          /\ timer' = [timer EXCEPT ![r][p] = None]
          /\ UNCHANGED <<fileVars, runtimeVars, recovery, spent, historyVars, envVars>>
      BY <1>3 DEF Fire
    <2>2. x \in Timer
      BY <2>1 DEF TypeOK
    <2>3. x.ts \in Votes /\ phase[r] = "up"
      BY <2>1, <2>2 DEF Timer, SlotInv
    <2>. HIDE DEF x
    <2>4. a \in {"recover", "commit"} /\ a \in Waiting
      BY DEF Waiting
    <2>. HIDE DEF a
    <2>5. j \in Job /\ j # None /\ j.at = a /\ j.rt = r
      BY <2>3, <2>4, Nothing DEF Job
    <2>. HIDE DEF j
    <2>6. WorkOK
      BY <2>1, <2>3, TimedWork
    <2>. QED
      BY <2>1, <2>3, <2>4, <2>5, <2>6
  <1>4. CASE Rejected(t) \/ Abandoned(t) \/ Moot(t)
    <2>1. /\ task[t] # None /\ task[t].at \in {"register", "vote", "commit", "recover"}
          /\ task' = [task EXCEPT ![t] = None]
          /\ UNCHANGED <<fileVars, runtimeVars, workVars, historyVars, envVars>>
      BY <1>4 DEF Rejected, Abandoned, Moot, Finish, At
    <2>. QED
      BY <2>1, SameWork DEF Waiting, envVars
  <1>5. CASE RetryCommit(t)
    <2>1. /\ task[t] # None /\ task[t].at = "recover" /\ Goto(t, "commit")
          /\ UNCHANGED <<fileVars, runtimeVars, workVars, historyVars, envVars>>
      BY <1>5 DEF RetryCommit, At
    <2>2. task[t].ts \in Votes /\ "commit" \in Waiting \cup Writing \cup {"publish"}
          /\ phase[Rt(t)] = "up"
      BY <2>1, JobFields DEF Waiting, LockInv
    <2>3. PICK j \in Job : /\ task' = [task EXCEPT ![t] = j]
                         /\ j = [at |-> "commit", rt |-> Rt(t), poll |-> Poll(t),
                                 ts |-> task[t].ts]
      BY <2>1, <2>2, Goes
    <2>4. j.at = "commit" /\ j.rt = Rt(t)
      BY <2>3
    <2>. QED
      BY <2>1, <2>2, <2>3, <2>4, SameWork DEF Waiting, envVars
  <1>6. CASE CommitLater(t) \/ CommitUnbuilt(t)
    <2>1. /\ task[t] # None /\ task[t].at = "commit"
          /\ task' = [task EXCEPT ![t] = None] /\ Entry(t) # None
          /\ UNCHANGED <<fileVars, runtimeVars, historyVars, envVars>>
      BY <1>6 DEF CommitLater, CommitUnbuilt, Settling, Settleable, Current, Finish, At
    <2>2. /\ Entry(t) \in Pending /\ Rt(t) \in Runtimes /\ Poll(t) \in Polls
          /\ task[t].ts \in Votes /\ phase[Rt(t)] = "up"
      BY <2>1, JobFields DEF LockInv
    <2>3. CASE CommitLater(t)
      <3>1. /\ timer' = Scheduled(Rt(t), Poll(t), Entry(t), FALSE)
            /\ UNCHANGED <<recovery, spent>>
        BY <2>3 DEF CommitLater
      <3>2. Entry(t) # None
        BY <2>1
      <3>3. WorkOK
        BY <2>2, <3>1, <3>2, TimedWork
      <3>. QED
        BY <2>1, <3>3 DEF Waiting, envVars
    <2>4. CASE CommitUnbuilt(t)
      <3>1. WorkOK
        BY <2>2, <2>4, RetriedWork DEF CommitUnbuilt
      <3>. QED
        BY <2>1, <3>1 DEF Waiting, envVars
    <2>. QED
      BY <1>6, <2>3, <2>4
  <1>7. CASE \E r \in Runtimes, p \in Polls :
               Register(t, r, p) \/ Fire(r, p, t) \/ Vote(t, r, p)
    <2>1. CASE \E r \in Runtimes, p \in Polls : Register(t, r, p)
      <3>1. PICK r \in Runtimes, p \in Polls : Register(t, r, p)
        BY <2>1
      <3>2. PICK j \in Job : /\ task' = [task EXCEPT ![t] = j] /\ j # None
                           /\ j.at = "register" /\ phase[j.rt] = "up"
                           /\ j.poll \notin registered
                           /\ registered' = registered \cup {j.poll}
        BY <1>1, <3>1
      <3>3. /\ UNCHANGED <<fileVars, runtimeVars, historyVars, now, crashes>>
            /\ WorkOK /\ task[t] = None
        BY <1>1, <3>1
      <3>. QED
        BY <3>2, <3>3 DEF Waiting
    <2>2. CASE \E r \in Runtimes, p \in Polls : Fire(r, p, t) \/ Vote(t, r, p)
      <3>1. PICK r \in Runtimes, p \in Polls : Fire(r, p, t) \/ Vote(t, r, p)
        BY <2>2
      <3>2. PICK j \in Job : /\ task' = [task EXCEPT ![t] = j] /\ j # None
                           /\ j.at \in {"recover", "commit", "vote"}
                           /\ phase[j.rt] = "up"
        <4>1. CASE Fire(r, p, t)
          BY <1>3, <4>1
        <4>2. CASE Vote(t, r, p)
          BY <1>2, <4>2
        <4>. QED
          BY <3>1, <4>1, <4>2
      <3>3. /\ UNCHANGED <<fileVars, runtimeVars, historyVars, envVars>>
            /\ WorkOK /\ task[t] = None
        BY <1>2, <1>3, <3>1
      <3>. QED
        BY <3>2, <3>3 DEF Waiting, envVars
    <2>. QED
      BY <1>7, <2>1, <2>2
  <1>. QED
    BY <1>4, <1>5, <1>6, <1>7 DEF QuietStep

\* Job j of task t writes registry m: with a new poll, with a vote, as it is, or
\* without a poll that is settled.
Saves(t, j, m) ==
  \/ /\ task[t].at = "register" /\ j.at = "registering"
     /\ m = With(Here(t), Poll(t), Unvoted)
     /\ mem' = [mem EXCEPT ![Rt(t)] = m]
     /\ accepted' = accepted
  \/ /\ task[t].at = "vote" /\ j.at = "voting"
     /\ Entry(t) # None /\ j.ts > Entry(t).ts
     /\ \E x \in Pending :
          /\ m = With(Here(t), Poll(t), x)
          /\ x.ts = j.ts
          /\ x.chosen => x.due = now + SettleTime
     /\ mem' = [mem EXCEPT ![Rt(t)] = m]
     /\ accepted' = accepted \cup
          {[rt |-> Rt(t), poll |-> Poll(t), ts |-> j.ts, at |-> now]}
  \/ /\ task[t].at = "recover" /\ j.at = "rewriting"
     /\ Entry(t) # None
     /\ m = Here(t) /\ mem' = mem /\ accepted' = accepted
  \/ /\ task[t].at = "commit" /\ j.at = "committing"
     /\ Entry(t) # None /\ Entry(t).chosen /\ Entry(t).due <= now
     /\ j.ts = Entry(t).ts
     /\ m = Consumed(Here(t), Poll(t)) /\ mem' = mem
     /\ accepted' = accepted

\* A write begins under the lock, in a runtime that serves.
LEMMA BeginsSave ==
  ASSUME BaseInv, NEW t \in Tasks, BeginStep(t)
  PROVE  /\ task[t] # None /\ task[t].at \in Waiting
         /\ Rt(t) \in Runtimes /\ Poll(t) \in Polls /\ Here(t) \in Registry
         /\ lock[Rt(t)] = None /\ owner = Rt(t)
         /\ phase[Rt(t)] = "up" /\ Rt(t) \notin stopping
         /\ lock' = [lock EXCEPT ![Rt(t)] = t]
         /\ WorkOK
         /\ UNCHANGED <<disk, runtimeVars, acked, journal, settled, announced, envVars>>
         /\ \E j \in Job, m \in Registry :
              /\ task' = [task EXCEPT ![t] = j]
              /\ j.rt = Rt(t) /\ j.poll = Poll(t)
              /\ snap' = [snap EXCEPT ![Rt(t)] = m]
              /\ Saves(t, j, m)
  <1>. USE DEF BaseInv
  <1>. DEFINE Fields == {"registering", "voting", "rewriting", "committing"}
  <1>1. /\ task[t] # None /\ task[t].at \in Waiting
        /\ lock[Rt(t)] = None /\ Rt(t) \notin stopping
        /\ lock' = [lock EXCEPT ![Rt(t)] = t]
        /\ UNCHANGED <<disk, runtimeVars, acked, journal, settled, announced, envVars>>
    BY DEF BeginStep, BeginRegister, BeginVote, BeginRewrite, BeginCommit, Acceptable,
       Settling, Settleable, Fenced, At, Save, historyVars, Waiting
  <1>2. /\ Rt(t) \in Runtimes /\ Poll(t) \in Polls /\ Here(t) \in Registry
        /\ task[t].ts \in Votes /\ Entry(t) \in Pending \cup {None}
    BY <1>1, JobFields
  <1>3. phase[Rt(t)] = "up" /\ owner = Rt(t)
    BY <1>1, <1>2 DEF LockInv, SlotInv
  <1>4. Fields \subseteq Waiting \cup Writing \cup {"publish"}
    BY DEF Writing
  <1>5. CASE BeginRegister(t)
    <2>. DEFINE m == With(Here(t), Poll(t), Unvoted)
    <2>1. Unvoted \in Pending
      BY Numbers DEF Unvoted, Pending
    <2>2. m \in Registry /\ [Here(t) EXCEPT !.polls[Poll(t)] = Unvoted] = m
      BY <1>2, <2>1, WithFields
    <2>3. /\ mem' = [mem EXCEPT ![Rt(t)] = m] /\ snap' = [snap EXCEPT ![Rt(t)] = m]
          /\ Goto(t, "registering") /\ task[t].at = "register"
          /\ accepted' = accepted /\ UNCHANGED workVars
      BY <1>5, <2>2 DEF BeginRegister, Save, At, historyVars
    <2>4. PICK j \in Job : /\ task' = [task EXCEPT ![t] = j]
                         /\ j = [at |-> "registering", rt |-> Rt(t), poll |-> Poll(t),
                                 ts |-> task[t].ts]
      BY <1>1, <1>2, <1>4, <2>3, Goes
    <2>5. j.at = "registering" /\ j.rt = Rt(t) /\ j.poll = Poll(t)
      BY <2>4
    <2>6. WorkOK
      BY <2>3, SameWork
    <2>7. Saves(t, j, m)
      BY <2>3, <2>5 DEF Saves
    <2>. HIDE DEF m
    <2>. QED
      BY <1>1, <1>2, <1>3, <2>2, <2>3, <2>4, <2>5, <2>6, <2>7
  <1>6. CASE \E ts \in 1 .. MaxVote, chosen \in BOOLEAN : BeginVote(t, ts, chosen)
    <2>1. PICK ts \in 1 .. MaxVote, chosen \in BOOLEAN : BeginVote(t, ts, chosen)
      BY <1>6
    <2>. DEFINE e == [ts |-> ts, chosen |-> chosen,
                      due |-> IF chosen THEN now + SettleTime ELSE 0]
    <2>2. ts \in Votes /\ now \in 0 .. MaxTime
      BY Numbers DEF Votes, TypeOK
    <2>3. (IF chosen THEN now + SettleTime ELSE 0) \in 0 .. MaxTime + SettleTime
      BY <2>2, Numbers
    <2>4. e \in Pending
      BY <2>2, <2>3 DEF Pending
    <2>5. e.ts = ts /\ (e.chosen => e.due = now + SettleTime)
      OBVIOUS
    <2>6. PICK m \in Registry : /\ m = With(Here(t), Poll(t), e)
                               /\ [Here(t) EXCEPT !.polls[Poll(t)] = e] = m
      <3>. HIDE DEF e
      <3>. QED
        BY <1>2, <2>4, WithFields
    <2>7. /\ mem' = [mem EXCEPT ![Rt(t)] = m] /\ snap' = [snap EXCEPT ![Rt(t)] = m]
          /\ task[t].at = "vote"
          /\ task' = [task EXCEPT ![t].at = "voting", ![t].ts = ts]
          /\ accepted' = accepted \cup
               {[rt |-> Rt(t), poll |-> Poll(t), ts |-> ts, at |-> now]}
          /\ Entry(t) # None /\ ts > Entry(t).ts
          /\ CancelWork(Rt(t), Poll(t))
      BY <2>1, <2>6 DEF BeginVote, Save, At, Acceptable, Newer
    <2>8. PICK j \in Job : /\ task' = [task EXCEPT ![t] = j]
                         /\ j = [at |-> "voting", rt |-> Rt(t), poll |-> Poll(t),
                                 ts |-> ts]
      BY <1>1, <2>2, <1>4, <2>7, Goes
    <2>9. j.at = "voting" /\ j.rt = Rt(t) /\ j.poll = Poll(t) /\ j.ts = ts
      BY <2>8
    <2>10. WorkOK
      <3>1. /\ timer' = [timer EXCEPT ![Rt(t)][Poll(t)] = None]
            /\ recovery' = [recovery EXCEPT ![Rt(t)][Poll(t)] = None]
            /\ spent' = [spent EXCEPT ![Rt(t)] = @ \ {Poll(t)}]
        BY <2>7 DEF CancelWork
      <3>. QED
        BY <1>2, <1>3, <3>1, TimedWork
    <2>. HIDE DEF e
    <2>11. Saves(t, j, m)
      BY <2>4, <2>5, <2>6, <2>7, <2>9 DEF Saves
    <2>. QED
      BY <1>1, <1>2, <1>3, <2>6, <2>7, <2>8, <2>9, <2>10, <2>11
  <1>7. CASE BeginRewrite(t)
    <2>1. /\ mem' = mem /\ snap' = [snap EXCEPT ![Rt(t)] = Here(t)]
          /\ Goto(t, "rewriting") /\ task[t].at = "recover" /\ Entry(t) # None
          /\ accepted' = accepted /\ UNCHANGED workVars
      BY <1>7 DEF BeginRewrite, Save, At, Current, historyVars
    <2>2. PICK j \in Job : /\ task' = [task EXCEPT ![t] = j]
                         /\ j = [at |-> "rewriting", rt |-> Rt(t), poll |-> Poll(t),
                                 ts |-> task[t].ts]
      BY <1>1, <1>2, <1>4, <2>1, Goes
    <2>3. j.at = "rewriting" /\ j.rt = Rt(t) /\ j.poll = Poll(t)
      BY <2>2
    <2>4. WorkOK
      BY <2>1, SameWork
    <2>5. Saves(t, j, Here(t))
      BY <2>1, <2>3 DEF Saves
    <2>. QED
      BY <1>1, <1>2, <1>3, <2>1, <2>2, <2>3, <2>4, <2>5
  <1>8. CASE BeginCommit(t)
    <2>. DEFINE m == Consumed(Here(t), Poll(t))
    <2>1. /\ mem' = mem /\ snap' = [snap EXCEPT ![Rt(t)] = m]
          /\ Goto(t, "committing") /\ task[t].at = "commit"
          /\ Entry(t) # None /\ Entry(t).chosen /\ Entry(t).due <= now
          /\ task[t].ts = Entry(t).ts
          /\ accepted' = accepted /\ UNCHANGED workVars
      BY <1>8 DEF BeginCommit, Save, At, Settling, Settleable, Current, Ripe, historyVars
    <2>2. m \in Registry
      BY <1>2, <2>1, ConsumedFields DEF Entry
    <2>3. PICK j \in Job : /\ task' = [task EXCEPT ![t] = j]
                         /\ j = [at |-> "committing", rt |-> Rt(t), poll |-> Poll(t),
                                 ts |-> task[t].ts]
      BY <1>1, <1>2, <1>4, <2>1, Goes
    <2>4. j.at = "committing" /\ j.rt = Rt(t) /\ j.poll = Poll(t) /\ j.ts = Entry(t).ts
      BY <2>1, <2>3
    <2>5. WorkOK
      BY <2>1, SameWork
    <2>6. Saves(t, j, m)
      BY <2>1, <2>4 DEF Saves
    <2>. HIDE DEF m
    <2>. QED
      BY <1>1, <1>2, <1>3, <2>1, <2>2, <2>3, <2>4, <2>5, <2>6
  <1>. QED
    BY <1>5, <1>6, <1>7, <1>8 DEF BeginStep

\* A write ends: what was written is in the file and, for a settlement, in
\* memory from now on; or it failed, and memory is as it was.
LEMMA EndsSave ==
  ASSUME BaseInv, NEW t \in Tasks, EndStep(t)
  PROVE  LET r == Rt(t)
             s == snap[r]
         IN
         /\ task[t] # None /\ task[t].at \in Writing
         /\ r \in Runtimes /\ Poll(t) \in Polls /\ Here(t) \in Registry
         /\ lock[r] = t /\ owner = r /\ phase[r] = "up"
         /\ s \in Registry /\ Entry(t) \in Pending
         /\ snap' = [snap EXCEPT ![r] = None]
         /\ WorkOK
         /\ UNCHANGED <<runtimeVars, accepted, settled, announced, envVars>>
         /\ \/ /\ disk' = s /\ Acknowledge(s)
               /\ mem' = [mem EXCEPT ![r] = s]
               /\ \/ /\ task[t].at # "committing"
                     /\ task' = [task EXCEPT ![t] = None]
                     /\ lock' = [lock EXCEPT ![r] = None]
                     /\ journal' = journal
                  \/ /\ task[t].at = "committing"
                     /\ journal' = s.receipts
                     /\ \/ /\ task' = [task EXCEPT ![t] = None]
                           /\ lock' = [lock EXCEPT ![r] = None]
                        \/ /\ lock' = lock
                           /\ \E j \in Job :
                                /\ task' = [task EXCEPT ![t] = j]
                                /\ j.at = "publish" /\ j.rt = r /\ j.poll = Poll(t)
                                /\ j.ts = task[t].ts
            \/ /\ disk' \in {disk, s}
               /\ UNCHANGED <<mem, acked, journal>>
               /\ task' = [task EXCEPT ![t] = None]
               /\ lock' = [lock EXCEPT ![r] = None]
  <1>. USE DEF BaseInv
  <1>. DEFINE r == Rt(t)
              s == snap[r]
  <1>1. /\ task[t] # None /\ task[t].at \in Writing
        /\ UNCHANGED <<runtimeVars, accepted, settled, announced, envVars>>
    BY DEF EndStep, Registered, VoteSaved, Rewritten, CommitSaved, At, Writing
  <1>2. /\ r \in Runtimes /\ Poll(t) \in Polls /\ Here(t) \in Registry
        /\ task[t].ts \in Votes /\ Entry(t) \in Pending \cup {None}
    BY <1>1, JobFields
  <1>3. /\ lock[r] = t /\ phase[r] = "up" /\ s # None /\ Entry(t) # None
        /\ task[t].at # "committing" => s = Here(t)
    BY <1>1 DEF LockInv, Locked
  <1>4. owner = r /\ s \in Registry /\ Entry(t) \in Pending
    <2>1. lock[r] \in Tasks
      BY <1>3
    <2>. QED
      BY <1>2, <1>3, <2>1 DEF LockInv, TypeOK
  <1>5. PICK result \in {"ok", "cancelled", "failed"} :
          /\ Write(r, result)
          /\ result # "failed" /\ task[t].at # "committing" => UNCHANGED <<mem, journal>>
          /\ result # "failed" /\ task[t].at = "committing" =>
               mem' = [mem EXCEPT ![r] = s] /\ journal' = s.receipts
          /\ result = "failed" => UNCHANGED <<mem, journal>>
          /\ \/ Release(r) /\ Finish(t)
             \/ /\ task[t].at = "committing" /\ result # "failed"
                /\ Goto(t, "publish") /\ UNCHANGED lock
          /\ \/ UNCHANGED workVars
             \/ /\ UNCHANGED <<recovery, spent>>
                /\ timer' = timer \/ timer' = Scheduled(r, Poll(t), Entry(t), FALSE)
             \/ /\ recovery' = [recovery EXCEPT ![r][Poll(t)] = None]
                /\ UNCHANGED <<timer, spent>>
             \/ CancelWork(r, Poll(t))
             \/ ScheduleRecovery(r, Poll(t), task[t].ts, Entry(t))
             \/ ScheduleRecovery(r, Poll(t), 0, Entry(t))
    <2>1. CASE Registered(t)
      BY <2>1 DEF Registered, At
    <2>2. CASE VoteSaved(t)
      BY <2>2 DEF VoteSaved, At
    <2>3. CASE Rewritten(t)
      BY <2>3 DEF Rewritten, At
    <2>4. CASE CommitSaved(t)
      BY <2>4 DEF CommitSaved, At
    <2>. QED
      BY <2>1, <2>2, <2>3, <2>4 DEF EndStep
  <1>6. WorkOK
    <2>1. 0 \in Votes
      BY Numbers
    <2>2. CASE UNCHANGED workVars
      BY <2>2, SameWork
    <2>3. CASE \/ ScheduleRecovery(r, Poll(t), task[t].ts, Entry(t))
               \/ ScheduleRecovery(r, Poll(t), 0, Entry(t))
      BY <1>2, <1>3, <1>4, <2>1, <2>3, RetriedWork
    <2>4. CASE /\ UNCHANGED <<recovery, spent>>
               /\ timer' = timer \/ timer' = Scheduled(r, Poll(t), Entry(t), FALSE)
      BY <1>2, <1>3, <1>4, <2>4, TimedWork
    <2>5. CASE /\ recovery' = [recovery EXCEPT ![r][Poll(t)] = None]
               /\ UNCHANGED <<timer, spent>>
      BY <1>2, <1>3, <1>4, <2>5, TimedWork
    <2>6. CASE CancelWork(r, Poll(t))
      BY <1>2, <1>3, <1>4, <2>6, TimedWork DEF CancelWork
    <2>. QED
      BY <1>5, <2>2, <2>3, <2>4, <2>5, <2>6
  <1>7. snap' = [snap EXCEPT ![r] = None]
    BY <1>5 DEF Write
  <1>8. CASE result = "failed"
    <2>1. /\ disk' \in {disk, s} /\ UNCHANGED <<mem, acked, journal>>
          /\ task' = [task EXCEPT ![t] = None] /\ lock' = [lock EXCEPT ![r] = None]
      BY <1>5, <1>8 DEF Write, Release, Finish
    <2>. QED
      BY <1>1, <1>2, <1>3, <1>4, <1>6, <1>7, <2>1
  <1>9. CASE result # "failed"
    <2>1. disk' = s /\ Acknowledge(s)
      BY <1>5, <1>9 DEF Write
    <2>2. mem' = [mem EXCEPT ![r] = s]
      <3>1. task[t].at # "committing" => s = mem[r] /\ mem' = mem
        BY <1>3, <1>5, <1>9 DEF Here
      <3>2. mem = [mem EXCEPT ![r] = mem[r]]
        BY <1>2 DEF TypeOK
      <3>. QED
        BY <1>5, <1>9, <3>1, <3>2
    <2>3. /\ task[t].at # "committing" =>
               /\ task' = [task EXCEPT ![t] = None] /\ lock' = [lock EXCEPT ![r] = None]
               /\ journal' = journal
          /\ task[t].at = "committing" =>
               /\ journal' = s.receipts
               /\ \/ /\ task' = [task EXCEPT ![t] = None]
                     /\ lock' = [lock EXCEPT ![r] = None]
                  \/ lock' = lock /\ Goto(t, "publish")
      BY <1>5, <1>9 DEF Release, Finish
    <2>4. Goto(t, "publish") =>
            \E j \in Job : /\ task' = [task EXCEPT ![t] = j]
                          /\ j.at = "publish" /\ j.rt = r /\ j.poll = Poll(t)
                          /\ j.ts = task[t].ts
      <3>1. HAVE Goto(t, "publish")
      <3>2. PICK j \in Job : /\ task' = [task EXCEPT ![t] = j]
                           /\ j = [at |-> "publish", rt |-> Rt(t), poll |-> Poll(t),
                                   ts |-> task[t].ts]
        BY <1>1, <1>2, <3>1, Goes
      <3>. QED
        BY <3>2
    <2>. QED
      BY <1>1, <1>2, <1>3, <1>4, <1>6, <1>7, <2>1, <2>2, <2>3, <2>4
  <1>. QED
    BY <1>8, <1>9

\* A publication ends a task that held the lock.
LEMMA Publishes ==
  ASSUME BaseInv, NEW t \in Tasks, Publish(t)
  PROVE  /\ task[t] # None /\ task[t].at = "publish"
         /\ Rt(t) \in Runtimes /\ Poll(t) \in Polls /\ task[t].ts \in Votes
         /\ lock[Rt(t)] = t /\ owner = Rt(t) /\ phase[Rt(t)] = "up"
         /\ task' = [task EXCEPT ![t] = None]
         /\ lock' = [lock EXCEPT ![Rt(t)] = None]
         /\ \/ UNCHANGED <<announced, settled>>
            \/ /\ announced' = [announced EXCEPT ![Poll(t)] = @ + 1]
               /\ settled' = [settled EXCEPT ![Poll(t)] =
                                [ts |-> task[t].ts, at |-> now, rt |-> Rt(t)]]
         /\ UNCHANGED <<disk, mem, snap, runtimeVars, workVars, accepted, acked,
                        journal, envVars>>
  <1>1. task[t] # None /\ task[t].at = "publish"
    BY DEF Publish, At
  <1>2. Rt(t) \in Runtimes /\ Poll(t) \in Polls /\ task[t].ts \in Votes
    BY <1>1, JobFields DEF BaseInv
  <1>3. lock[Rt(t)] = t /\ phase[Rt(t)] = "up"
    BY <1>1 DEF BaseInv, LockInv, Locked
  <1>4. lock[Rt(t)] \in Tasks
    BY <1>3
  <1>5. owner = Rt(t)
    BY <1>2, <1>4 DEF BaseInv, LockInv
  <1>. QED
    BY <1>1, <1>2, <1>3, <1>5 DEF Publish, Release, Finish

-----------------------------------------------------------------------------
(***************************************************************************)
(* The base of the invariant                                               *)
(***************************************************************************)

\* The registry of a new runtime.
LEMMA EmptyRegistryFields ==
  /\ EmptyRegistry \in Registry
  /\ \A p \in Polls : EmptyRegistry.polls[p] = None
  /\ EmptyRegistry.receipts = <<>>
  BY DEF EmptyRegistry, Registry

\* A timer that a load or a fence leaves.
LEMMA TimersOf ==
  ASSUME TypeOK, NEW r \in Runtimes,
         NEW f \in [Polls -> Timer \cup {None}]
  PROVE  /\ [timer EXCEPT ![r] = f] \in [Runtimes -> [Polls -> Timer \cup {None}]]
         /\ \A q \in Runtimes, k \in Polls :
              [timer EXCEPT ![r] = f][q][k] = IF q = r THEN f[k] ELSE timer[q][k]
  BY DEF TypeOK

\* A fence drops work.
LEMMA FencedWork ==
  ASSUME TypeOK, NEW r \in Runtimes, Fence(r)
  PROVE  /\ WorkOK
         /\ \A q \in Runtimes, k \in Polls :
              timer'[q][k] # None => timer[q][k] # None /\ q # r
         /\ stopping' = stopping \cup {r}
  <1>. DEFINE f == [p \in Polls |-> None]
  <1>1. f \in [Polls -> Timer \cup {None}] /\ f \in [Polls -> Recovery \cup {None}]
    OBVIOUS
  <1>2. /\ timer' = [timer EXCEPT ![r] = f] /\ recovery' = [recovery EXCEPT ![r] = f]
        /\ spent' = spent /\ stopping' = stopping \cup {r}
    BY DEF Fence
  <1>3. \A k \in Polls : f[k] = None
    OBVIOUS
  <1>. HIDE DEF f
  <1>4. /\ timer' \in [Runtimes -> [Polls -> Timer \cup {None}]]
        /\ \A q \in Runtimes, k \in Polls : timer'[q][k] = IF q = r THEN f[k] ELSE timer[q][k]
    BY <1>1, <1>2, TimersOf
  <1>5. recovery' \in [Runtimes -> [Polls -> Recovery \cup {None}]]
    BY <1>1, <1>2 DEF TypeOK
  <1>. QED
    BY <1>2, <1>3, <1>4, <1>5 DEF WorkOK, TypeOK

\* A load schedules the polls it finds.
LEMMA LoadedWork ==
  ASSUME TypeOK, NEW r \in Runtimes, Load(r)
  PROVE  /\ timer' \in [Runtimes -> [Polls -> Timer \cup {None}]]
         /\ \A q \in Runtimes, k \in Polls : timer'[q][k] # None => timer[q][k] # None \/ q = r
  <1>. DEFINE F(p) == IF disk.polls[p] # None /\ disk.polls[p].chosen
                      THEN [ts |-> disk.polls[p].ts, due |-> disk.polls[p].due,
                            retry |-> FALSE]
                      ELSE None
              f == [p \in Polls |-> F(p)]
  <1>1. ASSUME NEW p \in Polls
        PROVE  F(p) \in Timer \cup {None}
    <2>1. disk.polls[p] \in Pending \cup {None}
      BY RegistryFields DEF TypeOK
    <2>2. CASE disk.polls[p] = None
      BY <2>2
    <2>3. CASE disk.polls[p] # None
      <3>1. disk.polls[p] \in Pending
        BY <2>1, <2>3
      <3>2. [ts |-> disk.polls[p].ts, due |-> disk.polls[p].due, retry |-> FALSE] \in Timer
        BY <3>1 DEF Timer, Pending
      <3>. QED
        BY <3>2
    <2>. QED
      BY <2>2, <2>3
  <1>2. f \in [Polls -> Timer \cup {None}]
    <2>. HIDE DEF F
    <2>. QED
      BY <1>1
  <1>3. timer' = [timer EXCEPT ![r] = f]
    BY DEF Load, Resumed, Found
  <1>. HIDE DEF f
  <1>. QED
    BY <1>2, <1>3, TimersOf

\* Every step keeps the types.
LEMMA TypeKept ==
  ASSUME BaseInv, SettledInv, [Next]_vars
  PROVE  TypeOK'
  <1>. USE DEF BaseInv
  <1>1. ASSUME NEW r \in Runtimes, SlotStep(r)
        PROVE  TypeOK'
    <2>1. WorkOK
      <3>1. CASE EnterSlot(r) \/ TakeOver(r) \/ CancelStart(r)
        BY <3>1, SameWork DEF EnterSlot, TakeOver, CancelStart
      <3>2. CASE Stop(r) \/ LoadFails(r)
        BY <3>2, FencedWork DEF Stop, LoadFails
      <3>3. CASE FencePrevious(r)
        <4>1. owner \in Runtimes /\ Fence(owner)
          BY <3>3 DEF FencePrevious, TypeOK
        <4>. QED
          BY <4>1, FencedWork
      <3>. QED
        BY <1>1, <3>1, <3>2, <3>3 DEF SlotStep
    <2>2. /\ phase' \in [Runtimes -> Phases]
          /\ slotLock' \in Runtimes \cup {None} /\ owner' \in Runtimes \cup {None}
          /\ lock' \in [Runtimes -> Tasks \cup Runtimes \cup {None}]
      <3>1. /\ \/ phase' = phase
               \/ \E x \in Phases : phase' = [phase EXCEPT ![r] = x]
            /\ slotLock' \in {slotLock, r, None} /\ owner' \in {owner, r}
            /\ \/ lock' = lock
               \/ \E x \in {r, None} : lock' = [lock EXCEPT ![r] = x]
        BY <1>1 DEF SlotStep, EnterSlot, Stop, FencePrevious, TakeOver, LoadFails,
           CancelStart, LeaveStart, Release, Phases, fileVars
      <3>2. /\ phase \in [Runtimes -> Phases]
            /\ lock \in [Runtimes -> Tasks \cup Runtimes \cup {None}]
            /\ slotLock \in Runtimes \cup {None} /\ owner \in Runtimes \cup {None}
        BY DEF TypeOK
      <3>3. phase' \in [Runtimes -> Phases]
        BY <3>1, <3>2
      <3>4. lock' \in [Runtimes -> Tasks \cup Runtimes \cup {None}]
        BY <3>1, <3>2
      <3>. QED
        BY <3>1, <3>2, <3>3, <3>4
    <2>3. stopping' \subseteq Runtimes
      BY <1>1 DEF SlotStep, EnterSlot, Stop, FencePrevious, TakeOver, LoadFails,
         CancelStart, Fence, TypeOK
    <2>4. UNCHANGED <<disk, mem, snap, task, historyVars, envVars>>
      BY <1>1 DEF SlotStep, EnterSlot, Stop, FencePrevious, TakeOver, LoadFails,
         CancelStart, fileVars
    <2>. QED
      BY <2>1, <2>2, <2>3, <2>4 DEF WorkOK, TypeOK, historyVars, envVars
  <1>2. ASSUME NEW r \in Runtimes, Load(r)
        PROVE  TypeOK'
    <2>1. timer' \in [Runtimes -> [Polls -> Timer \cup {None}]]
      BY <1>2, LoadedWork
    <2>2. mem' \in [Runtimes -> Registry] /\ journal' \in Seq(Receipt)
      BY <1>2, RegistryFields DEF Load, Found, TypeOK
    <2>3. /\ phase' \in [Runtimes -> Phases] /\ slotLock' = None
          /\ lock' \in [Runtimes -> Tasks \cup Runtimes \cup {None}]
          /\ UNCHANGED <<disk, snap, stopping, owner, recovery, spent, task, accepted,
                         acked, settled, announced, envVars>>
      BY <1>2 DEF Load, LeaveStart, Release, TypeOK, Phases
    <2>. QED
      BY <2>1, <2>2, <2>3 DEF TypeOK, envVars
  <1>3. ASSUME NEW t \in Tasks, QuietStep(t)
        PROVE  TypeOK'
    <2>1. PICK j \in Job \cup {None} :
            /\ task' = [task EXCEPT ![t] = j]
            /\ \/ registered' = registered
               \/ j # None /\ registered' = registered \cup {j.poll}
      BY <1>3, Quiet
    <2>2. task' \in [Tasks -> Job \cup {None}]
      BY <2>1 DEF TypeOK
    <2>3. registered' \subseteq Polls
      BY <2>1 DEF TypeOK, Job
    <2>4. /\ UNCHANGED <<fileVars, runtimeVars, historyVars, now, crashes>>
          /\ WorkOK
      BY <1>3, Quiet
    <2>. QED
      BY <2>2, <2>3, <2>4 DEF TypeOK, WorkOK, fileVars, runtimeVars, historyVars
  <1>4. ASSUME NEW t \in Tasks, BeginStep(t)
        PROVE  TypeOK'
    <2>1. PICK j \in Job, m \in Registry :
            /\ task' = [task EXCEPT ![t] = j]
            /\ j.rt = Rt(t) /\ j.poll = Poll(t)
            /\ snap' = [snap EXCEPT ![Rt(t)] = m]
            /\ Saves(t, j, m)
      BY <1>4, BeginsSave
    <2>2. /\ Rt(t) \in Runtimes /\ Poll(t) \in Polls
          /\ lock' = [lock EXCEPT ![Rt(t)] = t]
          /\ WorkOK
          /\ UNCHANGED <<disk, runtimeVars, acked, journal, settled, announced, envVars>>
      BY <1>4, BeginsSave
    <2>3. /\ task' \in [Tasks -> Job \cup {None}]
          /\ snap' \in [Runtimes -> Registry \cup {None}]
          /\ lock' \in [Runtimes -> Tasks \cup Runtimes \cup {None}]
      BY <2>1, <2>2 DEF TypeOK
    <2>4. mem' \in [Runtimes -> Registry]
      <3>1. mem' = mem \/ mem' = [mem EXCEPT ![Rt(t)] = m]
        BY <2>1 DEF Saves
      <3>. QED
        BY <3>1 DEF TypeOK
    <2>5. accepted' \subseteq [rt : Runtimes, poll : Polls, ts : Votes, at : 0 .. MaxTime]
      <3>1. \/ accepted' = accepted
            \/ accepted' = accepted \cup
                 {[rt |-> Rt(t), poll |-> Poll(t), ts |-> j.ts, at |-> now]}
        BY <2>1 DEF Saves
      <3>2. j.ts \in Votes /\ now \in 0 .. MaxTime
        BY DEF Job, TypeOK
      <3>. QED
        BY <2>2, <3>1, <3>2 DEF TypeOK
    <2>. QED
      BY <2>2, <2>3, <2>4, <2>5 DEF TypeOK, WorkOK, runtimeVars, envVars
  <1>5. ASSUME NEW t \in Tasks, EndStep(t)
        PROVE  TypeOK'
    <2>. DEFINE r == Rt(t)
                s == snap[r]
    <2>1. /\ r \in Runtimes /\ s \in Registry
          /\ WorkOK
          /\ snap' = [snap EXCEPT ![r] = None]
          /\ UNCHANGED <<runtimeVars, accepted, settled, announced, envVars>>
      BY <1>5, EndsSave
    <2>2. /\ lock' = lock \/ lock' = [lock EXCEPT ![r] = None]
          /\ mem' = mem \/ mem' = [mem EXCEPT ![r] = s]
          /\ disk' \in {disk, s}
          /\ acked' = acked \/ Acknowledge(s)
          /\ journal' = journal \/ journal' = s.receipts
          /\ \E j \in Job \cup {None} : task' = [task EXCEPT ![t] = j]
      BY <1>5, EndsSave
    <2>. HIDE DEF s, r
    <2>3. task' \in [Tasks -> Job \cup {None}]
      BY <2>2 DEF TypeOK
    <2>4. acked' \in [Polls -> Votes]
      <3>1. CASE Acknowledge(s)
        <4>1. \A p \in Polls : s.polls[p] # None => s.polls[p].ts \in Votes
          BY <2>1, RegistryFields DEF Pending
        <4>. QED
          BY <3>1, <4>1 DEF Acknowledge, Larger, TypeOK
      <3>. QED
        BY <2>2, <3>1 DEF TypeOK
    <2>5. journal' \in Seq(Receipt)
      BY <2>1, <2>2, RegistryFields DEF TypeOK
    <2>6. lock' \in [Runtimes -> Tasks \cup Runtimes \cup {None}]
      BY <2>2 DEF TypeOK
    <2>7. mem' \in [Runtimes -> Registry] /\ disk' \in Registry
      <3>1. mem \in [Runtimes -> Registry] /\ disk \in Registry
        BY DEF TypeOK
      <3>2. mem' = mem \/ mem' = [mem EXCEPT ![r] = s]
        BY <2>2
      <3>3. disk' \in Registry
        BY <2>1, <2>2, <3>1
      <3>. QED
        BY <2>1, <3>1, <3>2, <3>3
    <2>8. snap' \in [Runtimes -> Registry \cup {None}]
      BY <2>1 DEF TypeOK
    <2>. QED
      BY <2>1, <2>3, <2>4, <2>5, <2>6, <2>7, <2>8 DEF TypeOK, WorkOK, runtimeVars, envVars
  <1>6. ASSUME NEW t \in Tasks, Publish(t)
        PROVE  TypeOK'
    <2>1. /\ Rt(t) \in Runtimes /\ Poll(t) \in Polls /\ task[t].ts \in Votes
          /\ task' = [task EXCEPT ![t] = None]
          /\ lock' = [lock EXCEPT ![Rt(t)] = None]
          /\ \/ UNCHANGED <<announced, settled>>
             \/ /\ announced' = [announced EXCEPT ![Poll(t)] = @ + 1]
                /\ settled' = [settled EXCEPT ![Poll(t)] =
                                 [ts |-> task[t].ts, at |-> now, rt |-> Rt(t)]]
          /\ UNCHANGED <<disk, mem, snap, runtimeVars, workVars, accepted, acked,
                         journal, envVars>>
      BY <1>6, Publishes
    <2>2. announced' \in [Polls -> Nat]
      <3>1. announced \in [Polls -> Nat]
        BY DEF TypeOK
      <3>2. PICK p \in Polls :
              announced' = announced \/ announced' = [announced EXCEPT ![p] = @ + 1]
        BY <2>1
      <3>. QED
        BY ONLY <3>1, <3>2
    <2>3. settled' \in [Polls -> [ts : Votes, at : 0 .. MaxTime, rt : Runtimes] \cup {None}]
      <3>. DEFINE S == [ts : Votes, at : 0 .. MaxTime, rt : Runtimes]
                  x == [ts |-> task[t].ts, at |-> now, rt |-> Rt(t)]
      <3>1. x \in S
        BY <2>1 DEF TypeOK
      <3>2. settled \in [Polls -> S \cup {None}]
        BY DEF TypeOK
      <3>3. settled' = settled \/ settled' = [settled EXCEPT ![Poll(t)] = x]
        BY <2>1
      <3>. HIDE DEF x, S
      <3>4. settled' \in [Polls -> S \cup {None}]
        BY <3>1, <3>2, <3>3
      <3>. QED
        BY <3>4 DEF S
    <2>. QED
      BY <2>1, <2>2, <2>3 DEF TypeOK, runtimeVars, workVars, envVars
  <1>7. CASE Tick
    <2>1. now' \in 0 .. MaxTime
      BY <1>7, Numbers DEF Tick, TypeOK
    <2>. QED
      BY <1>7, <2>1 DEF Tick, TypeOK, fileVars, runtimeVars, workVars, historyVars
  <1>8. CASE Crash
    <2>1. disk' \in Registry
      <3>1. disk' = disk \/ \E r \in Runtimes : snap[r] # None /\ disk' = snap[r]
        BY <1>8 DEF Crash
      <3>. QED
        BY <3>1 DEF TypeOK
    <2>2. crashes' \in 0 .. MaxCrashes
      BY <1>8, Numbers DEF Crash, TypeOK
    <2>3. /\ mem' \in [Runtimes -> Registry] /\ snap' \in [Runtimes -> Registry \cup {None}]
          /\ lock' \in [Runtimes -> Tasks \cup Runtimes \cup {None}]
          /\ task' \in [Tasks -> Job \cup {None}]
      BY <1>8, EmptyRegistryFields DEF Crash
    <2>4. /\ phase' \in [Runtimes -> Phases]
          /\ timer' \in [Runtimes -> [Polls -> Timer \cup {None}]]
          /\ recovery' \in [Runtimes -> [Polls -> Recovery \cup {None}]]
          /\ slotLock' = None /\ owner' = None
      BY <1>8 DEF Crash, Phases, TypeOK
    <2>. QED
      BY <1>8, <2>1, <2>2, <2>3, <2>4 DEF Crash, TypeOK, historyVars
  <1>9. CASE UNCHANGED vars
    BY <1>9 DEF vars, TypeOK, fileVars, runtimeVars, workVars, historyVars, envVars
  <1>. QED
    BY <1>1, <1>2, <1>3, <1>4, <1>5, <1>6, <1>7, <1>8, <1>9, NextCases

\* The slot has one owner, who was alone when it took over.
LEMMA SlotKept ==
  ASSUME BaseInv, [Next]_vars
  PROVE  SlotInv'
  <1>. USE DEF BaseInv
  <1>1. ASSUME NEW r \in Runtimes, SlotStep(r)
        PROVE  SlotInv'
    <2>. USE Nothing DEF TypeOK, SlotInv
    <2>1. CASE EnterSlot(r)
      BY <2>1 DEF EnterSlot, fileVars, workVars
    <2>2. CASE Stop(r)
      <3>1. \A q \in Runtimes, k \in Polls : timer'[q][k] # None => timer[q][k] # None
        BY <2>2, FencedWork DEF Stop
      <3>. QED
        BY <2>2, <3>1 DEF Stop, Fence, fileVars
    <2>3. CASE FencePrevious(r)
      <3>1. owner \in Runtimes /\ Fence(owner)
        BY <2>3 DEF FencePrevious
      <3>2. \A q \in Runtimes, k \in Polls :
              timer'[q][k] # None => timer[q][k] # None /\ q # owner
        BY <3>1, FencedWork
      <3>. QED
        BY <2>3, <3>1, <3>2 DEF FencePrevious, Fence, fileVars
    <2>4. CASE TakeOver(r)
      BY <2>4 DEF TakeOver, workVars
    <2>5. CASE LoadFails(r)
      <3>1. \A q \in Runtimes, k \in Polls :
              timer'[q][k] # None => timer[q][k] # None /\ q # r
        BY <2>5, FencedWork DEF LoadFails
      <3>. QED
        BY <2>5, <3>1 DEF LoadFails, LeaveStart, Release, Fence
    <2>6. CASE CancelStart(r)
      BY <2>6 DEF CancelStart, LeaveStart, Release, workVars
    <2>. QED
      BY <1>1, <2>1, <2>2, <2>3, <2>4, <2>5, <2>6 DEF SlotStep
  <1>2. ASSUME NEW r \in Runtimes, Load(r)
        PROVE  SlotInv'
    <2>1. \A q \in Runtimes, k \in Polls : timer'[q][k] # None => timer[q][k] # None \/ q = r
      BY <1>2, LoadedWork
    <2>. QED
      BY <1>2, <2>1, Nothing DEF Load, LeaveStart, Release, TypeOK, SlotInv
  <1>3. ASSUME NEW t \in Tasks, QuietStep(t)
        PROVE  SlotInv'
    <2>1. UNCHANGED <<phase, stopping, slotLock, owner, lock>> /\ WorkOK
      BY <1>3, Quiet DEF runtimeVars, fileVars
    <2>. QED
      BY <2>1 DEF SlotInv, WorkOK
  <1>4. ASSUME NEW t \in Tasks, BeginStep(t) \/ EndStep(t) \/ Publish(t)
        PROVE  SlotInv'
    <2>1. /\ UNCHANGED runtimeVars
          /\ phase[Rt(t)] = "up" /\ Rt(t) \in Runtimes
          /\ WorkOK
          /\ \/ lock' = lock
             \/ \E k \in Tasks \cup {None} : lock' = [lock EXCEPT ![Rt(t)] = k]
      <3>1. CASE BeginStep(t)
        BY <3>1, BeginsSave
      <3>2. CASE EndStep(t)
        BY <3>2, EndsSave
      <3>3. CASE Publish(t)
        BY <3>3, Publishes, SameWork
      <3>. QED
        BY <1>4, <3>1, <3>2, <3>3
    <2>2. UNCHANGED <<phase, stopping, slotLock, owner>>
      BY <2>1 DEF runtimeVars
    <2>3. \A q \in Runtimes, k \in Polls : timer'[q][k] # None => phase[q] = "up"
      BY <2>1 DEF WorkOK, SlotInv
    <2>4. \A q \in Runtimes : lock'[q] = lock[q] \/ (q = Rt(t) /\ lock'[q] \notin Runtimes)
      BY <2>1, Nothing DEF TypeOK
    <2>. QED
      BY <2>1, <2>2, <2>3, <2>4 DEF SlotInv
  <1>5. CASE Tick \/ UNCHANGED vars
    BY <1>5 DEF Tick, vars, fileVars, runtimeVars, workVars, SlotInv
  <1>6. CASE Crash
    BY <1>6, Nothing DEF Crash, TypeOK, SlotInv, Phases
  <1>. QED
    BY <1>1, <1>2, <1>3, <1>4, <1>5, <1>6, NextCases

\* A lock and the write under it begin and end together.
LEMMA LockKept ==
  ASSUME BaseInv, [Next]_vars
  PROVE  LockInv'
  <1>. USE DEF BaseInv
  <1>1. ASSUME NEW r \in Runtimes, SlotStep(r) \/ Load(r)
        PROVE  LockInv'
    <2>1. task' = task /\ snap' = snap /\ DOMAIN lock' = Runtimes
      BY <1>1 DEF SlotStep, EnterSlot, Stop, FencePrevious, TakeOver, Load, LoadFails,
         CancelStart, LeaveStart, Release, TypeOK, fileVars
    <2>2. \A q \in Runtimes : phase[q] = "up" => phase'[q] = "up"
      BY <1>1 DEF SlotStep, EnterSlot, Stop, FencePrevious, TakeOver, Load, LoadFails,
         CancelStart, LeaveStart, TypeOK
    <2>3. \A q \in Runtimes : lock[q] \in Tasks \/ lock'[q] \in Tasks =>
            lock'[q] = lock[q] /\ mem'[q] = mem[q] /\ owner' = owner
      <3>1. \A q \in Runtimes : lock[q] \in Tasks => phase[q] = "up" /\ owner = q
        BY DEF LockInv
      <3>2. CASE EnterSlot(r) \/ Stop(r) \/ FencePrevious(r)
        BY <3>2 DEF EnterSlot, Stop, FencePrevious, fileVars
      <3>3. CASE TakeOver(r)
        <4>1. \A q \in Runtimes : lock[q] \notin Tasks
          BY <3>1, <3>3, Nothing DEF TakeOver
        <4>2. \A q \in Runtimes : lock'[q] \notin Tasks
          BY <3>3, <4>1, Nothing DEF TakeOver, TypeOK
        <4>. QED
          BY <4>1, <4>2
      <3>4. CASE Load(r) \/ LoadFails(r) \/ CancelStart(r)
        <4>1. /\ phase[r] # "up" /\ owner' = owner
              /\ lock' = [lock EXCEPT ![r] = None]
              /\ \A q \in Runtimes : q # r => mem'[q] = mem[q]
          BY <3>4 DEF Load, LoadFails, CancelStart, LeaveStart, Release, TypeOK
        <4>. QED
          BY <3>1, <4>1, Nothing DEF TypeOK
      <3>. QED
        BY <1>1, <3>2, <3>3, <3>4 DEF SlotStep
    <2>4. \A t \in Tasks : task[t] # None =>
            /\ Rt(t) \in Runtimes /\ phase[Rt(t)] = "up"
            /\ task[t].at \in Locked => lock[Rt(t)] = t
            /\ task[t].at \in Writing => task[t].at \in Locked
      BY JobFields DEF LockInv, Locked
    <2>5. \A t \in Tasks : task[t] # None /\ task[t].at \in Locked =>
            lock'[Rt(t)] = t /\ mem'[Rt(t)] = mem[Rt(t)]
      BY <2>3, <2>4
    <2>6. \A t \in Tasks : task[t] # None =>
            /\ phase'[Rt(t)] = "up"
            /\ task[t].at \in Locked => lock'[Rt(t)] = t
            /\ task[t].at \in Writing => snap[Rt(t)] # None /\ mem'[Rt(t)].polls[Poll(t)] # None
            /\ task[t].at \in Writing \ {"committing"} => snap[Rt(t)] = mem'[Rt(t)]
            /\ task[t].at = "committing" =>
                 /\ mem'[Rt(t)].polls[Poll(t)].ts = task[t].ts
                 /\ snap[Rt(t)] = Consumed(mem'[Rt(t)], Poll(t))
      BY <2>2, <2>4, <2>5 DEF LockInv, Entry, Here, Writing
    <2>7. \A q \in Runtimes : lock'[q] \in Tasks =>
            /\ task[lock'[q]] # None
            /\ task[lock'[q]].at \in Locked
            /\ Rt(lock'[q]) = q
            /\ owner' = q
      BY <2>3 DEF LockInv
    <2>8. \A q \in Runtimes : snap[q] # None =>
            lock'[q] \in Tasks /\ task[lock'[q]].at \in Writing
      BY <2>3 DEF LockInv
    <2>. QED
      BY <2>1, <2>6, <2>7, <2>8 DEF LockInv, Rt, Poll, Entry, Here
  <1>2. ASSUME NEW t \in Tasks, QuietStep(t)
        PROVE  LockInv'
    <2>1. PICK j \in Job \cup {None} :
            /\ task' = [task EXCEPT ![t] = j]
            /\ j # None => j.at \in Waiting /\ phase[j.rt] = "up"
      BY <1>2, Quiet
    <2>2. UNCHANGED <<mem, snap, lock, phase, owner>>
      BY <1>2, Quiet DEF fileVars, runtimeVars
    <2>3. task[t] = None \/ task[t].at \notin Locked
      BY <1>2, Quiet DEF Waiting, Writing, Locked
    <2>4. task'[t] = j /\ \A u \in Tasks : u # t => task'[u] = task[u]
      BY <2>1 DEF TypeOK
    <2>. QED
      BY <2>1, <2>2, <2>3, <2>4 DEF LockInv, Rt, Poll, Entry, Here, Waiting, Writing, Locked
  <1>3. ASSUME NEW t \in Tasks, Publish(t)
        PROVE  LockInv'
    <2>1. /\ task[t] # None /\ task[t].at = "publish"
          /\ Rt(t) \in Runtimes /\ lock[Rt(t)] = t
          /\ task' = [task EXCEPT ![t] = None]
          /\ lock' = [lock EXCEPT ![Rt(t)] = None]
          /\ UNCHANGED <<mem, snap, phase, owner>>
      BY <1>3, Publishes DEF runtimeVars
    <2>2. task'[t] = None /\ \A u \in Tasks : u # t => task'[u] = task[u]
      BY <2>1 DEF TypeOK
    <2>3. lock'[Rt(t)] = None /\ \A q \in Runtimes : q # Rt(t) => lock'[q] = lock[q]
      BY <2>1 DEF TypeOK
    <2>. QED
      BY <2>1, <2>2, <2>3, Nothing DEF LockInv, Rt, Poll, Entry, Here, Writing, Locked
  <1>4. ASSUME NEW t \in Tasks, BeginStep(t)
        PROVE  LockInv'
    <2>. DEFINE r == Rt(t)
    <2>1. PICK j \in Job, m \in Registry :
            /\ task' = [task EXCEPT ![t] = j]
            /\ j.rt = r /\ j.poll = Poll(t)
            /\ snap' = [snap EXCEPT ![r] = m]
            /\ Saves(t, j, m)
      BY <1>4, BeginsSave
    <2>2. /\ r \in Runtimes /\ Poll(t) \in Polls /\ Here(t) \in Registry
          /\ lock[r] = None /\ owner = r /\ phase[r] = "up"
          /\ lock' = [lock EXCEPT ![r] = t]
          /\ UNCHANGED <<phase, owner>>
      BY <1>4, BeginsSave DEF runtimeVars
    <2>3. task'[t] = j /\ \A u \in Tasks : u # t => task'[u] = task[u]
      BY <2>1 DEF TypeOK
    <2>4. /\ snap'[r] = m /\ \A q \in Runtimes : q # r => snap'[q] = snap[q]
          /\ lock'[r] = t /\ \A q \in Runtimes : q # r => lock'[q] = lock[q]
      BY <2>1, <2>2 DEF TypeOK
    <2>5. \A q \in Runtimes : q # r => mem'[q] = mem[q]
      BY <2>1, <2>2 DEF Saves, TypeOK
    <2>6. /\ j.at \in Writing
          /\ mem'[r].polls[Poll(t)] # None
          /\ j.at # "committing" => m = mem'[r]
          /\ j.at = "committing" => /\ mem'[r].polls[Poll(t)].ts = j.ts
                                  /\ m = Consumed(mem'[r], Poll(t))
      <3>1. Unvoted \in Pending
        BY Numbers DEF Unvoted, Pending
      <3>2. \A e \in Pending : With(Here(t), Poll(t), e).polls[Poll(t)] = e /\ e # None
        BY <2>2, WithFields, Nothing
      <3>3. \/ /\ j.at \in {"registering", "voting"}
               /\ mem' = [mem EXCEPT ![r] = m]
               /\ \E e \in Pending : m = With(Here(t), Poll(t), e)
            \/ j.at = "rewriting" /\ Entry(t) # None /\ m = Here(t) /\ mem' = mem
            \/ /\ j.at = "committing" /\ Entry(t) # None /\ j.ts = Entry(t).ts
               /\ m = Consumed(Here(t), Poll(t)) /\ mem' = mem
        BY <2>1, <3>1 DEF Saves
      <3>4. CASE /\ j.at \in {"registering", "voting"}
                 /\ mem' = [mem EXCEPT ![r] = m]
                 /\ \E e \in Pending : m = With(Here(t), Poll(t), e)
        <4>1. mem'[r] = m
          BY <2>2, <3>4 DEF TypeOK
        <4>. QED
          BY <3>2, <3>4, <4>1 DEF Writing
      <3>. QED
        BY <3>3, <3>4 DEF Writing, Entry, Here
    <2>7. \A u \in Tasks : u # t /\ task[u] # None =>
            Rt(u) \in Runtimes /\ (task[u].at \in Locked => Rt(u) # r)
      BY <2>2, JobFields, Nothing DEF LockInv
    <2>. DEFINE Fits(u, k) ==
           /\ phase[k.rt] = "up"
           /\ k.at \in Locked => lock'[k.rt] = u
           /\ k.at \in Writing => snap'[k.rt] # None /\ mem'[k.rt].polls[k.poll] # None
           /\ k.at \in Writing \ {"committing"} => snap'[k.rt] = mem'[k.rt]
           /\ k.at = "committing" =>
                /\ mem'[k.rt].polls[k.poll].ts = k.ts
                /\ snap'[k.rt] = Consumed(mem'[k.rt], k.poll)
    <2>8. \A u \in Tasks : task'[u] # None => Fits(u, task'[u])
      <3>1. ASSUME NEW u \in Tasks, u # t, task[u] # None
            PROVE  Fits(u, task[u])
        <4>1. task[u].at \in Locked =>
                /\ lock'[Rt(u)] = lock[Rt(u)] /\ snap'[Rt(u)] = snap[Rt(u)]
                /\ mem'[Rt(u)] = mem[Rt(u)]
          BY <2>4, <2>5, <2>7, <3>1
        <4>. QED
          BY <3>1, <4>1 DEF LockInv, Entry, Here, Rt, Poll, Locked, Writing
      <3>2. m # None
        BY Nothing
      <3>3. Fits(t, j)
        BY <2>1, <2>2, <2>4, <2>6, <3>2
      <3>. HIDE DEF Fits
      <3>. QED
        BY <2>3, <3>1, <3>3
    <2>9. \A q \in Runtimes : lock'[q] \in Tasks =>
            /\ task'[lock'[q]] # None
            /\ task'[lock'[q]].at \in Locked
            /\ task'[lock'[q]].rt = q
            /\ owner = q
      <3>1. j # None /\ j.at \in Locked
        BY <2>6, Nothing DEF Locked
      <3>2. \A q \in Runtimes : q # r /\ lock[q] \in Tasks => lock[q] # t
        BY DEF LockInv, Rt
      <3>. QED
        BY <2>1, <2>2, <2>3, <2>4, <3>1, <3>2 DEF LockInv, Rt
    <2>10. \A q \in Runtimes : snap'[q] # None =>
             lock'[q] \in Tasks /\ task'[lock'[q]].at \in Writing
      <3>1. \A q \in Runtimes : q # r /\ lock[q] \in Tasks => lock[q] # t
        BY DEF LockInv, Rt
      <3>. QED
        BY <2>3, <2>4, <2>6, <3>1 DEF LockInv
    <2>. QED
      BY <2>2, <2>8, <2>9, <2>10 DEF LockInv, Rt, Poll, Entry, Here
  <1>5. ASSUME NEW t \in Tasks, EndStep(t)
        PROVE  LockInv'
    <2>. DEFINE r == Rt(t)
    <2>1. PICK j \in Job \cup {None} :
            /\ task' = [task EXCEPT ![t] = j]
            /\ \/ j = None /\ lock' = [lock EXCEPT ![r] = None]
               \/ /\ j # None /\ j.at = "publish" /\ j.rt = r
                  /\ lock' = lock
      BY <1>5, EndsSave, Nothing
    <2>2. /\ task[t] # None /\ task[t].at \in Writing
          /\ r \in Runtimes /\ lock[r] = t /\ owner = r /\ phase[r] = "up"
          /\ snap' = [snap EXCEPT ![r] = None]
          /\ UNCHANGED <<phase, owner>>
          /\ mem' = mem \/ mem' = [mem EXCEPT ![r] = snap[r]]
      BY <1>5, EndsSave DEF runtimeVars
    <2>3. task'[t] = j /\ \A u \in Tasks : u # t => task'[u] = task[u]
      BY <2>1 DEF TypeOK
    <2>4. /\ snap'[r] = None /\ \A q \in Runtimes : q # r => snap'[q] = snap[q]
          /\ lock'[r] \in {t, None} /\ \A q \in Runtimes : q # r => lock'[q] = lock[q]
          /\ \A q \in Runtimes : q # r => mem'[q] = mem[q]
          /\ j # None => lock'[r] = t
          /\ j = None => lock'[r] = None
      BY <2>1, <2>2 DEF TypeOK
    <2>5. \A u \in Tasks : u # t /\ task[u] # None =>
            Rt(u) \in Runtimes /\ (task[u].at \in Locked => Rt(u) # r)
      BY <2>2, JobFields DEF LockInv
    <2>6. j # None => j.at \in Locked /\ j.at \notin Writing
      BY <2>1 DEF Locked, Writing
    <2>. DEFINE Fits(u, k) ==
           /\ phase[k.rt] = "up"
           /\ k.at \in Locked => lock'[k.rt] = u
           /\ k.at \in Writing => snap'[k.rt] # None /\ mem'[k.rt].polls[k.poll] # None
           /\ k.at \in Writing \ {"committing"} => snap'[k.rt] = mem'[k.rt]
           /\ k.at = "committing" =>
                /\ mem'[k.rt].polls[k.poll].ts = k.ts
                /\ snap'[k.rt] = Consumed(mem'[k.rt], k.poll)
    <2>7. \A u \in Tasks : task'[u] # None => Fits(u, task'[u])
      <3>1. ASSUME NEW u \in Tasks, u # t, task[u] # None
            PROVE  Fits(u, task[u])
        <4>1. task[u].at \in Locked =>
                /\ lock'[Rt(u)] = lock[Rt(u)] /\ snap'[Rt(u)] = snap[Rt(u)]
                /\ mem'[Rt(u)] = mem[Rt(u)]
          BY <2>4, <2>5, <3>1
        <4>. QED
          BY <3>1, <4>1 DEF LockInv, Entry, Here, Rt, Poll, Locked, Writing
      <3>2. j # None => j.at # "committing"
        BY <2>6 DEF Writing
      <3>3. j # None => Fits(t, j)
        BY <2>1, <2>2, <2>4, <2>6, <3>2
      <3>. HIDE DEF Fits
      <3>. QED
        BY <2>3, <3>1, <3>3
    <2>8. \A q \in Runtimes : q # r /\ lock[q] \in Tasks => lock[q] # t
      BY DEF LockInv, Rt
    <2>9. \A q \in Runtimes : lock'[q] \in Tasks =>
            /\ task'[lock'[q]] # None
            /\ task'[lock'[q]].at \in Locked
            /\ task'[lock'[q]].rt = q
            /\ owner = q
      BY <2>1, <2>2, <2>3, <2>4, <2>6, <2>8, Nothing DEF LockInv, Rt
    <2>10. \A q \in Runtimes : snap'[q] # None =>
             lock'[q] \in Tasks /\ task'[lock'[q]].at \in Writing
      BY <2>3, <2>4, <2>8 DEF LockInv
    <2>. QED
      BY <2>2, <2>7, <2>9, <2>10 DEF LockInv, Rt, Poll, Entry, Here
  <1>6. CASE Tick \/ UNCHANGED vars
    BY <1>6 DEF Tick, vars, fileVars, runtimeVars, LockInv, Rt, Poll, Entry, Here
  <1>7. CASE Crash
    BY <1>7, Nothing DEF Crash, LockInv
  <1>. QED
    BY <1>1, <1>2, <1>3, <1>4, <1>5, <1>6, <1>7, NextCases

-----------------------------------------------------------------------------
(***************************************************************************)
(* The registries in use                                                   *)
(***************************************************************************)

\* The memory of one runtime can reach the file: that of the owner of the slot.
LEMMA Alone ==
  ASSUME BaseInv, NEW q \in Runtimes, Live(q) \/ snap[q] # None \/ lock[q] \in Tasks
  PROVE  owner = q /\ Live(q)
  <1>1. ASSUME lock[q] \in Tasks
        PROVE  owner = q /\ Live(q)
    BY <1>1 DEF BaseInv, LockInv, Live
  <1>2. snap[q] # None => lock[q] \in Tasks
    BY DEF BaseInv, LockInv
  <1>3. ASSUME Live(q), lock[q] \notin Tasks
        PROVE  owner = q
    BY <1>3 DEF Live, BaseInv, SlotInv
  <1>. QED
    BY <1>1, <1>2, <1>3

\* The registry a task works on is in use when its runtime serves or is locked.
LEMMA HereInUse ==
  ASSUME BaseInv, NEW t \in Tasks, task[t] # None,
         Rt(t) \notin stopping \/ lock[Rt(t)] \in Tasks
  PROVE  InUse(Here(t))
  <1>1. Rt(t) \in Runtimes /\ phase[Rt(t)] = "up"
    BY JobFields DEF BaseInv, LockInv
  <1>. QED
    BY <1>1 DEF InUse, Live, Here

\* The steps that bring no registry into use.
LEMMA QuietRegistries ==
  ASSUME BaseInv,
         \/ \E r \in Runtimes : SlotStep(r)
         \/ \E t \in Tasks : QuietStep(t) \/ Publish(t)
         \/ Tick \/ Crash \/ UNCHANGED vars,
         NEW m \in Registry, InUse(m)'
  PROVE  InUse(m) /\ UNCHANGED <<acked, journal, accepted>>
  <1>1. ASSUME UNCHANGED <<disk, mem, snap, acked, journal, accepted>>,
               \A q \in Runtimes : Live(q)' => Live(q)
        PROVE  InUse(m) /\ UNCHANGED <<acked, journal, accepted>>
    BY <1>1 DEF InUse
  <1>2. ASSUME NEW r \in Runtimes, SlotStep(r)
        PROVE  /\ UNCHANGED <<disk, mem, snap, acked, journal, accepted>>
               /\ \A q \in Runtimes : Live(q)' => Live(q)
    <2>1. /\ UNCHANGED <<disk, mem, snap, acked, journal, accepted>>
          /\ stopping \subseteq stopping'
          /\ \A q \in Runtimes : phase'[q] = "up" => phase[q] = "up"
          /\ \A q \in Runtimes : lock'[q] \in {lock[q], q, None}
      <3>1. CASE EnterSlot(r)
        BY <3>1 DEF EnterSlot, fileVars, historyVars, BaseInv, TypeOK
      <3>2. CASE Stop(r)
        BY <3>2 DEF Stop, Fence, fileVars, historyVars
      <3>3. CASE FencePrevious(r)
        BY <3>3 DEF FencePrevious, Fence, fileVars, historyVars, BaseInv, TypeOK
      <3>4. CASE TakeOver(r)
        BY <3>4 DEF TakeOver, historyVars, BaseInv, TypeOK
      <3>5. CASE LoadFails(r)
        BY <3>5 DEF LoadFails, Fence, LeaveStart, Release, historyVars, BaseInv, TypeOK
      <3>6. CASE CancelStart(r)
        BY <3>6 DEF CancelStart, LeaveStart, Release, historyVars, BaseInv, TypeOK
      <3>. QED
        BY <1>2, <3>1, <3>2, <3>3, <3>4, <3>5, <3>6 DEF SlotStep
    <2>2. ASSUME NEW q \in Runtimes, Live(q)'
          PROVE  Live(q)
      <3>1. lock'[q] \in Tasks => lock[q] \in Tasks
        BY <2>1, Nothing
      <3>. QED
        BY <2>1, <2>2, <3>1 DEF Live
    <2>. QED
      BY <2>1, <2>2
  <1>3. ASSUME NEW t \in Tasks, QuietStep(t)
        PROVE  /\ UNCHANGED <<disk, mem, snap, acked, journal, accepted>>
               /\ \A q \in Runtimes : Live(q)' => Live(q)
    BY <1>3, Quiet DEF fileVars, runtimeVars, historyVars, Live
  <1>4. ASSUME NEW t \in Tasks, Publish(t)
        PROVE  /\ UNCHANGED <<disk, mem, snap, acked, journal, accepted>>
               /\ \A q \in Runtimes : Live(q)' => Live(q)
    <2>1. /\ Rt(t) \in Runtimes /\ lock' = [lock EXCEPT ![Rt(t)] = None]
          /\ UNCHANGED <<disk, mem, snap, phase, stopping, acked, journal, accepted>>
      BY <1>4, Publishes DEF runtimeVars
    <2>2. \A q \in Runtimes : lock'[q] \in Tasks => lock[q] \in Tasks
      BY <2>1, Nothing DEF BaseInv, TypeOK
    <2>. QED
      BY <2>1, <2>2 DEF Live
  <1>5. ASSUME Tick \/ UNCHANGED vars
        PROVE  /\ UNCHANGED <<disk, mem, snap, acked, journal, accepted>>
               /\ \A q \in Runtimes : Live(q)' => Live(q)
    BY <1>5 DEF Tick, vars, fileVars, runtimeVars, historyVars, Live
  <1>6. ASSUME Crash
        PROVE  InUse(m) /\ UNCHANGED <<acked, journal, accepted>>
    <2>1. \A q \in Runtimes : phase'[q] # "up" /\ snap'[q] = None
      BY <1>6 DEF Crash
    <2>2. m = disk'
      BY <2>1 DEF InUse, Live
    <2>. QED
      BY <1>6, <2>2 DEF Crash, InUse, historyVars
  <1>. QED
    BY <1>1, <1>2, <1>3, <1>4, <1>5, <1>6

\* After a load, the file is in use and nothing else.
LEMMA LoadedRegistries ==
  ASSUME BaseInv, NEW r \in Runtimes, Load(r), NEW m \in Registry, InUse(m)'
  PROVE  /\ m = disk /\ journal' = disk.receipts
         /\ UNCHANGED <<acked, accepted, settled, announced, task, registered>>
  <1>1. /\ phase[r] = "load" /\ disk' = disk /\ snap' = snap /\ stopping' = stopping
        /\ mem' = [mem EXCEPT ![r] = disk]
        /\ phase' = [phase EXCEPT ![r] = "up"]
        /\ lock' = [lock EXCEPT ![r] = None]
        /\ journal' = disk.receipts
        /\ UNCHANGED <<acked, accepted, settled, announced, task, registered>>
    BY DEF Load, Found, LeaveStart, Release, envVars
  <1>2. owner = r /\ lock[r] = r
    BY <1>1 DEF BaseInv, SlotInv
  <1>3. \A q \in Runtimes : snap[q] = None
    <2>1. lock[r] \notin Tasks
      BY <1>2, Nothing
    <2>. QED
      BY <1>2, <2>1, Alone DEF BaseInv, LockInv
  <1>4. ASSUME NEW q \in Runtimes, Live(q)'
        PROVE  mem'[q] = disk
    <2>1. CASE q = r
      BY <1>1, <2>1 DEF BaseInv, TypeOK
    <2>2. CASE q # r
      <3>1. phase'[q] = phase[q] /\ lock'[q] = lock[q]
        BY <1>1, <2>2 DEF BaseInv, TypeOK
      <3>2. Live(q)
        BY <1>1, <1>4, <3>1 DEF Live
      <3>. QED
        BY <1>2, <2>2, <3>2, Alone
    <2>. QED
      BY <2>1, <2>2
  <1>. QED
    BY <1>1, <1>3, <1>4 DEF InUse

\* A write that begins brings what is written into use.
LEMMA BegunRegistries ==
  ASSUME BaseInv, NEW t \in Tasks, BeginStep(t),
         NEW n \in Registry, snap' = [snap EXCEPT ![Rt(t)] = n],
         mem' = mem \/ mem' = [mem EXCEPT ![Rt(t)] = n],
         NEW m \in Registry, InUse(m)'
  PROVE  InUse(m) \/ m = n
  <1>. DEFINE r == Rt(t)
  <1>1. /\ r \in Runtimes /\ phase[r] = "up" /\ r \notin stopping
        /\ lock' = [lock EXCEPT ![r] = t]
        /\ UNCHANGED <<disk, phase, stopping>>
    BY BeginsSave DEF runtimeVars
  <1>2. \A q \in Runtimes : q # r =>
          lock'[q] = lock[q] /\ snap'[q] = snap[q] /\ mem'[q] = mem[q]
    BY <1>1 DEF BaseInv, TypeOK
  <1>3. snap'[r] = n /\ mem'[r] \in {mem[r], n}
    BY <1>1 DEF BaseInv, TypeOK
  <1>4. Live(r)
    BY <1>1 DEF Live
  <1>5. ASSUME NEW q \in Runtimes, Live(q)'
        PROVE  Live(q)
    <2>1. q # r => lock'[q] = lock[q]
      BY <1>2
    <2>. QED
      BY <1>1, <1>4, <1>5, <2>1 DEF Live
  <1>6. CASE m = disk'
    BY <1>1, <1>6 DEF InUse
  <1>7. ASSUME NEW q \in Runtimes, Live(q)', m = mem'[q]
        PROVE  InUse(m) \/ m = n
    <2>1. Live(q)
      BY <1>5, <1>7
    <2>2. m = mem[q] \/ m = n
      BY <1>2, <1>3, <1>7
    <2>. QED
      BY <2>1, <2>2 DEF InUse
  <1>8. ASSUME NEW q \in Runtimes, snap'[q] # None, m = snap'[q]
        PROVE  InUse(m) \/ m = n
    BY <1>2, <1>3, <1>8 DEF InUse
  <1>. QED
    BY <1>6, <1>7, <1>8 DEF InUse

\* A write that is acknowledged is what is in use from then on.
LEMMA AcknowledgedRegistries ==
  ASSUME BaseInv, NEW t \in Tasks, EndStep(t),
         disk' = snap[Rt(t)], mem' = [mem EXCEPT ![Rt(t)] = snap[Rt(t)]],
         NEW m \in Registry, InUse(m)'
  PROVE  m = snap[Rt(t)]
  <1>. DEFINE r == Rt(t)
  <1>1. /\ r \in Runtimes /\ owner = r
        /\ snap' = [snap EXCEPT ![r] = None]
        /\ lock' = lock \/ lock' = [lock EXCEPT ![r] = None]
        /\ UNCHANGED <<phase, stopping>>
    BY EndsSave DEF runtimeVars
  <1>2. \A q \in Runtimes : q # r => snap'[q] = None
    <2>1. \A q \in Runtimes : q # r => snap'[q] = snap[q]
      BY <1>1 DEF BaseInv, TypeOK
    <2>. QED
      BY <1>1, <2>1, Alone
  <1>3. snap'[r] = None /\ mem'[r] = snap[r]
    BY <1>1 DEF BaseInv, TypeOK
  <1>4. ASSUME NEW q \in Runtimes, Live(q)'
        PROVE  q = r
    <2>1. lock'[q] \in Tasks => lock[q] \in Tasks
      BY <1>1, Nothing DEF BaseInv, TypeOK
    <2>2. Live(q)
      BY <1>1, <1>4, <2>1 DEF Live
    <2>. QED
      BY <1>1, <2>2, Alone
  <1>. QED
    BY <1>2, <1>3, <1>4 DEF InUse

\* A write that fails brings nothing new into use.
LEMMA FailedRegistries ==
  ASSUME BaseInv, NEW t \in Tasks, EndStep(t),
         disk' \in {disk, snap[Rt(t)]}, mem' = mem,
         NEW m \in Registry, InUse(m)'
  PROVE  InUse(m)
  <1>. DEFINE r == Rt(t)
  <1>1. /\ r \in Runtimes /\ snap[r] \in Registry
        /\ snap' = [snap EXCEPT ![r] = None]
        /\ lock' = lock \/ lock' = [lock EXCEPT ![r] = None]
        /\ UNCHANGED <<phase, stopping>>
    BY EndsSave DEF runtimeVars
  <1>2. \A q \in Runtimes : snap'[q] # None => snap'[q] = snap[q]
    BY <1>1 DEF BaseInv, TypeOK
  <1>3. ASSUME NEW q \in Runtimes, Live(q)'
        PROVE  Live(q)
    <2>1. lock'[q] \in Tasks => lock[q] \in Tasks
      BY <1>1, Nothing DEF BaseInv, TypeOK
    <2>. QED
      BY <1>1, <1>3, <2>1 DEF Live
  <1>4. snap[r] # None
    BY <1>1, Nothing
  <1>. QED
    BY <1>1, <1>2, <1>3, <1>4 DEF InUse

-----------------------------------------------------------------------------
(***************************************************************************)
(* Polls that are untouched, and polls that are over                       *)
(***************************************************************************)

\* The steps that change no task, or end them all.
LEMMA OtherSteps ==
  ASSUME \/ \E r \in Runtimes : SlotStep(r) \/ Load(r)
         \/ Tick \/ Crash \/ UNCHANGED vars
  PROVE  /\ task' = task \/ task' = [t \in Tasks |-> None]
         /\ UNCHANGED <<registered, accepted, acked, settled, announced>>
  BY DEF SlotStep, EnterSlot, Stop, FencePrevious, TakeOver, Load, LoadFails,
     CancelStart, Tick, Crash, vars, fileVars, runtimeVars, historyVars, envVars

\* A poll that is touched stays so.
LEMMA UntouchedLess ==
  ASSUME BaseInv, [Next]_vars, NEW p \in Polls, Untouched(p)'
  PROVE  Untouched(p)
  <1>. USE DEF BaseInv
  <1>1. CASE \/ \E r \in Runtimes : SlotStep(r) \/ Load(r)
             \/ Tick \/ Crash \/ UNCHANGED vars
    <2>1. /\ task' = task \/ task' = [t \in Tasks |-> None]
          /\ registered' = registered
      BY <1>1, OtherSteps
    <2>. QED
      BY <2>1 DEF Untouched, At, Poll
  <1>2. ASSUME NEW t \in Tasks, NEW j \in Job \cup {None},
               task' = [task EXCEPT ![t] = j], registered' = registered,
               j # None => j.at # "register"
        PROVE  Untouched(p)
    <2>1. \A u \in Tasks : task'[u] = task[u] \/ task'[u] = j
      BY <1>2 DEF TypeOK
    <2>. QED
      BY <1>2, <2>1 DEF Untouched, At, Poll
  <1>3. ASSUME NEW t \in Tasks, QuietStep(t)
        PROVE  Untouched(p)
    <2>1. PICK j \in Job \cup {None} :
              /\ task' = [task EXCEPT ![t] = j]
              /\ \/ registered' = registered /\ (j # None => j.at # "register")
                 \/ /\ task[t] = None /\ j # None /\ j.at = "register"
                    /\ j.poll \notin registered
                    /\ registered' = registered \cup {j.poll}
      BY <1>3, Quiet
    <2>2. CASE /\ task[t] = None /\ j # None /\ j.at = "register"
               /\ j.poll \notin registered
               /\ registered' = registered \cup {j.poll}
      <3>1. \A u \in Tasks : task'[u] = task[u] \/ task'[u] = j
        BY <2>1 DEF TypeOK
      <3>. QED
        BY <2>2, <3>1 DEF Untouched, At, Poll
    <2>. QED
      BY <1>2, <2>1, <2>2
  <1>4. ASSUME NEW t \in Tasks, BeginStep(t)
        PROVE  Untouched(p)
    <2>1. PICK j \in Job, m \in Registry :
            task' = [task EXCEPT ![t] = j] /\ Saves(t, j, m)
      BY <1>4, BeginsSave
    <2>2. j.at # "register"
      BY <2>1 DEF Saves
    <2>3. registered' = registered
      BY <1>4, BeginsSave DEF envVars
    <2>. QED
      BY <1>2, <2>1, <2>2, <2>3
  <1>5. ASSUME NEW t \in Tasks, EndStep(t)
        PROVE  Untouched(p)
    <2>1. PICK j \in Job \cup {None} :
            task' = [task EXCEPT ![t] = j] /\ (j # None => j.at = "publish")
      BY <1>5, EndsSave
    <2>2. registered' = registered
      BY <1>5, EndsSave DEF envVars
    <2>. QED
      BY <1>2, <2>1, <2>2
  <1>6. ASSUME NEW t \in Tasks, Publish(t)
        PROVE  Untouched(p)
    <2>1. task' = [task EXCEPT ![t] = None] /\ registered' = registered
      BY <1>6, Publishes DEF envVars
    <2>. QED
      BY <1>2, <2>1
  <1>. QED
    BY <1>1, <1>3, <1>4, <1>5, <1>6, NextCases

\* The settlement of poll p by task t was written.
Settles(t, p) ==
  /\ EndStep(t)
  /\ At(t, "committing")
  /\ Poll(t) = p
  /\ disk' = snap[Rt(t)]
  /\ mem' = [mem EXCEPT ![Rt(t)] = snap[Rt(t)]]
  /\ Acknowledge(snap[Rt(t)])
  /\ journal' = snap[Rt(t)].receipts

\* A poll is over when its settlement was written, and not before.
LEMMA OverLess ==
  ASSUME BaseInv, [Next]_vars, NEW p \in Polls, Over(p)'
  PROVE  Over(p) \/ \E t \in Tasks : Settles(t, p)
  <1>. USE DEF BaseInv
  <1>1. CASE \/ \E r \in Runtimes : SlotStep(r) \/ Load(r)
             \/ Tick \/ Crash \/ UNCHANGED vars
    <2>1. /\ task' = task \/ task' = [t \in Tasks |-> None]
          /\ announced' = announced
      BY <1>1, OtherSteps
    <2>. QED
      BY <2>1 DEF Over, At, Poll
  <1>2. ASSUME NEW t \in Tasks, NEW j \in Job \cup {None},
               task' = [task EXCEPT ![t] = j], announced' = announced,
               j # None => j.at # "publish"
        PROVE  Over(p)
    <2>1. \A u \in Tasks : task'[u] = task[u] \/ task'[u] = j
      BY <1>2 DEF TypeOK
    <2>. QED
      BY <1>2, <2>1 DEF Over, At, Poll
  <1>3. ASSUME NEW t \in Tasks, QuietStep(t)
        PROVE  Over(p)
    <2>1. PICK j \in Job \cup {None} :
            task' = [task EXCEPT ![t] = j] /\ (j # None => j.at \in Waiting)
      BY <1>3, Quiet
    <2>2. announced' = announced
      BY <1>3, Quiet DEF historyVars
    <2>. QED
      BY <1>2, <2>1, <2>2 DEF Waiting
  <1>4. ASSUME NEW t \in Tasks, BeginStep(t)
        PROVE  Over(p)
    <2>1. PICK j \in Job, m \in Registry :
            task' = [task EXCEPT ![t] = j] /\ Saves(t, j, m)
      BY <1>4, BeginsSave
    <2>2. j.at # "publish"
      BY <2>1 DEF Saves
    <2>3. announced' = announced
      BY <1>4, BeginsSave
    <2>. QED
      BY <1>2, <2>1, <2>2, <2>3
  <1>5. ASSUME NEW t \in Tasks, EndStep(t)
        PROVE  Over(p) \/ Settles(t, p)
    <2>1. announced' = announced /\ task[t] # None
      BY <1>5, EndsSave
    <2>2. CASE task' = [task EXCEPT ![t] = None]
      BY <1>2, <2>1, <2>2
    <2>3. CASE task' # [task EXCEPT ![t] = None]
      <3>1. /\ task[t].at = "committing"
            /\ disk' = snap[Rt(t)] /\ Acknowledge(snap[Rt(t)])
            /\ mem' = [mem EXCEPT ![Rt(t)] = snap[Rt(t)]]
            /\ journal' = snap[Rt(t)].receipts
            /\ \E j \in Job : /\ task' = [task EXCEPT ![t] = j]
                             /\ j.poll = Poll(t)
        BY <1>5, <2>3, EndsSave
      <3>2. PICK j \in Job : task' = [task EXCEPT ![t] = j] /\ j.poll = Poll(t)
        BY <3>1
      <3>3. CASE Poll(t) = p
        BY <1>5, <2>1, <3>1, <3>3 DEF Settles, At
      <3>4. CASE Poll(t) # p
        <4>1. \A u \in Tasks : task'[u] = task[u] \/ task'[u] = j
          BY <3>2 DEF TypeOK
        <4>. QED
          BY <2>1, <3>2, <3>4, <4>1 DEF Over, At, Poll
      <3>. QED
        BY <3>3, <3>4
    <2>. QED
      BY <2>2, <2>3
  <1>6. ASSUME NEW t \in Tasks, Publish(t)
        PROVE  Over(p)
    <2>1. /\ task[t] # None /\ task[t].at = "publish"
          /\ task' = [task EXCEPT ![t] = None]
          /\ \/ announced' = announced
             \/ announced' = [announced EXCEPT ![Poll(t)] = @ + 1]
      BY <1>6, Publishes
    <2>2. CASE announced' = announced
      BY <1>2, <2>1, <2>2
    <2>3. CASE announced' # announced
      <3>1. Poll(t) # p => announced'[p] = announced[p]
        BY <2>1, <2>3 DEF TypeOK
      <3>2. \A u \in Tasks : task'[u] = task[u] \/ task'[u] = None
        BY <2>1 DEF TypeOK
      <3>. QED
        BY <2>1, <3>1, <3>2 DEF Over, At, Poll
    <2>. QED
      BY <2>2, <2>3
  <1>. QED
    BY <1>1, <1>3, <1>4, <1>5, <1>6, NextCases
-----------------------------------------------------------------------------
(***************************************************************************)
(* What is in a registry                                                   *)
(***************************************************************************)

\* Receipts are receipts.
LEMMA ReceiptFields ==
  ASSUME NEW s \in Seq(Receipt), NEW i \in DOMAIN s
  PROVE  s[i] \in Receipt /\ s[i].poll \in Polls /\ s[i].ts \in Nat
  <1>1. i \in 1 .. Len(s)
    OBVIOUS
  <1>2. s[i] \in Receipt
    <2>. HIDE DEF Receipt
    <2>. QED
      BY <1>1
  <1>. QED
    BY <1>2, Numbers, ApplicationsAssumption DEF Receipt

\* The vote of a pending poll is a number.
LEMMA PendingFields ==
  ASSUME NEW m \in Registry, NEW p \in Polls, m.polls[p] # None
  PROVE  m.polls[p] \in Pending /\ m.polls[p].ts \in Nat
  BY RegistryFields, Numbers DEF Pending

\* A registry stays as it should be when more votes were accepted, or its own
\* were saved.
LEMMA RegistryKept ==
  ASSUME NEW m \in Registry, RegistryOK(m),
         \A p \in Polls : \/ acked'[p] = acked[p]
                          \/ m.polls[p] # None /\ acked'[p] = m.polls[p].ts,
         IsPrefix(journal', m.receipts),
         accepted \subseteq accepted',
         \A p \in Polls : Untouched(p)' => Untouched(p),
         \A p \in Polls : m.polls[p] # None /\ Over(p)' => Over(p)
  PROVE  RegistryOK(m)'
  <1>1. ReceiptsOK(m)'
    <2>1. \A i \in DOMAIN m.receipts : m.receipts[i].poll \in Polls
      BY RegistryFields, ReceiptFields
    <2>. QED
      BY <2>1 DEF RegistryOK, ReceiptsOK
  <1>2. \A p \in Polls : m.polls[p] # None => m.polls[p].ts \in Nat
    BY PendingFields
  <1>3. ASSUME NEW p \in Polls
        PROVE  PendingOK(m, p)'
    BY <1>2, <1>3 DEF RegistryOK, PendingOK, Backed
  <1>4. ASSUME NEW p \in Polls
        PROVE  SavedOK(m, p)'
    BY <1>2, <1>4 DEF RegistryOK, SavedOK, HasReceipt
  <1>. QED
    BY <1>1, <1>3, <1>4 DEF RegistryOK

\* What a prefix is, element by element.
LEMMA PrefixElements ==
  ASSUME NEW s \in Seq(Receipt), NEW u \in Seq(Receipt)
  PROVE  IsPrefix(s, u) <=> /\ Len(s) <= Len(u)
                            /\ \A i \in 1 .. Len(s) : s[i] = u[i]
  <1>. DEFINE R == Receipt
  <1>. HIDE DEF R
  <1>1. s \in Seq(R) /\ u \in Seq(R)
    BY DEF R
  <1>2. SubSeq(s, 1, Len(s)) = s
    BY <1>1
  <1>3. ASSUME Len(s) <= Len(u)
        PROVE  /\ SubSeq(u, 1, Len(s)) \in Seq(R)
               /\ Len(SubSeq(u, 1, Len(s))) = Len(s)
               /\ \A i \in 1 .. Len(s) : SubSeq(u, 1, Len(s))[i] = u[i]
    BY <1>1, <1>3
  <1>4. ASSUME Len(s) <= Len(u), \A i \in 1 .. Len(s) : s[i] = u[i]
        PROVE  SubSeq(u, 1, Len(s)) = s
    <2>. DEFINE v == SubSeq(u, 1, Len(s))
    <2>1. v \in Seq(R) /\ Len(v) = Len(s) /\ \A i \in 1 .. Len(s) : v[i] = s[i]
      BY <1>3, <1>4
    <2>. HIDE DEF v
    <2>2. v = s
      BY <1>1, <2>1
    <2>. QED
      BY <2>2 DEF v
  <1>5. ASSUME Len(s) <= Len(u), SubSeq(u, 1, Len(s)) = s
        PROVE  \A i \in 1 .. Len(s) : s[i] = u[i]
    BY <1>3, <1>5
  <1>. QED
    BY <1>2, <1>4, <1>5 DEF IsPrefix

\* One more receipt.
LEMMA AppendFields ==
  ASSUME NEW s \in Seq(Receipt), NEW x \in Receipt
  PROVE  /\ Append(s, x) \in Seq(Receipt)
         /\ Len(s) \in Nat /\ Len(Append(s, x)) = Len(s) + 1
         /\ DOMAIN s = 1 .. Len(s) /\ DOMAIN Append(s, x) = 1 .. Len(s) + 1
         /\ \A i \in 1 .. Len(s) : Append(s, x)[i] = s[i]
         /\ Append(s, x)[Len(s) + 1] = x
  <1>. DEFINE R == Receipt
  <1>. HIDE DEF R
  <1>1. s \in Seq(R) /\ x \in R
    BY DEF R
  <1>2. /\ Append(s, x) \in Seq(R)
        /\ Len(s) \in Nat /\ Len(Append(s, x)) = Len(s) + 1
        /\ DOMAIN s = 1 .. Len(s) /\ DOMAIN Append(s, x) = 1 .. Len(s) + 1
        /\ \A i \in 1 .. Len(s) : Append(s, x)[i] = s[i]
        /\ Append(s, x)[Len(s) + 1] = x
    BY <1>1
  <1>. QED
    BY <1>2 DEF R

\* A settlement moves the vote of an application to its receipt.
LEMMA ConsumedOK ==
  ASSUME NEW m \in Registry, NEW p \in Polls, m.polls[p] # None, RegistryOK(m),
         journal \in Seq(Receipt), acked \in [Polls -> Votes]
  PROVE  RegistryOK(Consumed(m, p))
  <1>. DEFINE n == Consumed(m, p)
              x == [poll |-> p, ts |-> m.polls[p].ts]
              s == m.receipts
  <1>1. /\ n \in Registry
        /\ \A q \in Polls : n.polls[q] = IF q = p THEN None ELSE m.polls[q]
        /\ p \notin Applications => n.receipts = s
        /\ p \in Applications => x \in Receipt /\ n.receipts = Append(s, x)
    BY ConsumedFields
  <1>2. s \in Seq(Receipt) /\ m.polls[p].ts \in Nat
    BY RegistryFields, PendingFields
  <1>3. /\ ~Untouched(p) /\ ~Over(p)
        /\ \A i \in DOMAIN s : s[i].poll # p
        /\ acked[p] <= m.polls[p].ts
    BY DEF RegistryOK, PendingOK
  <1>4. x.poll = p /\ x.ts = m.polls[p].ts
    OBVIOUS
  <1>5. p \in Applications =>
          /\ Len(s) \in Nat /\ Len(n.receipts) = Len(s) + 1
          /\ DOMAIN s = 1 .. Len(s) /\ DOMAIN n.receipts = 1 .. Len(s) + 1
          /\ \A i \in 1 .. Len(s) : n.receipts[i] = s[i]
          /\ n.receipts[Len(s) + 1] = x
          /\ n.receipts \in Seq(Receipt)
    <2>. HIDE DEF x, s, n
    <2>. DEFINE a == Append(s, x)
    <2>1. p \in Applications => n.receipts = a
      BY <1>1
    <2>2. ASSUME p \in Applications
          PROVE  /\ Len(s) \in Nat /\ Len(a) = Len(s) + 1
                 /\ DOMAIN s = 1 .. Len(s) /\ DOMAIN a = 1 .. Len(s) + 1
                 /\ \A i \in 1 .. Len(s) : a[i] = s[i]
                 /\ a[Len(s) + 1] = x
                 /\ a \in Seq(Receipt)
      <3>1. x \in Receipt /\ s \in Seq(Receipt)
        BY <1>1, <1>2, <2>2
      <3>. QED
        BY <3>1, AppendFields
    <2>. HIDE DEF a
    <2>. QED
      BY <2>1, <2>2
  <1>6. ReceiptsOK(n)
    <2>1. CASE p \notin Applications
      BY <1>1, <2>1 DEF RegistryOK, ReceiptsOK
    <2>2. CASE p \in Applications
      <3>. HIDE DEF x, n
      <3>1. IsPrefix(journal, s)
        BY DEF RegistryOK, ReceiptsOK
      <3>2. /\ Len(journal) <= Len(s)
            /\ \A i \in 1 .. Len(journal) : journal[i] = s[i]
        BY <1>2, <3>1, PrefixElements
      <3>3. Len(journal) \in Nat
        <4>. DEFINE R == Receipt
        <4>1. journal \in Seq(R)
          OBVIOUS
        <4>. HIDE DEF R
        <4>. QED
          BY <4>1
      <3>. HIDE DEF s
      <3>4. IsPrefix(journal, n.receipts)
        <4>1. Len(journal) <= Len(n.receipts)
          BY <1>5, <2>2, <3>2, <3>3
        <4>2. \A i \in 1 .. Len(journal) : journal[i] = n.receipts[i]
          BY <1>5, <2>2, <3>2, <3>3
        <4>. QED
          BY <1>5, <2>2, <4>1, <4>2, PrefixElements
      <3>5. ASSUME NEW i \in DOMAIN n.receipts
            PROVE  \/ i \in DOMAIN s /\ n.receipts[i] = s[i]
                   \/ i = Len(s) + 1 /\ n.receipts[i] = x
        BY <1>5, <2>2, <3>5
      <3>6. \A i, j \in DOMAIN s : i # j => s[i].poll # s[j].poll
        BY DEF RegistryOK, ReceiptsOK, s
      <3>7. \A i \in DOMAIN s : ~Untouched(s[i].poll)
        BY DEF RegistryOK, ReceiptsOK, s
      <3>8. \A i, j \in DOMAIN n.receipts :
              i # j => n.receipts[i].poll # n.receipts[j].poll
        BY <1>3, <1>4, <3>5, <3>6
      <3>9. \A i \in DOMAIN n.receipts : ~Untouched(n.receipts[i].poll)
        BY <1>3, <1>4, <3>5, <3>7
      <3>. QED
        BY <3>4, <3>8, <3>9 DEF ReceiptsOK
    <2>. QED
      BY <2>1, <2>2
  <1>7. \A i \in DOMAIN n.receipts : (i \in DOMAIN s /\ n.receipts[i] = s[i])
                                     \/ (p \in Applications /\ n.receipts[i] = x)
    <2>. HIDE DEF x, s, n
    <2>. QED
      BY <1>1, <1>5
  <1>8. ASSUME NEW q \in Polls
        PROVE  PendingOK(n, q)
    <2>. SUFFICES ASSUME n.polls[q] # None
                  PROVE  PendingOK(n, q)
      BY DEF PendingOK
    <2>. HIDE DEF x, n
    <2>1. q # p /\ n.polls[q] = m.polls[q]
      BY <1>1
    <2>2. PendingOK(m, q)
      BY DEF RegistryOK
    <2>3. \A i \in DOMAIN n.receipts : n.receipts[i].poll # q
      BY <1>4, <1>7, <2>1, <2>2 DEF PendingOK
    <2>. QED
      BY <2>1, <2>2, <2>3 DEF PendingOK
  <1>9. \A i \in DOMAIN s : i \in DOMAIN n.receipts /\ n.receipts[i] = s[i]
    <2>. HIDE DEF x, s, n
    <2>. QED
      BY <1>1, <1>5
  <1>10. ASSUME NEW q \in Polls
         PROVE  SavedOK(n, q)
    <2>. SUFFICES ASSUME q \in Applications, acked[q] > 0
                  PROVE  (n.polls[q] # None /\ n.polls[q].ts >= acked[q])
                           \/ HasReceipt(n, q, acked[q])
      BY DEF SavedOK
    <2>. HIDE DEF x, s, n
    <2>1. CASE q = p
      <3>1. Len(s) + 1 \in DOMAIN n.receipts /\ n.receipts[Len(s) + 1] = x
        BY <1>5, <2>1
      <3>2. x.ts >= acked[p]
        BY <1>2, <1>3, <1>4, Numbers
      <3>. QED
        BY <1>4, <2>1, <3>1, <3>2 DEF HasReceipt
    <2>2. CASE q # p
      <3>1. (m.polls[q] # None /\ m.polls[q].ts >= acked[q]) \/ HasReceipt(m, q, acked[q])
        BY DEF RegistryOK, SavedOK
      <3>2. HasReceipt(m, q, acked[q]) => HasReceipt(n, q, acked[q])
        BY <1>9 DEF HasReceipt, s
      <3>. QED
        BY <1>1, <2>2, <3>1, <3>2
    <2>. QED
      BY <2>1, <2>2
  <1>. QED
    BY <1>6, <1>8, <1>10 DEF RegistryOK

\* A registry with a new entry, for a poll that is touched and not over, is as it
\* should be when the entry has no older vote than was saved.
LEMMA WithOK ==
  ASSUME NEW h \in Registry, NEW p \in Polls, NEW e \in Pending, RegistryOK(h),
         UNCHANGED <<acked, journal>>, accepted \subseteq accepted',
         acked \in [Polls -> Votes],
         \A q \in Polls : Untouched(q)' => Untouched(q),
         \A q \in Polls : With(h, p, e).polls[q] # None /\ Over(q)' => Over(q),
         ~Untouched(p)', ~Over(p)',
         \A i \in DOMAIN h.receipts : h.receipts[i].poll # p,
         acked[p] <= e.ts,
         e.chosen => Backed(p, e.ts, e.due)'
  PROVE  RegistryOK(With(h, p, e))'
  <1>1. PICK m \in Registry :
          /\ m = With(h, p, e)
          /\ m.receipts = h.receipts
          /\ \A q \in Polls : m.polls[q] = IF q = p THEN e ELSE h.polls[q]
    BY WithFields
  <1>2. \A i \in DOMAIN h.receipts : h.receipts[i].poll \in Polls
    BY RegistryFields, ReceiptFields
  <1>3. ReceiptsOK(m)'
    BY <1>1, <1>2 DEF RegistryOK, ReceiptsOK
  <1>4. e # None
    BY Nothing
  <1>5. ASSUME NEW q \in Polls
        PROVE  PendingOK(m, q)'
    <2>1. CASE q = p
      <3>1. m.polls[q] = e
        BY <1>1, <2>1
      <3>. QED
        BY <1>1, <2>1, <3>1 DEF PendingOK
    <2>2. CASE q # p
      <3>1. m.polls[q] = h.polls[q] /\ m.receipts = h.receipts
        BY <1>1, <2>2
      <3>2. m.polls[q] # None /\ Over(q)' => Over(q)
        BY <1>1
      <3>3. PendingOK(h, q)
        BY DEF RegistryOK
      <3>. QED
        BY <3>1, <3>2, <3>3 DEF PendingOK, Backed
    <2>. QED
      BY <2>1, <2>2
  <1>6. ASSUME NEW q \in Polls
        PROVE  SavedOK(m, q)'
    <2>1. CASE q = p
      <3>1. m.polls[q] = e
        BY <1>1, <2>1
      <3>2. acked[p] \in Nat /\ e.ts \in Nat
        BY Numbers DEF Pending
      <3>. QED
        BY <1>4, <2>1, <3>1, <3>2 DEF SavedOK
    <2>2. CASE q # p
      <3>1. m.polls[q] = h.polls[q] /\ m.receipts = h.receipts
        BY <1>1, <2>2
      <3>. QED
        BY <3>1 DEF RegistryOK, SavedOK, HasReceipt
    <2>. QED
      BY <2>1, <2>2
  <1>7. RegistryOK(m)'
    BY <1>3, <1>5, <1>6 DEF RegistryOK
  <1>. QED
    BY <1>1, <1>7
-----------------------------------------------------------------------------
(***************************************************************************)
(* The registries in use stay as they should be                            *)
(***************************************************************************)

\* The registry a task of a runtime that serves works on is as it should be, and
\* so is what it writes.
LEMMA HereOK ==
  ASSUME BaseInv, DataInv, NEW t \in Tasks, task[t] # None
  PROVE  /\ Rt(t) \notin stopping \/ lock[Rt(t)] \in Tasks => RegistryOK(Here(t))
         /\ snap[Rt(t)] # None => snap[Rt(t)] \in Registry /\ RegistryOK(snap[Rt(t)])
  <1>1. Here(t) \in Registry /\ Rt(t) \in Runtimes
    BY JobFields DEF BaseInv
  <1>2. snap[Rt(t)] # None => snap[Rt(t)] \in Registry /\ InUse(snap[Rt(t)])
    BY <1>1 DEF BaseInv, TypeOK, InUse
  <1>. QED
    BY <1>1, <1>2, HereInUse DEF DataInv

\* The poll whose settlement was written is not in what was written.
LEMMA SettledAway ==
  ASSUME BaseInv, NEW t \in Tasks, NEW p \in Polls, Settles(t, p)
  PROVE  /\ snap[Rt(t)] = Consumed(Here(t), p) /\ Entry(t) \in Pending
         /\ Here(t) \in Registry /\ Here(t).polls[p] = Entry(t)
         /\ Entry(t).ts = task[t].ts
         /\ \A q \in Polls : snap[Rt(t)].polls[q] = IF q = p THEN None
                                                    ELSE Here(t).polls[q]
  <1>1. /\ task[t] # None /\ task[t].at = "committing" /\ Poll(t) = p /\ EndStep(t)
    BY DEF Settles, At
  <1>2. Here(t) \in Registry /\ Entry(t) \in Pending
    BY <1>1, EndsSave
  <1>3. snap[Rt(t)] = Consumed(Here(t), p) /\ Entry(t).ts = task[t].ts
    BY <1>1 DEF BaseInv, LockInv
  <1>4. Here(t).polls[p] = Entry(t) /\ Here(t).polls[p] # None
    BY <1>1, <1>2, Nothing DEF Entry
  <1>5. \A q \in Polls : Consumed(Here(t), p).polls[q] = IF q = p THEN None
                                                        ELSE Here(t).polls[q]
    BY <1>2, <1>4, ConsumedFields
  <1>. QED
    BY <1>2, <1>3, <1>4, <1>5

\* A poll in a registry in use was not settled by this step.
LEMMA OverKept ==
  ASSUME BaseInv, [Next]_vars, NEW m \in Registry, InUse(m)',
         NEW p \in Polls, m.polls[p] # None, Over(p)'
  PROVE  Over(p)
  <1>1. ASSUME NEW t \in Tasks, Settles(t, p)
        PROVE  FALSE
    <2>1. m = snap[Rt(t)]
      BY <1>1, AcknowledgedRegistries DEF Settles
    <2>. QED
      BY <1>1, <2>1, SettledAway
  <1>. QED
    BY <1>1, OverLess

\* Every step keeps the registries in use as they should be.
LEMMA DataKept ==
  ASSUME BaseInv, DataInv, UntouchedInv, [Next]_vars
  PROVE  DataInv'
  <1>. SUFFICES ASSUME NEW m \in Registry, InUse(m)'
                PROVE  RegistryOK(m)'
    BY DEF DataInv
  <1>1. \A p \in Polls : Untouched(p)' => Untouched(p)
    BY UntouchedLess
  <1>2. \A p \in Polls : m.polls[p] # None /\ Over(p)' => Over(p)
    BY OverKept
  <1>3. ASSUME RegistryOK(m), UNCHANGED <<acked, journal>>, accepted \subseteq accepted'
        PROVE  RegistryOK(m)'
    <2>1. IsPrefix(journal', m.receipts)
      BY <1>3 DEF RegistryOK, ReceiptsOK
    <2>. QED
      BY <1>1, <1>2, <1>3, <2>1, RegistryKept
  <1>4. CASE \/ \E r \in Runtimes : SlotStep(r)
             \/ \E t \in Tasks : QuietStep(t) \/ Publish(t)
             \/ Tick \/ Crash \/ UNCHANGED vars
    <2>1. InUse(m) /\ UNCHANGED <<acked, journal, accepted>>
      BY <1>4, QuietRegistries
    <2>. QED
      BY <1>3, <2>1 DEF DataInv
  <1>5. ASSUME NEW r \in Runtimes, Load(r)
        PROVE  RegistryOK(m)'
    <2>1. m = disk /\ journal' = m.receipts /\ UNCHANGED <<acked, accepted>>
      BY <1>5, LoadedRegistries
    <2>2. RegistryOK(m)
      BY <2>1 DEF DataInv, InUse
    <2>3. IsPrefix(m.receipts, m.receipts)
      BY PrefixElements, RegistryFields, AppendFields
    <2>. QED
      BY <1>1, <1>2, <2>1, <2>2, <2>3, RegistryKept
  <1>6. ASSUME NEW t \in Tasks, BeginStep(t)
        PROVE  RegistryOK(m)'
    <2>1. PICK j \in Job, n \in Registry :
            /\ task' = [task EXCEPT ![t] = j]
            /\ j.rt = Rt(t) /\ j.poll = Poll(t)
            /\ snap' = [snap EXCEPT ![Rt(t)] = n]
            /\ Saves(t, j, n)
      BY <1>6, BeginsSave
    <2>2. /\ task[t] # None /\ Rt(t) \in Runtimes /\ Poll(t) \in Polls
          /\ Here(t) \in Registry /\ Rt(t) \notin stopping
          /\ UNCHANGED <<acked, journal, announced, registered>>
      BY <1>6, BeginsSave DEF envVars
    <2>3. accepted \subseteq accepted'
      BY <2>1 DEF Saves
    <2>4. CASE InUse(m)
      BY <1>3, <2>2, <2>3, <2>4 DEF DataInv
    <2>5. CASE m = n
      <3>1. PICK h \in Registry, p \in Polls : h = Here(t) /\ p = Poll(t)
        BY <2>2
      <3>2. RegistryOK(h)
        BY <2>2, <3>1, HereOK
      <3>3. Entry(t) = h.polls[p]
        BY <3>1 DEF Entry
      <3>4. acked \in [Polls -> Votes] /\ journal \in Seq(Receipt)
        BY DEF BaseInv, TypeOK
      <3>5. CASE At(t, "register") /\ m = With(h, p, Unvoted)
        <4>1. Unvoted \in Pending /\ Unvoted.ts = 0 /\ ~Unvoted.chosen
          BY Numbers DEF Unvoted, Pending
        <4>2. Untouched(p)
          BY <3>1, <3>5 DEF Untouched
        <4>3. /\ ~Over(p) /\ acked[p] = 0 /\ p \in registered
              /\ \A u \in Tasks : At(u, "register") /\ u # t => Poll(u) # p
          BY <2>2, <3>1, <3>5, <4>2 DEF UntouchedInv
        <4>4. ~Over(p)'
          <5>1. With(h, p, Unvoted).polls[p] = Unvoted
            BY <2>2, <4>1, WithFields
          <5>2. m.polls[p] # None
            BY <3>5, <4>1, <5>1, Nothing
          <5>. QED
            BY <1>2, <2>2, <4>3, <5>2
        <4>5. ~Untouched(p)'
          <5>1. j.at # "register"
            BY <2>1 DEF Saves
          <5>2. task'[t] = j /\ \A u \in Tasks : u # t => task'[u] = task[u]
            BY <2>1 DEF BaseInv, TypeOK
          <5>3. \A u \in Tasks : ~(At(u, "register") /\ Poll(u) = p)'
            BY <4>3, <5>1, <5>2 DEF At, Poll
          <5>. QED
            BY <2>2, <4>3, <5>3 DEF Untouched
        <4>6. \A i \in DOMAIN h.receipts : h.receipts[i].poll # p
          BY <3>2, <4>2 DEF RegistryOK, ReceiptsOK
        <4>7. acked[p] <= Unvoted.ts
          BY <4>1, <4>3
        <4>8. \A q \in Polls : With(h, p, Unvoted).polls[q] # None /\ Over(q)' => Over(q)
          BY <1>2, <3>5
        <4>9. RegistryOK(With(h, p, Unvoted))'
          BY <1>1, <2>2, <2>3, <3>2, <3>4, <4>1, <4>4, <4>5, <4>6, <4>7, <4>8,
             WithOK
        <4>. QED
          BY <3>5, <4>9
      <3>6. CASE At(t, "vote")
        <4>. DEFINE a == [rt |-> Rt(t), poll |-> Poll(t), ts |-> j.ts, at |-> now]
        <4>a. PICK e \in Pending :
                /\ m = With(h, p, e)
                /\ e.ts = j.ts
                /\ e.chosen => e.due = now + SettleTime
          BY <2>1, <2>5, <3>1, <3>6 DEF Saves, At
        <4>b. Entry(t) # None /\ j.ts > Entry(t).ts /\ a \in accepted'
          BY <2>1, <3>6 DEF Saves, At
        <4>1. PendingOK(h, p) /\ h.polls[p] # None
          BY <2>2, <3>2, <3>3, <4>a, <4>b DEF RegistryOK
        <4>2. /\ ~Untouched(p) /\ ~Over(p) /\ acked[p] <= h.polls[p].ts
              /\ \A i \in DOMAIN h.receipts : h.receipts[i].poll # p
          BY <4>1 DEF PendingOK
        <4>3. ~Untouched(p)'
          BY <1>1, <2>2, <4>2
        <4>4. ~Over(p)'
          <5>1. With(h, p, e).polls[p] = e
            BY <2>2, WithFields
          <5>2. m.polls[p] # None
            BY <4>a, <4>b, <5>1, Nothing
          <5>. QED
            BY <1>2, <2>2, <4>2, <5>2
        <4>5. acked[p] <= e.ts
          <5>1. acked[p] \in Nat /\ h.polls[p].ts \in Nat /\ e.ts \in Nat
            BY <2>2, <3>4, <4>1, PendingFields, Numbers DEF Pending
          <5>2. e.ts > h.polls[p].ts
            BY <3>3, <4>a, <4>b
          <5>. QED
            BY <4>2, <5>1, <5>2
        <4>6. e.chosen => Backed(p, e.ts, e.due)'
          <5>1. HAVE e.chosen
          <5>2. a.poll = p /\ a.ts = e.ts /\ a.at + SettleTime = e.due
            BY <3>1, <4>a, <4>b, <5>1
          <5>3. a \in accepted'
            BY <4>a, <4>b
          <5>4. e.due \in Nat
            BY Numbers DEF Pending
          <5>. HIDE DEF a
          <5>5. a.at + SettleTime <= e.due
            BY <5>2, <5>4
          <5>. QED
            BY <5>2, <5>3, <5>5 DEF Backed
        <4>7. \A q \in Polls : With(h, p, e).polls[q] # None /\ Over(q)' => Over(q)
          BY <1>2, <4>a, <4>b
        <4>8. RegistryOK(With(h, p, e))'
          BY <1>1, <2>2, <2>3, <3>2, <3>4, <4>2, <4>3, <4>4, <4>5, <4>6, <4>7,
             WithOK
        <4>. QED
          BY <4>a, <4>b, <4>8
      <3>7. CASE m = Here(t)
        BY <1>3, <2>2, <2>3, <3>1, <3>2, <3>7
      <3>8. CASE m = Consumed(Here(t), p) /\ Entry(t) # None
        <4>1. RegistryOK(m)
          BY <3>1, <3>2, <3>3, <3>4, <3>8, ConsumedOK
        <4>. QED
          BY <1>3, <2>2, <2>3, <4>1
      <3>9. \/ At(t, "register") /\ m = With(h, p, Unvoted)
            \/ At(t, "vote")
            \/ m = Here(t)
            \/ m = Consumed(Here(t), p) /\ Entry(t) # None
        BY <2>1, <2>2, <2>5, <3>1 DEF Saves, At
      <3>. QED
        BY <3>5, <3>6, <3>7, <3>8, <3>9
    <2>6. mem' = mem \/ mem' = [mem EXCEPT ![Rt(t)] = n]
      BY <2>1 DEF Saves
    <2>7. InUse(m) \/ m = n
      BY <1>6, <2>1, <2>6, BegunRegistries
    <2>. QED
      BY <2>4, <2>5, <2>7
  <1>7. ASSUME NEW t \in Tasks, EndStep(t)
        PROVE  RegistryOK(m)'
    <2>. DEFINE r == Rt(t)
                s == snap[r]
    <2>1. /\ s \in Registry /\ task[t] # None /\ accepted' = accepted
          /\ \/ /\ disk' = s /\ Acknowledge(s)
                /\ mem' = [mem EXCEPT ![r] = s]
                /\ journal' = journal \/ journal' = s.receipts
             \/ /\ disk' \in {disk, s}
                /\ UNCHANGED <<mem, acked, journal>>
      BY <1>7, EndsSave
    <2>2. RegistryOK(s)
      BY <2>1, Nothing, HereOK
    <2>3. CASE /\ disk' \in {disk, s}
               /\ UNCHANGED <<mem, acked, journal>>
      <3>1. InUse(m)
        BY <1>7, <2>3, FailedRegistries
      <3>. QED
        BY <1>3, <2>1, <2>3, <3>1 DEF DataInv
    <2>4. CASE /\ disk' = s /\ Acknowledge(s)
               /\ mem' = [mem EXCEPT ![r] = s]
               /\ journal' = journal \/ journal' = s.receipts
      <3>1. m = s
        BY <1>7, <2>4, AcknowledgedRegistries
      <3>2. \A p \in Polls : \/ acked'[p] = acked[p]
                             \/ m.polls[p] # None /\ acked'[p] = m.polls[p].ts
        <4>1. ASSUME NEW p \in Polls, m.polls[p] # None
              PROVE  acked'[p] = m.polls[p].ts
          <5>1. acked[p] <= m.polls[p].ts
            BY <2>2, <3>1, <4>1 DEF RegistryOK, PendingOK
          <5>2. acked[p] \in Nat /\ m.polls[p].ts \in Nat
            BY <4>1, PendingFields, Numbers DEF BaseInv, TypeOK
          <5>3. acked'[p] = Larger(acked[p], m.polls[p].ts)
            BY <2>4, <3>1, <4>1 DEF Acknowledge
          <5>. QED
            BY <5>1, <5>2, <5>3 DEF Larger
        <4>2. ASSUME NEW p \in Polls, m.polls[p] = None
              PROVE  acked'[p] = acked[p]
          BY <2>4, <3>1, <4>2 DEF Acknowledge
        <4>. QED
          BY <4>1, <4>2
      <3>3. IsPrefix(journal', m.receipts)
        <4>1. IsPrefix(m.receipts, m.receipts)
          BY PrefixElements, RegistryFields, AppendFields
        <4>. QED
          BY <2>2, <2>4, <3>1, <4>1 DEF RegistryOK, ReceiptsOK
      <3>. QED
        BY <1>1, <1>2, <2>1, <2>2, <3>1, <3>2, <3>3, RegistryKept
    <2>. QED
      BY <2>1, <2>3, <2>4
  <1>. QED
    BY <1>4, <1>5, <1>6, <1>7, NextCases

-----------------------------------------------------------------------------
(***************************************************************************)
(* The histories                                                           *)
(***************************************************************************)

\* A vote is accepted for a poll that waits in the memory of its runtime.
LEMMA NewVotes ==
  ASSUME BaseInv, [Next]_vars, NEW a \in accepted'
  PROVE  \/ a \in accepted
         \/ \E t \in Tasks : /\ BeginStep(t) /\ task[t] # None
                             /\ Rt(t) \in Runtimes /\ Poll(t) \in Polls
                             /\ Rt(t) \notin stopping /\ Entry(t) # None
                             /\ a.rt = Rt(t) /\ a.poll = Poll(t)
  <1>1. CASE \/ \E r \in Runtimes : SlotStep(r) \/ Load(r)
             \/ Tick \/ Crash \/ UNCHANGED vars
    BY <1>1, OtherSteps
  <1>2. ASSUME NEW t \in Tasks, QuietStep(t) \/ EndStep(t) \/ Publish(t)
        PROVE  a \in accepted
    BY <1>2, Quiet, EndsSave, Publishes DEF historyVars
  <1>3. ASSUME NEW t \in Tasks, BeginStep(t)
        PROVE  \/ a \in accepted
               \/ /\ task[t] # None
                  /\ Rt(t) \in Runtimes /\ Poll(t) \in Polls
                  /\ Rt(t) \notin stopping /\ Entry(t) # None
                  /\ a.rt = Rt(t) /\ a.poll = Poll(t)
    <2>1. PICK j \in Job, m \in Registry : Saves(t, j, m)
      BY <1>3, BeginsSave
    <2>2. \/ accepted' = accepted
          \/ /\ Entry(t) # None
             /\ accepted' = accepted \cup
                  {[rt |-> Rt(t), poll |-> Poll(t), ts |-> j.ts, at |-> now]}
      BY <2>1 DEF Saves
    <2>. QED
      BY <1>3, <2>2, BeginsSave
  <1>. QED
    BY <1>1, <1>2, <1>3, NextCases

\* A vote is known to be saved when a registry in use that has the poll is
\* acknowledged.
LEMMA NewAcks ==
  ASSUME BaseInv, DataInv, [Next]_vars, NEW p \in Polls, acked'[p] # acked[p]
  PROVE  ~Untouched(p) /\ ~Over(p) /\ ~Over(p)'
  <1>1. CASE \/ \E r \in Runtimes : SlotStep(r) \/ Load(r)
             \/ Tick \/ Crash \/ UNCHANGED vars
    BY <1>1, OtherSteps
  <1>2. ASSUME NEW t \in Tasks, QuietStep(t) \/ BeginStep(t) \/ Publish(t)
        PROVE  FALSE
    BY <1>2, Quiet, BeginsSave, Publishes DEF historyVars
  <1>3. ASSUME NEW t \in Tasks, EndStep(t)
        PROVE  ~Untouched(p) /\ ~Over(p) /\ ~Over(p)'
    <2>. DEFINE s == snap[Rt(t)]
    <2>1. /\ s \in Registry /\ task[t] # None /\ Acknowledge(s) /\ disk' = s
      BY <1>3, EndsSave
    <2>2. s.polls[p] # None
      BY <2>1 DEF Acknowledge
    <2>3. PendingOK(s, p)
      BY <2>1, Nothing, HereOK DEF RegistryOK
    <2>4. ~Untouched(p) /\ ~Over(p)
      BY <2>2, <2>3 DEF PendingOK
    <2>5. PICK m \in Registry : m = s
      BY <2>1
    <2>6. InUse(m)'
      BY <2>1, <2>5 DEF InUse
    <2>. QED
      BY <2>2, <2>4, <2>5, <2>6, OverKept
  <1>. QED
    BY <1>1, <1>2, <1>3, NextCases

\* The entry of a task is of a poll that is touched, and not over.
LEMMA EntryOK ==
  ASSUME BaseInv, DataInv, NEW t \in Tasks, task[t] # None, Entry(t) # None,
         Rt(t) \notin stopping \/ lock[Rt(t)] \in Tasks
  PROVE  /\ ~Untouched(Poll(t)) /\ ~Over(Poll(t))
         /\ acked[Poll(t)] <= Entry(t).ts
         /\ Entry(t).chosen => Backed(Poll(t), Entry(t).ts, Entry(t).due)
  <1>1. PendingOK(Here(t), Poll(t))
    BY HereOK, JobFields DEF BaseInv, RegistryOK
  <1>. QED
    BY <1>1 DEF PendingOK, Entry

\* Nothing comes of a poll before it is given to a registry.
LEMMA UntouchedKept ==
  ASSUME BaseInv, DataInv, UntouchedInv, [Next]_vars
  PROVE  UntouchedInv'
  <1>1. ASSUME NEW p \in Polls, Untouched(p)'
        PROVE  /\ ~Over(p)' /\ acked'[p] = 0
               /\ \A a \in accepted' : a.poll # p
    <2>1. /\ Untouched(p) /\ ~Over(p) /\ acked[p] = 0
          /\ \A a \in accepted : a.poll # p
      BY <1>1, UntouchedLess DEF UntouchedInv
    <2>2. acked'[p] = 0
      BY <2>1, NewAcks
    <2>3. ASSUME NEW t \in Tasks, Settles(t, p)
          PROVE  FALSE
      <3>1. Entry(t) # None /\ task[t] # None /\ Poll(t) = p
        BY <2>3, SettledAway, Nothing DEF Settles, At
      <3>2. lock[Rt(t)] \in Tasks
        BY <2>3, EndsSave DEF Settles
      <3>. QED
        BY <2>1, <3>1, <3>2, EntryOK
    <2>4. ~Over(p)'
      BY <2>1, <2>3, OverLess
    <2>5. ASSUME NEW a \in accepted'
          PROVE  a.poll # p
      BY <2>1, <2>5, NewVotes, EntryOK
    <2>. QED
      BY <2>2, <2>4, <2>5
  <1>2. /\ \A t, u \in Tasks :
             At(t, "register")' /\ At(u, "register")' /\ t # u => Poll(t)' # Poll(u)'
        /\ \A t \in Tasks : At(t, "register")' => Poll(t)' \in registered'
    <2>1. CASE \/ \E r \in Runtimes : SlotStep(r) \/ Load(r)
               \/ Tick \/ Crash \/ UNCHANGED vars
      <3>1. /\ task' = task \/ task' = [t \in Tasks |-> None]
            /\ registered' = registered
        BY <2>1, OtherSteps
      <3>. QED
        BY <3>1 DEF UntouchedInv, At, Poll
    <2>2. ASSUME NEW t \in Tasks, NEW j \in Job \cup {None},
                 task' = [task EXCEPT ![t] = j],
                 \/ registered' = registered /\ (j # None => j.at # "register")
                 \/ j.poll \notin registered /\ registered' = registered \cup {j.poll}
          PROVE  /\ \A k, u \in Tasks : At(k, "register")' /\ At(u, "register")' /\ k # u
                                          => Poll(k)' # Poll(u)'
                 /\ \A u \in Tasks : At(u, "register")' => Poll(u)' \in registered'
      <3>1. task'[t] = j /\ \A u \in Tasks : u # t => task'[u] = task[u]
        BY <2>2 DEF BaseInv, TypeOK
      <3>. QED
        BY <2>2, <3>1 DEF UntouchedInv, At, Poll
    <2>3. ASSUME NEW t \in Tasks, QuietStep(t) \/ BeginStep(t) \/ EndStep(t) \/ Publish(t)
          PROVE  \E j \in Job \cup {None} :
                   /\ task' = [task EXCEPT ![t] = j]
                   /\ \/ registered' = registered /\ (j # None => j.at # "register")
                      \/ j.poll \notin registered /\ registered' = registered \cup {j.poll}
      <3>1. CASE QuietStep(t)
        BY <3>1, Quiet
      <3>2. CASE BeginStep(t)
        <4>1. PICK j \in Job, m \in Registry :
                task' = [task EXCEPT ![t] = j] /\ Saves(t, j, m)
          BY <3>2, BeginsSave
        <4>2. j.at # "register"
          BY <4>1 DEF Saves
        <4>. QED
          BY <3>2, <4>1, <4>2, BeginsSave DEF envVars
      <3>3. CASE EndStep(t)
        <4>1. PICK j \in Job \cup {None} :
                task' = [task EXCEPT ![t] = j] /\ (j # None => j.at = "publish")
          BY <3>3, EndsSave
        <4>2. registered' = registered
          BY <3>3, EndsSave DEF envVars
        <4>. QED
          BY <4>1, <4>2
      <3>4. CASE Publish(t)
        BY <3>4, Publishes DEF envVars
      <3>. QED
        BY <2>3, <3>1, <3>2, <3>3, <3>4
    <2>. QED
      BY <2>1, <2>2, <2>3, NextCases
  <1>. QED
    BY <1>1, <1>2 DEF UntouchedInv

\* The newest vote stays in memory until its poll is settled.
LEMMA AcceptedKept ==
  ASSUME BaseInv, DataInv, UntouchedInv, AcceptedInv, [Next]_vars
  PROVE  AcceptedInv'
  <1>. USE DEF BaseInv
  <1>1. \A a \in accepted : /\ a.rt \in Runtimes /\ a.poll \in Polls /\ a.ts \in Nat
                            /\ phase[a.rt] \in {"up", "gone"}
    BY Numbers DEF TypeOK, AcceptedInv
  <1>2. ASSUME accepted' = accepted,
               \A r \in Runtimes :
                 phase[r] \in {"up", "gone"} => phase'[r] \in {"up", "gone"},
               \A r \in Runtimes, p \in Polls : phase[r] \in {"up", "gone"} =>
                 mem'[r].polls[p] \in {mem[r].polls[p], None}
        PROVE  AcceptedInv'
    <2>. SUFFICES ASSUME NEW a \in accepted
                  PROVE  /\ phase'[a.rt] \in {"up", "gone"}
                         /\ mem'[a.rt].polls[a.poll] # None =>
                              a.ts <= mem'[a.rt].polls[a.poll].ts
      BY <1>2 DEF AcceptedInv
    <2>1. mem'[a.rt].polls[a.poll] \in {mem[a.rt].polls[a.poll], None}
      BY <1>1, <1>2
    <2>. QED
      BY <1>1, <1>2, <2>1 DEF AcceptedInv
  <1>3. ASSUME NEW r \in Runtimes, SlotStep(r)
        PROVE  AcceptedInv'
    <2>1. accepted' = accepted /\ mem' = mem
      BY <1>3 DEF SlotStep, EnterSlot, Stop, FencePrevious, TakeOver, LoadFails,
         CancelStart, fileVars, historyVars
    <2>2. \A q \in Runtimes :
            phase[q] \in {"up", "gone"} => phase'[q] \in {"up", "gone"}
      BY <1>3 DEF SlotStep, EnterSlot, Stop, FencePrevious, TakeOver, LoadFails,
         CancelStart, LeaveStart, TypeOK
    <2>. QED
      BY <1>2, <2>1, <2>2
  <1>4. ASSUME NEW r \in Runtimes, Load(r)
        PROVE  AcceptedInv'
    <2>1. /\ phase[r] = "load" /\ accepted' = accepted
          /\ phase' = [phase EXCEPT ![r] = "up"]
          /\ \A q \in Runtimes : q # r => mem'[q] = mem[q]
      BY <1>4 DEF Load, LeaveStart, TypeOK
    <2>. QED
      BY <1>2, <2>1 DEF TypeOK
  <1>5. ASSUME NEW t \in Tasks, QuietStep(t)
        PROVE  AcceptedInv'
    BY <1>2, <1>5, Quiet DEF fileVars, runtimeVars, historyVars
  <1>6. ASSUME NEW t \in Tasks, Publish(t)
        PROVE  AcceptedInv'
    BY <1>2, <1>6, Publishes DEF runtimeVars
  <1>7. ASSUME NEW t \in Tasks, BeginStep(t)
        PROVE  AcceptedInv'
    <2>1. PICK j \in Job, m \in Registry :
            j.rt = Rt(t) /\ j.poll = Poll(t) /\ Saves(t, j, m)
      BY <1>7, BeginsSave
    <2>2. /\ task[t] # None /\ Rt(t) \in Runtimes /\ Poll(t) \in Polls
          /\ Here(t) \in Registry
          /\ phase[Rt(t)] = "up" /\ Rt(t) \notin stopping /\ phase' = phase
      BY <1>7, BeginsSave DEF runtimeVars
    <2>3. CASE mem' = mem /\ accepted' = accepted
      BY <1>2, <2>2, <2>3
    <2>4. CASE At(t, "register")
      <3>1. /\ mem' = [mem EXCEPT ![Rt(t)] = m] /\ accepted' = accepted
            /\ m = With(Here(t), Poll(t), Unvoted)
        BY <2>1, <2>4 DEF Saves, At
      <3>2. Unvoted \in Pending
        BY Numbers DEF Unvoted, Pending
      <3>3. \A q \in Polls : q # Poll(t) => m.polls[q] = Here(t).polls[q]
        BY <2>2, <3>1, <3>2, WithFields
      <3>4. \A a \in accepted : a.poll # Poll(t)
        BY <2>2, <2>4 DEF UntouchedInv, Untouched
      <3>5. \A a \in accepted : mem'[a.rt].polls[a.poll] = mem[a.rt].polls[a.poll]
        BY <1>1, <2>2, <3>1, <3>3, <3>4 DEF Here, TypeOK
      <3>. QED
        BY <2>2, <3>1, <3>5 DEF AcceptedInv
    <2>5. CASE At(t, "vote")
      <3>1. /\ mem' = [mem EXCEPT ![Rt(t)] = m]
            /\ Entry(t) # None /\ j.ts > Entry(t).ts
            /\ accepted' = accepted \cup
                 {[rt |-> Rt(t), poll |-> Poll(t), ts |-> j.ts, at |-> now]}
        BY <2>1, <2>5 DEF Saves, At
      <3>2. PICK e \in Pending : m = With(Here(t), Poll(t), e) /\ e.ts = j.ts
        BY <2>1, <2>5 DEF Saves, At
      <3>3. \A q \in Polls : m.polls[q] = IF q = Poll(t) THEN e ELSE Here(t).polls[q]
        BY <2>2, <3>2, WithFields
      <3>4. mem'[Rt(t)] = m /\ \A q \in Runtimes : q # Rt(t) => mem'[q] = mem[q]
        BY <2>2, <3>1 DEF TypeOK
      <3>5. e.ts \in Nat /\ Entry(t).ts \in Nat
        BY <2>2, <3>1, Numbers, PendingFields DEF Pending, Entry
      <3>6. ASSUME NEW a \in accepted
            PROVE  /\ phase'[a.rt] \in {"up", "gone"}
                   /\ mem'[a.rt].polls[a.poll] # None =>
                        a.ts <= mem'[a.rt].polls[a.poll].ts
        <4>1. CASE a.rt = Rt(t) /\ a.poll = Poll(t)
          <5>1. a.ts <= Entry(t).ts
            BY <3>1, <4>1 DEF AcceptedInv, Entry, Here
          <5>2. a.ts <= e.ts
            BY <1>1, <3>1, <3>2, <3>5, <5>1
          <5>. QED
            BY <1>1, <2>2, <3>3, <3>4, <4>1, <5>2
        <4>2. CASE ~(a.rt = Rt(t) /\ a.poll = Poll(t))
          <5>1. mem'[a.rt].polls[a.poll] = mem[a.rt].polls[a.poll]
            BY <1>1, <3>3, <3>4, <4>2 DEF Here
          <5>. QED
            BY <1>1, <2>2, <5>1 DEF AcceptedInv
        <4>. QED
          BY <4>1, <4>2
      <3>. DEFINE b == [rt |-> Rt(t), poll |-> Poll(t), ts |-> j.ts, at |-> now]
      <3>7. /\ phase'[b.rt] \in {"up", "gone"}
            /\ mem'[b.rt].polls[b.poll] # None => b.ts <= mem'[b.rt].polls[b.poll].ts
        BY <2>2, <3>2, <3>3, <3>4, <3>5
      <3>8. accepted' = accepted \cup {b}
        BY <3>1
      <3>. HIDE DEF b
      <3>. QED
        BY <3>6, <3>7, <3>8 DEF AcceptedInv
    <2>6. At(t, "register") \/ At(t, "vote") \/ (mem' = mem /\ accepted' = accepted)
      BY <2>1, <2>2 DEF Saves, At
    <2>. QED
      BY <2>3, <2>4, <2>5, <2>6
  <1>8. ASSUME NEW t \in Tasks, EndStep(t)
        PROVE  AcceptedInv'
    <2>. DEFINE s == snap[Rt(t)]
    <2>1. /\ task[t] # None /\ task[t].at \in Writing
          /\ Rt(t) \in Runtimes /\ Poll(t) \in Polls
          /\ Here(t) \in Registry /\ Entry(t) \in Pending
          /\ phase' = phase /\ accepted' = accepted
          /\ mem' = mem \/ mem' = [mem EXCEPT ![Rt(t)] = s]
      BY <1>8, EndsSave DEF runtimeVars
    <2>2. s = Here(t) \/ s = Consumed(Here(t), Poll(t))
      BY <2>1 DEF LockInv
    <2>3. \A q \in Polls : s.polls[q] \in {Here(t).polls[q], None}
      <3>1. Here(t).polls[Poll(t)] # None
        BY <2>1, Nothing DEF Entry
      <3>2. \A q \in Polls : Consumed(Here(t), Poll(t)).polls[q] \in {Here(t).polls[q], None}
        BY <2>1, <3>1, ConsumedFields
      <3>. QED
        BY <2>2, <3>2
    <2>. HIDE DEF s
    <2>4. \A r \in Runtimes, q \in Polls : mem'[r].polls[q] \in {mem[r].polls[q], None}
      BY <2>1, <2>3 DEF Here, TypeOK
    <2>. QED
      BY <1>2, <2>1, <2>4
  <1>9. CASE Crash
    <2>1. /\ accepted' = accepted /\ mem' = [r \in Runtimes |-> EmptyRegistry]
          /\ \A r \in Runtimes : phase[r] # "new" => phase'[r] = "gone"
      BY <1>9 DEF Crash, historyVars
    <2>. QED
      BY <1>2, <2>1, EmptyRegistryFields
  <1>10. CASE Tick \/ UNCHANGED vars
    BY <1>2, <1>10 DEF Tick, vars, fileVars, runtimeVars, historyVars
  <1>. QED
    BY <1>3, <1>4, <1>5, <1>6, <1>7, <1>8, <1>9, <1>10, NextCases

\* Votes are remembered, the clock does not go back, and a reader of the receipts
\* finds the ones it knows.
LEMMA Histories ==
  ASSUME IInv, [Next]_vars
  PROVE  /\ accepted \subseteq accepted'
         /\ now \in Nat /\ now' \in Nat /\ now <= now'
         /\ journal \in Seq(Receipt) /\ journal' \in Seq(Receipt)
         /\ IsPrefix(journal, journal')
  <1>1. TypeOK' /\ BaseInv /\ DataInv
    BY TypeKept DEF IInv
  <1>2. /\ now \in Nat /\ now' \in Nat
        /\ journal \in Seq(Receipt) /\ journal' \in Seq(Receipt)
    BY <1>1, Numbers DEF BaseInv, TypeOK
  <1>3. now <= now'
    <2>1. now' = now \/ now' = now + 1
      <3>1. ASSUME NEW r \in Runtimes, SlotStep(r) \/ Load(r)
            PROVE  now' = now
        BY <3>1 DEF SlotStep, EnterSlot, Stop, FencePrevious, TakeOver, Load, LoadFails,
           CancelStart, envVars
      <3>2. ASSUME NEW t \in Tasks, QuietStep(t) \/ BeginStep(t) \/ EndStep(t) \/ Publish(t)
            PROVE  now' = now
        BY <1>1, <3>2, Quiet, BeginsSave, EndsSave, Publishes DEF envVars
      <3>3. CASE Tick \/ Crash \/ UNCHANGED vars
        BY <3>3 DEF Tick, Crash, vars, envVars
      <3>. QED
        BY <3>1, <3>2, <3>3, NextCases
    <2>. QED
      BY <1>2, <2>1
  <1>4. accepted \subseteq accepted'
    <2>1. CASE \/ \E r \in Runtimes : SlotStep(r) \/ Load(r)
               \/ Tick \/ Crash \/ UNCHANGED vars
      BY <2>1, OtherSteps
    <2>2. ASSUME NEW t \in Tasks, QuietStep(t) \/ EndStep(t) \/ Publish(t)
          PROVE  accepted' = accepted
      BY <1>1, <2>2, Quiet, EndsSave, Publishes DEF historyVars
    <2>3. ASSUME NEW t \in Tasks, BeginStep(t)
          PROVE  accepted \subseteq accepted'
      <3>1. PICK j \in Job, m \in Registry : Saves(t, j, m)
        BY <1>1, <2>3, BeginsSave
      <3>. QED
        BY <3>1 DEF Saves
    <2>. QED
      BY <2>1, <2>2, <2>3, NextCases
  <1>5. IsPrefix(journal, journal')
    <2>1. IsPrefix(journal, journal)
      BY <1>2, PrefixElements, AppendFields
    <2>2. disk \in Registry /\ disk' \in Registry
      BY <1>1 DEF BaseInv, TypeOK
    <2>3. CASE \/ \E r \in Runtimes : SlotStep(r)
               \/ \E t \in Tasks : QuietStep(t) \/ Publish(t)
               \/ Tick \/ Crash \/ UNCHANGED vars
      <3>1. PICK m \in Registry : m = disk'
        BY <2>2
      <3>2. InUse(m)'
        BY <3>1 DEF InUse
      <3>. QED
        BY <1>1, <2>1, <2>3, <3>2, QuietRegistries
    <2>4. ASSUME NEW r \in Runtimes, Load(r)
          PROVE  IsPrefix(journal, journal')
      <3>1. journal' = disk.receipts
        BY <2>4 DEF Load
      <3>2. InUse(disk)
        BY DEF InUse
      <3>. QED
        BY <1>1, <2>2, <3>1, <3>2 DEF DataInv, RegistryOK, ReceiptsOK
    <2>5. ASSUME NEW t \in Tasks, BeginStep(t)
          PROVE  journal' = journal
      BY <1>1, <2>5, BeginsSave
    <2>6. ASSUME NEW t \in Tasks, EndStep(t)
          PROVE  IsPrefix(journal, journal')
      <3>1. /\ task[t] # None /\ snap[Rt(t)] \in Registry
            /\ journal' = journal \/ journal' = snap[Rt(t)].receipts
        BY <1>1, <2>6, EndsSave
      <3>2. RegistryOK(snap[Rt(t)])
        BY <1>1, <3>1, Nothing, HereOK
      <3>. QED
        BY <2>1, <3>1, <3>2 DEF RegistryOK, ReceiptsOK
    <2>. QED
      BY <2>1, <2>3, <2>4, <2>5, <2>6, NextCases
  <1>. QED
    BY <1>2, <1>3, <1>4, <1>5

\* One task at a time settles or publishes.
LEMMA OneSettles ==
  ASSUME BaseInv, NEW t \in Tasks, NEW u \in Tasks,
         task[t] # None, task[t].at \in Locked, task[u] # None, task[u].at \in Locked
  PROVE  t = u
  <1>1. Rt(t) \in Runtimes /\ Rt(u) \in Runtimes
    BY JobFields DEF BaseInv
  <1>2. lock[Rt(t)] = t /\ lock[Rt(u)] = u
    BY DEF BaseInv, LockInv
  <1>3. owner = Rt(t) /\ owner = Rt(u)
    BY <1>1, <1>2 DEF BaseInv, LockInv
  <1>. QED
    BY <1>2, <1>3

\* A vote that was accepted in time was so later.
LEMMA BackedKept ==
  ASSUME IInv, [Next]_vars, NEW p \in Polls, NEW v, NEW x \in Nat, NEW y \in Nat,
         x <= y, Backed(p, v, x)
  PROVE  Backed(p, v, y)'
  <1>1. PICK a \in accepted : a.poll = p /\ a.ts = v /\ a.at + SettleTime <= x
    BY DEF Backed
  <1>2. a \in accepted'
    BY Histories
  <1>3. a.at + SettleTime <= y
    <2>1. a.at \in Nat /\ SettleTime \in Nat
      BY Numbers DEF IInv, BaseInv, TypeOK
    <2>. QED
      BY <1>1, <2>1
  <1>. QED
    BY <1>1, <1>2, <1>3 DEF Backed

\* The newest choice of a poll that is over remains so.
LEMMA FinalKept ==
  ASSUME IInv, [Next]_vars, NEW p \in Polls, NEW v, NEW r,
         NEW x \in Nat, NEW y \in Nat, x <= y, Over(p), Final(p, v, r, x)
  PROVE  Final(p, v, r, y)'
  <1>1. BaseInv /\ DataInv
    BY DEF IInv
  <1>2. acked'[p] <= v
    BY <1>1, NewAcks DEF Final
  <1>3. ASSUME NEW a \in accepted', a.poll = p, a.rt = r
        PROVE  a.ts <= v
    <2>1. a \in accepted
      BY <1>1, <1>3, NewVotes, EntryOK
    <2>. QED
      BY <1>3, <2>1 DEF Final
  <1>4. Backed(p, v, y)'
    BY BackedKept DEF Final
  <1>5. ASSUME p \in Applications
        PROVE  \E i \in DOMAIN journal' : journal'[i] = [poll |-> p, ts |-> v]
    <2>1. PICK i \in DOMAIN journal : journal[i] = [poll |-> p, ts |-> v]
      BY <1>5 DEF Final
    <2>. DEFINE R == Receipt
    <2>. HIDE DEF R
    <2>2. journal \in Seq(R) /\ journal' \in Seq(R)
      BY Histories DEF R
    <2>3. /\ Len(journal) <= Len(journal')
          /\ \A k \in 1 .. Len(journal) : journal[k] = journal'[k]
      BY Histories, PrefixElements
    <2>4. DOMAIN journal = 1 .. Len(journal) /\ DOMAIN journal' = 1 .. Len(journal')
          /\ Len(journal) \in Nat /\ Len(journal') \in Nat
      BY <2>2
    <2>. QED
      BY <2>1, <2>3, <2>4
  <1>. QED
    BY <1>2, <1>3, <1>4, <1>5 DEF Final

\* What the tasks that were there before the step say of their polls.
LEMMA OldTasks ==
  ASSUME IInv, [Next]_vars, NEW t \in Tasks, task'[t] = task[t]
  PROVE  /\ At(t, "publish")' =>
              /\ announced[Poll(t)] = 0
              /\ Final(Poll(t), task[t].ts, Rt(t), now)'
         /\ At(t, "committing")' => Backed(Poll(t), task[t].ts, now)'
  <1>. SUFFICES ASSUME task[t] # None
                PROVE  /\ At(t, "publish") =>
                            /\ announced[Poll(t)] = 0
                            /\ Final(Poll(t), task[t].ts, Rt(t), now)'
                       /\ At(t, "committing") => Backed(Poll(t), task[t].ts, now)'
    BY DEF At
  <1>1. PICK p \in Polls, v \in Votes, r \in Runtimes :
          p = Poll(t) /\ v = task[t].ts /\ r = Rt(t)
    BY JobFields DEF IInv, BaseInv
  <1>2. Poll(t)' = p /\ task'[t].ts = v /\ Rt(t)' = r
    BY <1>1 DEF Poll, Rt
  <1>3. PICK x \in Nat, y \in Nat : x = now /\ y = now' /\ x <= y
    BY Histories
  <1>4. ASSUME At(t, "publish")
        PROVE  announced[p] = 0 /\ Final(p, v, r, y)'
    <2>1. announced[p] = 0 /\ Final(p, v, r, x)
      BY <1>1, <1>3, <1>4 DEF IInv, SettledInv
    <2>2. Over(p)
      BY <1>1, <1>4 DEF Over
    <2>. QED
      BY <1>3, <2>1, <2>2, FinalKept
  <1>5. ASSUME At(t, "committing")
        PROVE  Backed(p, v, y)'
    <2>1. Backed(p, v, x)
      BY <1>1, <1>3, <1>5 DEF IInv, SettledInv
    <2>. QED
      BY <1>3, <2>1, BackedKept
  <1>6. Final(Poll(t), task[t].ts, Rt(t), now)' = Final(p, v, r, y)'
    BY <1>2, <1>3 DEF Final, Backed
  <1>7. Backed(Poll(t), task[t].ts, now)' = Backed(p, v, y)'
    BY <1>2, <1>3 DEF Backed
  <1>. QED
    BY <1>1, <1>4, <1>5, <1>6, <1>7

\* What was announced before the step stays the last word.
LEMMA OldSettlements ==
  ASSUME IInv, [Next]_vars, NEW p \in Polls, settled[p] # None, settled'[p] = settled[p]
  PROVE  /\ announced[p] > 0
         /\ Final(p, settled[p].ts, settled[p].rt, settled[p].at)'
  <1>1. announced[p] > 0 /\ Final(p, settled[p].ts, settled[p].rt, settled[p].at)
    BY DEF IInv, SettledInv
  <1>2. PICK z \in [ts : Votes, at : 0 .. MaxTime, rt : Runtimes] : z = settled[p]
    BY DEF IInv, BaseInv, TypeOK
  <1>3. z.at \in Nat /\ z.at <= z.at
    BY <1>2, Numbers
  <1>4. Final(p, z.ts, z.rt, z.at)
    BY <1>1, <1>2
  <1>5. Over(p)
    BY <1>1 DEF Over
  <1>6. Final(p, z.ts, z.rt, z.at)'
    BY <1>3, <1>4, <1>5, FinalKept
  <1>7. settled'[p] = z
    BY <1>2
  <1>8. Final(p, settled[p].ts, settled[p].rt, settled[p].at)' = Final(p, z.ts, z.rt, z.at)'
    BY <1>7 DEF Final, Backed
  <1>. QED
    BY <1>1, <1>6, <1>8

\* A settlement that was written is of the newest choice, and nothing was
\* announced of its poll.
LEMMA SettlesNewest ==
  ASSUME IInv, [Next]_vars, NEW t \in Tasks, NEW p \in Polls, Settles(t, p)
  PROVE  announced[p] = 0 /\ \A v, r, y : v = task[t].ts /\ r = Rt(t) /\ y = now' =>
                                            Final(p, v, r, y)'
  <1>. SUFFICES ASSUME NEW v, NEW r, NEW y, v = task[t].ts, r = Rt(t), y = now'
                PROVE  announced[p] = 0 /\ Final(p, v, r, y)'
    <2>1. \E v, r, y : v = task[t].ts /\ r = Rt(t) /\ y = now'
      OBVIOUS
    <2>. QED
      BY <2>1
  <1>1. BaseInv /\ DataInv /\ AcceptedInv /\ SettledInv
    BY DEF IInv
  <1>2. /\ EndStep(t) /\ task[t] # None /\ task[t].at = "committing" /\ Poll(t) = p
        /\ Acknowledge(snap[r]) /\ journal' = snap[r].receipts
    BY DEF Settles, At
  <1>3. /\ snap[r] = Consumed(Here(t), p) /\ Entry(t) \in Pending
        /\ Here(t) \in Registry /\ Here(t).polls[p] = Entry(t)
        /\ Entry(t).ts = v
        /\ snap[r].polls[p] = None
    BY <1>1, SettledAway
  <1>4. /\ r \in Runtimes /\ lock[r] \in Tasks /\ now' = now /\ accepted' = accepted
    BY <1>1, <1>2, EndsSave DEF envVars
  <1>5. ~Over(p) /\ acked[p] <= v
    BY <1>1, <1>2, <1>3, <1>4, Nothing, EntryOK
  <1>6. announced[p] = 0
    BY <1>1, <1>5 DEF Over, BaseInv, TypeOK
  <1>7. acked'[p] <= v
    BY <1>2, <1>3, <1>5 DEF Acknowledge
  <1>8. \A a \in accepted' : a.poll = p /\ a.rt = r => a.ts <= v
    <2>1. mem[r].polls[p] = Entry(t) /\ Entry(t) # None
      BY <1>3, Nothing DEF Here
    <2>. QED
      BY <1>1, <1>3, <1>4, <2>1 DEF AcceptedInv
  <1>9. Backed(p, v, y)'
    <2>1. Backed(p, v, y)
      BY <1>1, <1>2, <1>4 DEF SettledInv, At
    <2>. QED
      BY <1>4, <2>1 DEF Backed
  <1>10. ASSUME p \in Applications
         PROVE  \E i \in DOMAIN journal' : journal'[i] = [poll |-> p, ts |-> v]
    <2>1. PICK s \in Seq(Receipt) : s = Here(t).receipts
      BY <1>3, RegistryFields
    <2>2. PICK x \in Receipt : x = [poll |-> p, ts |-> v] /\ journal' = Append(s, x)
      <3>1. Here(t).polls[p] # None /\ Here(t).polls[p].ts = v
        BY <1>3, Nothing
      <3>. DEFINE h == Here(t)
                  x == [poll |-> p, ts |-> h.polls[p].ts]
      <3>. HIDE DEF h
      <3>2. x \in Receipt /\ Consumed(h, p).receipts = Append(h.receipts, x)
        BY <1>3, <1>10, <3>1, ConsumedFields DEF h
      <3>3. x = [poll |-> p, ts |-> v]
        BY <3>1 DEF h
      <3>4. journal' = Append(s, x)
        BY <1>2, <1>3, <2>1, <3>2 DEF h
      <3>. HIDE DEF x
      <3>. QED
        BY <3>2, <3>3, <3>4
    <2>3. /\ DOMAIN Append(s, x) = 1 .. Len(s) + 1 /\ Len(s) \in Nat
          /\ Append(s, x)[Len(s) + 1] = x
      BY AppendFields
    <2>. QED
      BY <2>2, <2>3
  <1>. QED
    BY <1>6, <1>7, <1>8, <1>9, <1>10 DEF Final

\* A settlement begins for a choice whose window is over.
LEMMA CommitsBacked ==
  ASSUME IInv, [Next]_vars, NEW t \in Tasks, BeginStep(t), NEW j \in Job,
         task' = [task EXCEPT ![t] = j], j.poll = Poll(t), j.at = "committing",
         NEW m \in Registry, Saves(t, j, m)
  PROVE  \A v, y : v = j.ts /\ y = now' => Backed(j.poll, v, y)'
  <1>. SUFFICES ASSUME NEW v, NEW y, v = j.ts, y = now'
                PROVE  Backed(j.poll, v, y)'
    OBVIOUS
  <1>1. BaseInv /\ DataInv
    BY DEF IInv
  <1>2. /\ Entry(t) # None /\ Entry(t).chosen /\ Entry(t).due <= now
        /\ v = Entry(t).ts /\ accepted' = accepted
    BY DEF Saves
  <1>3. /\ task[t] # None /\ Rt(t) \notin stopping /\ now' = now
        /\ Entry(t) \in Pending
    BY <1>1, <1>2, BeginsSave, JobFields DEF envVars, BaseInv
  <1>4. Backed(Poll(t), Entry(t).ts, Entry(t).due)
    BY <1>1, <1>2, <1>3, EntryOK
  <1>5. PICK a \in accepted : /\ a.poll = Poll(t) /\ a.ts = Entry(t).ts
                             /\ a.at + SettleTime <= Entry(t).due
    BY <1>4 DEF Backed
  <1>6. a.at \in Nat /\ SettleTime \in Nat /\ Entry(t).due \in Nat /\ now \in Nat
    BY <1>1, <1>3, Numbers DEF BaseInv, TypeOK, Pending
  <1>7. a.at + SettleTime <= now
    BY <1>2, <1>5, <1>6
  <1>. QED
    BY <1>2, <1>3, <1>5, <1>7 DEF Backed

\* What is announced, or about to be, is the last word on its poll.
LEMMA SettledKept ==
  ASSUME IInv, [Next]_vars
  PROVE  SettledInv'
  <1>. DEFINE TaskOK(t) ==
         /\ At(t, "publish") => announced[Poll(t)] = 0 /\ Final(Poll(t), task[t].ts, Rt(t), now)
         /\ At(t, "committing") => Backed(Poll(t), task[t].ts, now)
  <1>1. BaseInv /\ DataInv /\ SettledInv
    BY DEF IInv
  <1>2. ASSUME UNCHANGED <<announced, settled>>, \A t \in Tasks : TaskOK(t)'
        PROVE  SettledInv'
    <2>1. \A p \in Polls : announced'[p] <= 1
      BY <1>1, <1>2 DEF SettledInv
    <2>2. ASSUME NEW p \in Polls, settled'[p] # None
          PROVE  announced'[p] > 0 /\ Final(p, settled[p].ts, settled[p].rt, settled[p].at)'
      BY <1>2, <2>2, OldSettlements
    <2>. QED
      BY <1>2, <2>1, <2>2 DEF SettledInv
  <1>3. ASSUME UNCHANGED <<announced, settled>>, NEW t \in Tasks, task'[t] = task[t]
        PROVE  TaskOK(t)'
    <2>1. /\ At(t, "publish")' => /\ announced[Poll(t)] = 0
                                  /\ Final(Poll(t), task[t].ts, Rt(t), now)'
          /\ At(t, "committing")' => Backed(Poll(t), task[t].ts, now)'
      BY <1>3, OldTasks
    <2>2. announced'[Poll(t)'] = announced[Poll(t)]
      BY <1>3 DEF Poll
    <2>. QED
      BY <2>1, <2>2
  <1>4. CASE \/ \E r \in Runtimes : SlotStep(r) \/ Load(r)
             \/ Tick \/ Crash \/ UNCHANGED vars
    <2>1. /\ task' = task \/ task' = [t \in Tasks |-> None]
          /\ UNCHANGED <<announced, settled>>
      BY <1>4, OtherSteps
    <2>2. ASSUME NEW t \in Tasks
          PROVE  TaskOK(t)'
      <3>1. CASE task' = task
        BY <1>3, <2>1, <3>1
      <3>2. CASE task' = [u \in Tasks |-> None]
        BY <3>2 DEF At
      <3>. QED
        BY <2>1, <3>1, <3>2
    <2>. QED
      BY <1>2, <2>1, <2>2
  <1>5. ASSUME NEW t \in Tasks, NEW j \in Job \cup {None}, task' = [task EXCEPT ![t] = j],
               UNCHANGED <<announced, settled>>,
               TaskOK(t)'
        PROVE  SettledInv'
    <2>1. \A u \in Tasks : u # t => task'[u] = task[u]
      BY <1>1, <1>5 DEF BaseInv, TypeOK
    <2>2. \A u \in Tasks : u # t => TaskOK(u)'
      BY <1>3, <1>5, <2>1
    <2>. QED
      BY <1>2, <1>5, <2>2
  <1>6. ASSUME NEW t \in Tasks, NEW j \in Job \cup {None}, task' = [task EXCEPT ![t] = j],
               UNCHANGED <<announced, settled>>,
               j # None => j.at \notin {"publish", "committing"}
        PROVE  SettledInv'
    <2>1. task'[t] = j
      BY <1>1, <1>6 DEF BaseInv, TypeOK
    <2>. QED
      BY <1>5, <1>6, <2>1 DEF At
  <1>7. ASSUME NEW t \in Tasks, QuietStep(t)
        PROVE  SettledInv'
    <2>1. PICK j \in Job \cup {None} :
            task' = [task EXCEPT ![t] = j] /\ (j # None => j.at \in Waiting)
      BY <1>1, <1>7, Quiet
    <2>2. UNCHANGED <<announced, settled>>
      BY <1>1, <1>7, Quiet DEF historyVars
    <2>. QED
      BY <1>6, <2>1, <2>2 DEF Waiting
  <1>8. ASSUME NEW t \in Tasks, BeginStep(t)
        PROVE  SettledInv'
    <2>1. PICK j \in Job, m \in Registry :
            task' = [task EXCEPT ![t] = j] /\ j.poll = Poll(t) /\ Saves(t, j, m)
      BY <1>1, <1>8, BeginsSave
    <2>2. UNCHANGED <<announced, settled>>
      BY <1>1, <1>8, BeginsSave
    <2>3. j.at # "publish"
      BY <2>1 DEF Saves
    <2>4. CASE j.at # "committing"
      BY <1>6, <2>1, <2>2, <2>3, <2>4
    <2>5. CASE j.at = "committing"
      <3>1. task'[t] = j
        BY <1>1, <2>1 DEF BaseInv, TypeOK
      <3>2. PICK v, y : v = j.ts /\ y = now'
        OBVIOUS
      <3>3. Backed(j.poll, v, y)'
        BY <1>8, <2>1, <2>5, <3>2, CommitsBacked
      <3>4. Poll(t)' = j.poll /\ task'[t].ts = v /\ ~At(t, "publish")'
        BY <2>5, <3>1, <3>2 DEF Poll, At
      <3>5. Backed(Poll(t), task[t].ts, now)' = Backed(j.poll, v, y)'
        BY <3>2, <3>4 DEF Backed
      <3>. QED
        BY <1>5, <2>1, <2>2, <3>3, <3>4, <3>5
    <2>. QED
      BY <2>4, <2>5
  <1>9. ASSUME NEW t \in Tasks, EndStep(t)
        PROVE  SettledInv'
    <2>1. UNCHANGED <<announced, settled>>
      BY <1>1, <1>9, EndsSave
    <2>2. CASE task' = [task EXCEPT ![t] = None]
      BY <1>6, <2>1, <2>2
    <2>3. CASE task' # [task EXCEPT ![t] = None]
      <3>1. /\ task[t].at = "committing" /\ task[t] # None /\ Poll(t) \in Polls
            /\ disk' = snap[Rt(t)] /\ Acknowledge(snap[Rt(t)])
            /\ mem' = [mem EXCEPT ![Rt(t)] = snap[Rt(t)]]
            /\ journal' = snap[Rt(t)].receipts
            /\ \E j \in Job : /\ task' = [task EXCEPT ![t] = j]
                             /\ j.at = "publish" /\ j.rt = Rt(t) /\ j.poll = Poll(t)
                             /\ j.ts = task[t].ts
        BY <1>1, <1>9, <2>3, EndsSave
      <3>2. PICK j \in Job : /\ task' = [task EXCEPT ![t] = j]
                           /\ j.at = "publish" /\ j.rt = Rt(t) /\ j.poll = Poll(t)
                           /\ j.ts = task[t].ts
        BY <3>1
      <3>3. PICK p \in Polls : p = Poll(t)
        BY <3>1
      <3>4. Settles(t, p)
        BY <1>9, <3>1, <3>3 DEF Settles, At
      <3>5. PICK v, r, y : v = task[t].ts /\ r = Rt(t) /\ y = now'
        OBVIOUS
      <3>6. announced[p] = 0 /\ Final(p, v, r, y)'
        BY <3>4, <3>5, SettlesNewest
      <3>7. task'[t] = j
        BY <1>1, <3>2 DEF BaseInv, TypeOK
      <3>8. Poll(t)' = p /\ task'[t].ts = v /\ Rt(t)' = r /\ ~At(t, "committing")'
        BY <3>2, <3>3, <3>5, <3>7 DEF Poll, Rt, At
      <3>9. Final(Poll(t), task[t].ts, Rt(t), now)' = Final(p, v, r, y)'
        BY <3>5, <3>8 DEF Final, Backed
      <3>10. announced'[Poll(t)'] = 0
        BY <2>1, <3>6, <3>8
      <3>. QED
        BY <1>5, <2>1, <3>2, <3>6, <3>8, <3>9, <3>10
    <2>. QED
      BY <2>2, <2>3
  <1>10. ASSUME NEW t \in Tasks, Publish(t)
         PROVE  SettledInv'
    <2>1. /\ task[t] # None /\ task[t].at = "publish"
          /\ Rt(t) \in Runtimes /\ Poll(t) \in Polls
          /\ task' = [task EXCEPT ![t] = None]
          /\ \/ UNCHANGED <<announced, settled>>
             \/ /\ announced' = [announced EXCEPT ![Poll(t)] = @ + 1]
                /\ settled' = [settled EXCEPT ![Poll(t)] =
                                 [ts |-> task[t].ts, at |-> now, rt |-> Rt(t)]]
          /\ now' = now
      BY <1>1, <1>10, Publishes DEF envVars
    <2>2. CASE UNCHANGED <<announced, settled>>
      BY <1>6, <2>1, <2>2
    <2>3. CASE /\ announced' = [announced EXCEPT ![Poll(t)] = @ + 1]
               /\ settled' = [settled EXCEPT ![Poll(t)] =
                                [ts |-> task[t].ts, at |-> now, rt |-> Rt(t)]]
      <3>1. PICK p \in Polls : p = Poll(t)
        BY <2>1
      <3>2. PICK x \in Nat : x = now /\ x = now'
        BY <2>1, Histories
      <3>3. PICK v, r : v = task[t].ts /\ r = Rt(t)
        OBVIOUS
      <3>4. announced[p] = 0 /\ Final(p, v, r, x)
        BY <1>1, <2>1, <3>1, <3>2, <3>3 DEF SettledInv, At
      <3>5. Over(p)
        BY <2>1, <3>1 DEF Over, At
      <3>6. Final(p, v, r, x)'
        BY <3>2, <3>4, <3>5, FinalKept
      <3>7. /\ announced'[p] = 1 /\ settled'[p] = [ts |-> v, at |-> x, rt |-> r]
            /\ \A q \in Polls : q # p => announced'[q] = announced[q] /\ settled'[q] = settled[q]
        BY <1>1, <2>3, <3>1, <3>2, <3>3, <3>4 DEF BaseInv, TypeOK
      <3>8. \A q \in Polls : announced'[q] <= 1
        BY <1>1, <3>7 DEF SettledInv
      <3>9. ASSUME NEW q \in Polls, settled'[q] # None
            PROVE  /\ announced'[q] > 0
                   /\ Final(q, settled[q].ts, settled[q].rt, settled[q].at)'
        <4>1. CASE q = p
          <5>1. settled'[p].ts = v /\ settled'[p].at = x /\ settled'[p].rt = r
            BY <3>7
          <5>2. Final(p, settled[p].ts, settled[p].rt, settled[p].at)' = Final(p, v, r, x)'
            BY <5>1 DEF Final, Backed
          <5>. QED
            BY <3>6, <3>7, <4>1, <5>2
        <4>2. CASE q # p
          BY <3>7, <3>9, <4>2, OldSettlements
        <4>. QED
          BY <4>1, <4>2
      <3>10. ASSUME NEW u \in Tasks
             PROVE  TaskOK(u)'
        <4>1. task'[t] = None /\ (u # t => task'[u] = task[u])
          BY <1>1, <2>1 DEF BaseInv, TypeOK
        <4>2. ~(u # t /\ task[u] # None /\ task[u].at \in Locked)
          BY <1>1, <2>1, OneSettles DEF Locked
        <4>. QED
          BY <4>1, <4>2 DEF At, Locked, Writing
      <3>. QED
        BY <3>8, <3>9, <3>10 DEF SettledInv
    <2>. QED
      BY <2>1, <2>2, <2>3
  <1>. QED
    BY <1>4, <1>7, <1>8, <1>9, <1>10, NextCases

-----------------------------------------------------------------------------
(***************************************************************************)
(* Work is not forgotten                                                   *)
(***************************************************************************)

Serves(r) == phase[r] = "up" /\ r \notin stopping

\* Registry entry e, as registry m saves it, is still to be settled or saved.
Open(e, m, p) == e # None /\ (e.chosen \/ e # m.polls[p])

\* Job j has the vote ts of poll p of runtime r in its hands.
HasInHand(j, r, p, ts) ==
  /\ j # None
  /\ j.rt = r /\ j.poll = p /\ j.ts = ts
  /\ j.at \in Writing \cup {"commit", "recover"}

Handled(r, p) ==
  \/ timer[r][p] # None /\ timer[r][p].ts = mem[r].polls[p].ts
  \/ p \in spent[r]
  \/ \E t \in Tasks : HasInHand(task[t], r, p, mem[r].polls[p].ts)

\* What job j knows of the entry e of its poll.  A settlement or a retry is for
\* its vote or for one that it replaced, and a settlement for a selected choice.
Late(ts, settles, e) ==
  e # None => ts <= e.ts /\ (settles /\ ts = e.ts => e.chosen)

JobOK(j, e) ==
  /\ j.at \in {"commit", "recover"} => Late(j.ts, j.at = "commit", e)
  /\ j.at \in Writing => e # None /\ e.ts = j.ts
  /\ j.at \in {"registering", "rewriting"} => ~e.chosen
  /\ j.at \in {"register", "registering"} => j.ts = 0

JobsInv ==
  \A t \in Tasks : task[t] # None =>
    /\ JobOK(task[t], Entry(t))
    /\ task[t].at \in {"commit", "recover"} => ~Untouched(Poll(t))

TimersInv ==
  \A r \in Runtimes, p \in Polls : timer[r][p] # None =>
    /\ Late(timer[r][p].ts, ~timer[r][p].retry, mem[r].polls[p])
    /\ ~Untouched(p)

\* What NothingStranded needs to be inductive: timers and tasks do not run ahead
\* of the vote in memory, and one of them that is for it can deal with it.
StrandInv ==
  /\ JobsInv
  /\ TimersInv
  /\ \A r \in Runtimes, p \in Polls :
       Serves(r) /\ Open(mem[r].polls[p], disk, p) => Handled(r, p)

\* A step of the task t, for the poll p of runtime r, leaves the others alone: what
\* it writes is what other polls have in memory, and it replaces the vote of p, if
\* at all, by a newer one.
Frame(t, r, p) ==
  /\ UNCHANGED <<phase, stopping>>
  /\ \A u \in Tasks : u # t => task'[u] = task[u]
  /\ task[t] # None => Rt(t) = r /\ Poll(t) = p
  /\ \A q \in Runtimes, k \in Polls : ~(q = r /\ k = p) =>
       /\ mem'[q].polls[k] = mem[q].polls[k]
       /\ timer'[q][k] = timer[q][k]
       /\ k \in spent[q] => k \in spent'[q]
       /\ Serves(q) => disk'.polls[k] \in {disk.polls[k], mem[q].polls[k]}
  /\ \/ mem'[r].polls[p] = mem[r].polls[p]
     \/ /\ lock[r] \in {None, t}
        /\ \/ mem'[r].polls[p] = None
           \/ mem[r].polls[p] # None /\ mem'[r].polls[p].ts > mem[r].polls[p].ts
           \/ Untouched(p)

\* What the step does to the task and to its poll.
Effect(t, r, p) ==
  /\ task'[t] # None =>
       /\ Rt(t)' = r /\ Poll(t)' = p
       /\ JobOK(task'[t], mem'[r].polls[p])
       /\ task'[t].at \in {"commit", "recover"} => ~Untouched(p)
  /\ timer'[r][p] # None =>
       Late(timer'[r][p].ts, ~timer'[r][p].retry, mem'[r].polls[p]) /\ ~Untouched(p)
  /\ Serves(r) /\ Open(mem'[r].polls[p], disk', p) => Handled(r, p)'

\* A vote that is replaced by a newer one, or that is settled, has no work left that
\* would be for what replaced it.
LEMMA LateLater ==
  ASSUME NEW v \in Votes, NEW b \in BOOLEAN, NEW e \in Pending \cup {None}, Late(v, b, e),
         NEW n \in Pending \cup {None},
         \/ n = None
         \/ e # None /\ n.ts > e.ts
  PROVE  Late(v, b, n)
  <1>1. CASE n = None
    BY <1>1 DEF Late
  <1>2. CASE n # None
    <2>1. e \in Pending /\ n \in Pending /\ n.ts > e.ts
      BY <1>2
    <2>2. e.ts \in Nat /\ n.ts \in Nat /\ v \in Nat
      BY <2>1, Numbers DEF Pending
    <2>3. v <= e.ts
      BY <2>1, Nothing DEF Late
    <2>. QED
      BY <2>1, <2>2, <2>3 DEF Late
  <1>. QED
    BY <1>1, <1>2

\* The other tasks can go on as before.
LEMMA OtherJobs ==
  ASSUME BaseInv, StrandInv, [Next]_vars, TypeOK',
         NEW t \in Tasks, NEW r \in Runtimes, NEW p \in Polls, Frame(t, r, p),
         NEW u \in Tasks, u # t, task'[u] # None
  PROVE  /\ JobOK(task[u], Entry(u))'
         /\ task'[u].at \in {"commit", "recover"} => ~Untouched(Poll(u))'
  <1>1. task'[u] = task[u] /\ task[u] # None
    BY DEF Frame
  <1>2. /\ task[u] \in Job /\ Rt(u) \in Runtimes /\ Poll(u) \in Polls
        /\ task[u].ts \in Votes /\ Entry(u) \in Pending \cup {None}
        /\ task[u].at \in Waiting \cup Writing \cup {"publish"}
    BY <1>1, JobFields DEF BaseInv
  <1>3. Rt(u)' = Rt(u) /\ Poll(u)' = Poll(u) /\ Entry(u)' = mem'[Rt(u)].polls[Poll(u)]
    BY <1>1 DEF Rt, Poll, Entry, Here
  <1>4. /\ JobOK(task[u], Entry(u))
        /\ task[u].at \in {"commit", "recover"} => ~Untouched(Poll(u))
    BY <1>1 DEF StrandInv, JobsInv
  <1>5. task[u].at \in {"commit", "recover"} => ~Untouched(Poll(u))'
    <2>1. PICK k \in Polls : k = Poll(u)
      BY <1>2
    <2>2. ~Untouched(k) => ~Untouched(k)'
      BY UntouchedLess
    <2>3. Poll(u)' = k
      BY <1>3, <2>1
    <2>4. Untouched(Poll(u))' = Untouched(k)'
      BY <2>3 DEF Untouched
    <2>. QED
      BY <1>4, <2>1, <2>2, <2>4
  <1>6. JobOK(task[u], mem'[Rt(u)].polls[Poll(u)])
    <2>1. CASE mem'[Rt(u)].polls[Poll(u)] = Entry(u)
      BY <1>4, <2>1
    <2>2. CASE mem'[Rt(u)].polls[Poll(u)] # Entry(u)
      <3>. DEFINE n == mem'[r].polls[p]
      <3>1. Rt(u) = r /\ Poll(u) = p
        BY <1>2, <2>2 DEF Frame, Entry, Here
      <3>2. lock[r] \in {None, t} /\ Entry(u) = mem[r].polls[p]
        BY <2>2, <3>1 DEF Frame, Entry, Here
      <3>3. task[u].at \notin Writing
        <4>1. task[u].at \in Writing => lock[r] = u
          BY <1>1, <3>1 DEF BaseInv, LockInv, Locked
        <4>. QED
          BY <3>2, <4>1, Nothing
      <3>4. n \in Pending \cup {None}
        <4>1. mem'[r] \in Registry
          BY DEF TypeOK
        <4>. QED
          BY <4>1, RegistryFields
      <3>5. ASSUME task[u].at \in {"commit", "recover"}
            PROVE  Late(task[u].ts, task[u].at = "commit", n)
        <4>1. ~Untouched(p)
          BY <1>4, <3>1, <3>5
        <4>2. \/ n = None
              \/ Entry(u) # None /\ n.ts > Entry(u).ts
          BY <2>2, <3>1, <3>2, <4>1 DEF Frame
        <4>3. PICK b \in BOOLEAN : b = (task[u].at = "commit")
          OBVIOUS
        <4>4. Late(task[u].ts, b, Entry(u))
          BY <1>4, <3>5, <4>3 DEF JobOK
        <4>. HIDE DEF n
        <4>5. Late(task[u].ts, b, n)
          BY <1>2, <3>4, <4>2, <4>4, LateLater
        <4>. QED
          BY <4>3, <4>5
      <3>6. task[u].at = "register" => task[u].ts = 0
        BY <1>4 DEF JobOK
      <3>. QED
        BY <3>1, <3>3, <3>5, <3>6 DEF JobOK, Writing
    <2>. QED
      BY <2>1, <2>2
  <1>7. JobOK(task[u], Entry(u))' = JobOK(task[u], mem'[Rt(u)].polls[Poll(u)])
    BY <1>1, <1>3
  <1>. QED
    BY <1>1, <1>5, <1>6, <1>7

\* So it suffices to look at the task and at its poll.
LEMMA Locally ==
  ASSUME BaseInv, StrandInv, [Next]_vars, TypeOK',
         NEW t \in Tasks, NEW r \in Runtimes, NEW p \in Polls,
         Frame(t, r, p), Effect(t, r, p)
  PROVE  StrandInv'
  <1>1. ASSUME NEW u \in Tasks, task'[u] # None
        PROVE  /\ JobOK(task[u], Entry(u))'
               /\ task'[u].at \in {"commit", "recover"} => ~Untouched(Poll(u))'
    <2>1. CASE u # t
      BY <1>1, <2>1, OtherJobs
    <2>2. CASE u = t
      <3>1. /\ Rt(t)' = r /\ Poll(t)' = p
            /\ JobOK(task'[t], mem'[r].polls[p])
            /\ task'[t].at \in {"commit", "recover"} => ~Untouched(p)
        BY <1>1, <2>2 DEF Effect
      <3>2. ~Untouched(p) => ~Untouched(p)'
        BY UntouchedLess
      <3>3. Untouched(Poll(t))' = Untouched(p)'
        BY <3>1 DEF Untouched
      <3>4. Entry(t)' = mem'[r].polls[p]
        BY <3>1 DEF Entry, Here
      <3>. QED
        BY <2>2, <3>1, <3>2, <3>3, <3>4
    <2>. QED
      BY <2>1, <2>2
  <1>2. ASSUME NEW q \in Runtimes, NEW k \in Polls, timer'[q][k] # None
        PROVE  /\ Late(timer'[q][k].ts, ~timer'[q][k].retry, mem'[q].polls[k])
               /\ ~Untouched(k)'
    <2>1. ~Untouched(k) => ~Untouched(k)'
      BY UntouchedLess
    <2>2. CASE q = r /\ k = p
      BY <1>2, <2>1, <2>2 DEF Effect
    <2>3. CASE ~(q = r /\ k = p)
      <3>1. timer'[q][k] = timer[q][k] /\ mem'[q].polls[k] = mem[q].polls[k]
        BY <2>3 DEF Frame
      <3>. QED
        BY <1>2, <2>1, <3>1 DEF StrandInv, TimersInv
    <2>. QED
      BY <2>2, <2>3
  <1>3. ASSUME NEW q \in Runtimes, NEW k \in Polls,
               Serves(q)', Open(mem[q].polls[k], disk, k)'
        PROVE  Handled(q, k)'
    <2>1. Serves(q)
      BY <1>3 DEF Serves, Frame
    <2>2. CASE q = r /\ k = p
      BY <1>3, <2>1, <2>2 DEF Effect, Open
    <2>3. CASE ~(q = r /\ k = p)
      <3>1. /\ mem'[q].polls[k] = mem[q].polls[k] /\ timer'[q][k] = timer[q][k]
            /\ k \in spent[q] => k \in spent'[q]
            /\ disk'.polls[k] \in {disk.polls[k], mem[q].polls[k]}
        BY <2>1, <2>3 DEF Frame
      <3>2. Open(mem[q].polls[k], disk, k)
        BY <1>3, <3>1 DEF Open
      <3>3. Handled(q, k)
        BY <2>1, <3>2 DEF StrandInv
      <3>4. ASSUME NEW u \in Tasks, HasInHand(task[u], q, k, mem[q].polls[k].ts)
            PROVE  Handled(q, k)'
        <4>1. u # t
          BY <2>3, <3>4 DEF HasInHand, Frame, Rt, Poll
        <4>2. task'[u] = task[u]
          BY <4>1 DEF Frame
        <4>3. HasInHand(task'[u], q, k, mem'[q].polls[k].ts)
          BY <3>1, <3>4, <4>2
        <4>. QED
          BY <4>3 DEF Handled
      <3>. QED
        BY <3>1, <3>3, <3>4 DEF Handled
    <2>. QED
      BY <2>2, <2>3
  <1>4. JobsInv'
    BY <1>1 DEF JobsInv
  <1>5. TimersInv'
    BY <1>2 DEF TimersInv
  <1>. QED
    BY <1>3, <1>4, <1>5 DEF StrandInv

\* The work of other polls is as it was.
OtherWork(r, p) ==
  \A q \in Runtimes, k \in Polls : ~(q = r /\ k = p) =>
    timer'[q][k] = timer[q][k] /\ (k \in spent[q] => k \in spent'[q])

\* A timer of one poll is set or dropped, or its retries are.
LEMMA OneTimer ==
  ASSUME TypeOK, NEW r \in Runtimes, NEW p \in Polls, NEW x \in Timer \cup {None},
         \/ timer' = timer
         \/ timer' = [timer EXCEPT ![r][p] = x],
         \/ spent' = spent
         \/ spent' = [spent EXCEPT ![r] = @ \cup {p}]
         \/ spent' = [spent EXCEPT ![r] = @ \ {p}]
  PROVE  /\ OtherWork(r, p)
         /\ timer' # timer => timer'[r][p] = x
         /\ spent' = [spent EXCEPT ![r] = @ \cup {p}] => p \in spent'[r]
  <1>1. timer' # timer => timer'[r][p] = x
    BY WorkTypes
  <1>2. \A q \in Runtimes, k \in Polls : ~(q = r /\ k = p) => timer'[q][k] = timer[q][k]
    BY WorkTypes
  <1>3. spent \in [Runtimes -> SUBSET Polls]
    BY DEF TypeOK
  <1>4. \A q \in Runtimes, k \in Polls :
          ~(q = r /\ k = p) => (k \in spent[q] => k \in spent'[q])
    BY <1>3
  <1>5. spent' = [spent EXCEPT ![r] = @ \cup {p}] => p \in spent'[r]
    BY <1>3
  <1>. QED
    BY <1>1, <1>2, <1>4, <1>5 DEF OtherWork

\* A retry is scheduled, or counted as exhausted, unless the manager is stopped.
LEMMA RetryEffect ==
  ASSUME TypeOK, NEW r \in Runtimes, NEW p \in Polls, NEW v \in Votes, NEW e \in Pending,
         ScheduleRecovery(r, p, v, e)
  PROVE  /\ OtherWork(r, p)
         /\ \/ timer' = timer /\ (r \in stopping \/ p \in spent'[r])
            \/ /\ timer'[r][p] # None
               /\ timer'[r][p].ts = v /\ timer'[r][p].retry
  <1>. DEFINE x == [ts |-> v, due |-> e.due, retry |-> TRUE]
  <1>1. x \in Timer
    BY DEF Timer, Pending
  <1>2. x # None /\ x.ts = v /\ x.retry
    BY <1>1, Nothing
  <1>3. CASE r \in stopping /\ UNCHANGED workVars
    BY <1>1, <1>3, OneTimer DEF workVars
  <1>4. CASE spent' = [spent EXCEPT ![r] = @ \cup {p}] /\ UNCHANGED <<timer, recovery>>
    BY <1>1, <1>4, OneTimer
  <1>5. CASE timer' = [timer EXCEPT ![r][p] = x] /\ UNCHANGED spent
    <2>. HIDE DEF x
    <2>1. timer'[r][p] = x
      BY <1>1, <1>5, WorkTypes
    <2>2. OtherWork(r, p)
      BY <1>1, <1>5, OneTimer
    <2>. QED
      BY <1>2, <2>1, <2>2
  <1>. QED
    BY <1>3, <1>4, <1>5 DEF ScheduleRecovery

\* The settle timer of a poll is started.
LEMMA ScheduledEffect ==
  ASSUME TypeOK, NEW r \in Runtimes, NEW p \in Polls, NEW e \in Pending,
         timer' = Scheduled(r, p, e, FALSE), UNCHANGED spent
  PROVE  /\ OtherWork(r, p)
         /\ \/ timer' = timer /\ r \in stopping
            \/ /\ timer'[r][p] # None
               /\ timer'[r][p].ts = e.ts /\ ~timer'[r][p].retry
  <1>. DEFINE x == [ts |-> e.ts, due |-> e.due, retry |-> FALSE]
  <1>1. x \in Timer
    BY DEF Timer, Pending
  <1>2. x # None /\ x.ts = e.ts /\ ~x.retry
    BY <1>1, Nothing
  <1>3. CASE r \in stopping
    <2>1. timer' = timer
      BY <1>3 DEF Scheduled
    <2>. QED
      BY <1>1, <1>3, <2>1, OneTimer
  <1>4. CASE r \notin stopping
    <2>1. timer' = [timer EXCEPT ![r][p] = x]
      BY <1>4 DEF Scheduled
    <2>. HIDE DEF x
    <2>2. [timer EXCEPT ![r][p] = x][r][p] = x
      BY <1>1, WorkTypes
    <2>3. OtherWork(r, p)
      BY <1>1, <2>1, OneTimer
    <2>. QED
      BY <1>2, <2>1, <2>2, <2>3
  <1>. QED
    BY <1>3, <1>4

\* Timers and retries of a poll are dropped.
LEMMA CancelEffect ==
  ASSUME TypeOK, NEW r \in Runtimes, NEW p \in Polls, CancelWork(r, p)
  PROVE  OtherWork(r, p) /\ timer'[r][p] = None
  <1>1. timer' = [timer EXCEPT ![r][p] = None] /\ spent' = [spent EXCEPT ![r] = @ \ {p}]
    BY DEF CancelWork
  <1>2. timer'[r][p] = None
    BY <1>1, WorkTypes
  <1>. QED
    BY <1>1, <1>2, OneTimer

\* Who had the poll in hand still has.
LEMMA StillHandled ==
  ASSUME StrandInv, NEW t \in Tasks, NEW r \in Runtimes, NEW p \in Polls,
         Serves(r), Open(mem[r].polls[p], disk, p),
         mem'[r].polls[p] = mem[r].polls[p],
         timer'[r][p] = timer[r][p],
         p \in spent[r] => p \in spent'[r],
         \A u \in Tasks : u # t => task'[u] = task[u],
         HasInHand(task[t], r, p, mem[r].polls[p].ts) => Handled(r, p)'
  PROVE  Handled(r, p)'
  <1>1. Handled(r, p)
    BY DEF StrandInv
  <1>2. ASSUME NEW u \in Tasks, HasInHand(task[u], r, p, mem[r].polls[p].ts)
        PROVE  Handled(r, p)'
    <2>1. CASE u = t
      BY <1>2, <2>1
    <2>2. CASE u # t
      <3>1. HasInHand(task'[u], r, p, mem'[r].polls[p].ts)
        BY <1>2, <2>2
      <3>. QED
        BY <3>1 DEF Handled
    <2>. QED
      BY <2>1, <2>2
  <1>. QED
    BY <1>1, <1>2 DEF Handled

\* A step that leaves the registries as they are.
LEMMA Quietly ==
  ASSUME BaseInv, StrandInv, [Next]_vars, TypeOK',
         NEW t \in Tasks, NEW r \in Runtimes, NEW p \in Polls, NEW j \in Job \cup {None},
         UNCHANGED <<disk, mem, phase, stopping>>, OtherWork(r, p),
         task' = [task EXCEPT ![t] = j],
         task[t] # None => Rt(t) = r /\ Poll(t) = p,
         j # None => /\ j.rt = r /\ j.poll = p
                     /\ JobOK(j, mem[r].polls[p])
                     /\ j.at \in {"commit", "recover"} => ~Untouched(p),
         timer'[r][p] # None =>
           \/ timer'[r][p] = timer[r][p]
           \/ /\ Late(timer'[r][p].ts, ~timer'[r][p].retry, mem[r].polls[p])
              /\ ~Untouched(p),
         Serves(r) /\ Open(mem[r].polls[p], disk, p) => Handled(r, p)'
  PROVE  StrandInv'
  <1>1. task'[t] = j /\ \A u \in Tasks : u # t => task'[u] = task[u]
    BY DEF BaseInv, TypeOK
  <1>2. Frame(t, r, p)
    BY <1>1 DEF Frame, OtherWork
  <1>3. timer'[r][p] # None =>
          Late(timer'[r][p].ts, ~timer'[r][p].retry, mem'[r].polls[p]) /\ ~Untouched(p)
    BY DEF StrandInv, TimersInv
  <1>4. task'[t] # None =>
          /\ Rt(t)' = r /\ Poll(t)' = p
          /\ JobOK(task'[t], mem'[r].polls[p])
          /\ task'[t].at \in {"commit", "recover"} => ~Untouched(p)
    BY <1>1 DEF Rt, Poll
  <1>5. Effect(t, r, p)
    BY <1>3, <1>4 DEF Effect
  <1>. QED
    BY <1>2, <1>5, Locally

\* Steps of tasks that change no registry.
LEMMA StrandQuiet ==
  ASSUME BaseInv, StrandInv, [Next]_vars, TypeOK', NEW t \in Tasks, QuietStep(t)
  PROVE  StrandInv'
  <1>. USE DEF BaseInv
  <1>1. UNCHANGED <<disk, mem, phase, stopping>>
    BY Quiet DEF fileVars, runtimeVars
  <1>2. ASSUME NEW r \in Runtimes, NEW p \in Polls, UNCHANGED workVars
        PROVE  /\ OtherWork(r, p)
               /\ timer'[r][p] = timer[r][p]
               /\ p \in spent[r] => p \in spent'[r]
    BY <1>2 DEF OtherWork, workVars
  <1>3. ASSUME NEW r \in Runtimes, NEW p \in Polls,
               Register(t, r, p) \/ Vote(t, r, p)
        PROVE  StrandInv'
    <2>1. PICK a \in {"register", "vote"} :
            /\ task[t] = None
            /\ task' = [task EXCEPT ![t] = [at |-> a, rt |-> r, poll |-> p, ts |-> 0]]
            /\ UNCHANGED workVars
      BY <1>3 DEF Register, Vote
    <2>. DEFINE j == [at |-> a, rt |-> r, poll |-> p, ts |-> 0]
    <2>2. j \in Job
      BY Numbers DEF Job, Waiting
    <2>3. j.rt = r /\ j.poll = p /\ j.at \notin {"commit", "recover"}
          /\ JobOK(j, mem[r].polls[p])
      BY DEF JobOK, Writing
    <2>. HIDE DEF j
    <2>4. /\ OtherWork(r, p) /\ timer'[r][p] = timer[r][p]
          /\ p \in spent[r] => p \in spent'[r]
      BY <1>2, <2>1
    <2>5. task' = [task EXCEPT ![t] = j]
      BY <2>1 DEF j
    <2>6. \A u \in Tasks : u # t => task'[u] = task[u]
      BY <2>5 DEF TypeOK
    <2>7. Serves(r) /\ Open(mem[r].polls[p], disk, p) => Handled(r, p)'
      BY <1>1, <2>1, <2>4, <2>6, StillHandled DEF HasInHand
    <2>. QED
      BY <1>1, <2>1, <2>2, <2>3, <2>4, <2>5, <2>7, Quietly
  <1>4. ASSUME NEW r \in Runtimes, NEW p \in Polls, Fire(r, p, t)
        PROVE  StrandInv'
    <2>. DEFINE x == timer[r][p]
                a == IF x.retry THEN "recover" ELSE "commit"
                j == [at |-> a, rt |-> r, poll |-> p, ts |-> x.ts]
    <2>1. /\ task' = [task EXCEPT ![t] = j] /\ task[t] = None /\ x # None
          /\ timer' = [timer EXCEPT ![r][p] = None]
          /\ UNCHANGED <<recovery, spent>>
      BY <1>4 DEF Fire
    <2>2. x \in Timer /\ x.ts \in Votes /\ x.retry \in BOOLEAN
      BY <2>1 DEF TypeOK, Timer
    <2>3. /\ Late(x.ts, ~x.retry, mem[r].polls[p])
          /\ ~Untouched(p)
      BY <2>1 DEF StrandInv, TimersInv
    <2>4. [timer EXCEPT ![r][p] = None][r][p] = None
      BY WorkTypes
    <2>5. OtherWork(r, p)
      BY <2>1, OneTimer
    <2>. HIDE DEF x
    <2>6. a \in {"recover", "commit"} /\ (a = "commit" <=> ~x.retry)
      BY <2>2
    <2>. HIDE DEF a
    <2>7. j \in Job /\ j # None /\ j.rt = r /\ j.poll = p /\ j.at = a /\ j.ts = x.ts
      BY <2>2, <2>6, Nothing DEF Job, Waiting
    <2>. HIDE DEF j
    <2>8. JobOK(j, mem[r].polls[p])
      <3>1. Late(j.ts, j.at = "commit", mem[r].polls[p])
        <4>1. CASE x.retry
          BY <2>3, <2>6, <2>7, <4>1 DEF Late
        <4>2. CASE ~x.retry
          BY <2>3, <2>6, <2>7, <4>2 DEF Late
        <4>. QED
          BY <4>1, <4>2
      <3>. QED
        BY <2>6, <2>7, <3>1 DEF JobOK, Writing
    <2>9. task'[t] = j /\ \A u \in Tasks : u # t => task'[u] = task[u]
      BY <2>1 DEF TypeOK
    <2>10. ASSUME Serves(r), Open(mem[r].polls[p], disk, p)
           PROVE  Handled(r, p)'
      <3>1. Handled(r, p)
        BY <2>10 DEF StrandInv
      <3>2. ASSUME x.ts = mem[r].polls[p].ts
            PROVE  Handled(r, p)'
        <4>1. HasInHand(task'[t], r, p, mem'[r].polls[p].ts)
          BY <1>1, <2>6, <2>7, <2>9, <3>2 DEF HasInHand
        <4>. QED
          BY <4>1 DEF Handled
      <3>3. ASSUME NEW u \in Tasks, HasInHand(task[u], r, p, mem[r].polls[p].ts)
            PROVE  Handled(r, p)'
        <4>1. u # t
          BY <2>1, <3>3 DEF HasInHand
        <4>2. HasInHand(task'[u], r, p, mem'[r].polls[p].ts)
          BY <1>1, <2>9, <3>3, <4>1
        <4>. QED
          BY <4>2 DEF Handled
      <3>4. p \in spent[r] => Handled(r, p)'
        BY <2>1 DEF Handled
      <3>. QED
        BY <3>1, <3>2, <3>3, <3>4 DEF Handled, x
    <2>11. timer'[r][p] = None
      BY <2>1, <2>4
    <2>. QED
      BY <1>1, <2>1, <2>3, <2>5, <2>7, <2>8, <2>10, <2>11, Quietly
  <1>5. ASSUME task[t] # None
        PROVE  /\ Rt(t) \in Runtimes /\ Poll(t) \in Polls /\ Entry(t) \in Pending \cup {None}
               /\ Entry(t) = mem[Rt(t)].polls[Poll(t)] /\ phase[Rt(t)] = "up"
               /\ task[t].ts \in Votes
               /\ JobOK(task[t], Entry(t))
               /\ task[t].at \in {"commit", "recover"} => ~Untouched(Poll(t))
    BY <1>5, JobFields DEF LockInv, StrandInv, JobsInv, Entry, Here
  <1>6. CASE Rejected(t) \/ Abandoned(t) \/ Moot(t)
    <2>1. /\ task[t] # None
          /\ task' = [task EXCEPT ![t] = None]
          /\ UNCHANGED workVars
          /\ \/ task[t].at \in {"register", "vote"}
             \/ task[t].at = "commit" /\ ~Settleable(t)
             \/ task[t].at = "recover" /\ ~(Rt(t) \notin stopping /\ Current(t))
      BY <1>6 DEF Rejected, Abandoned, Moot, Finish, At
    <2>2. PICK r \in Runtimes, p \in Polls : r = Rt(t) /\ p = Poll(t)
      BY <1>5, <2>1
    <2>3. /\ OtherWork(r, p) /\ timer'[r][p] = timer[r][p]
          /\ p \in spent[r] => p \in spent'[r]
      BY <1>2, <2>1
    <2>4. \A u \in Tasks : u # t => task'[u] = task[u]
      BY <2>1 DEF TypeOK
    <2>5. ASSUME Serves(r), Open(mem[r].polls[p], disk, p)
          PROVE  ~HasInHand(task[t], r, p, mem[r].polls[p].ts)
      <3>1. SUFFICES ASSUME HasInHand(task[t], r, p, mem[r].polls[p].ts)
                     PROVE  FALSE
        OBVIOUS
      <3>2. task[t].at \in {"commit", "recover"}
        BY <2>1, <3>1 DEF HasInHand, Writing
      <3>3. Current(t) /\ r \notin stopping /\ owner = r
        BY <1>5, <2>1, <2>2, <2>5, <3>1 DEF Current, HasInHand, Open, Serves, SlotInv
      <3>4. task[t].at = "commit" /\ ~Entry(t).chosen
        BY <2>1, <2>2, <3>2, <3>3 DEF Settleable, Fenced
      <3>. QED
        BY <1>5, <2>1, <3>3, <3>4 DEF JobOK, Late, Current
    <2>6. Serves(r) /\ Open(mem[r].polls[p], disk, p) => Handled(r, p)'
      BY <1>1, <2>3, <2>4, <2>5, StillHandled
    <2>. QED
      BY <1>1, <2>1, <2>2, <2>3, <2>6, Quietly
  <1>7. CASE RetryCommit(t)
    <2>1. /\ task[t] # None /\ task[t].at = "recover" /\ Goto(t, "commit")
          /\ Entry(t) # None /\ Entry(t).ts = task[t].ts /\ Entry(t).chosen
          /\ UNCHANGED workVars
      BY <1>7 DEF RetryCommit, Current, At
    <2>2. PICK r \in Runtimes, p \in Polls : r = Rt(t) /\ p = Poll(t)
      BY <1>5, <2>1
    <2>3. "commit" \in Waiting \cup Writing \cup {"publish"}
      BY DEF Waiting
    <2>4. PICK j \in Job : /\ task' = [task EXCEPT ![t] = j]
                         /\ j = [at |-> "commit", rt |-> Rt(t), poll |-> Poll(t),
                                 ts |-> task[t].ts]
      BY <1>5, <2>1, <2>3, Goes
    <2>5. j.at = "commit" /\ j.rt = r /\ j.poll = p /\ j.ts = task[t].ts /\ j # None
      BY <2>2, <2>4, Nothing
    <2>6. JobOK(j, mem[r].polls[p]) /\ ~Untouched(p)
      <3>1. task[t].ts <= Entry(t).ts
        BY <1>5, <2>1 DEF JobOK, Late
      <3>. QED
        BY <1>5, <2>1, <2>2, <2>5, <3>1 DEF JobOK, Late, Writing
    <2>7. /\ OtherWork(r, p) /\ timer'[r][p] = timer[r][p]
          /\ p \in spent[r] => p \in spent'[r]
      BY <1>2, <2>1
    <2>8. task'[t] = j /\ \A u \in Tasks : u # t => task'[u] = task[u]
      BY <2>4 DEF TypeOK
    <2>9. HasInHand(task'[t], r, p, mem'[r].polls[p].ts)
      BY <1>1, <1>5, <2>1, <2>2, <2>5, <2>8 DEF HasInHand
    <2>10. Handled(r, p)'
      BY <2>9 DEF Handled
    <2>. QED
      BY <1>1, <2>2, <2>4, <2>5, <2>6, <2>7, <2>10, Quietly
  <1>8. CASE CommitLater(t) \/ CommitUnbuilt(t)
    <2>1. /\ task[t] # None /\ task[t].at = "commit"
          /\ task' = [task EXCEPT ![t] = None]
          /\ Entry(t) # None /\ Entry(t).ts = task[t].ts /\ Entry(t).chosen
          /\ Rt(t) \notin stopping
      BY <1>8 DEF CommitLater, CommitUnbuilt, Settling, Settleable, Current, Fenced, Finish, At
    <2>2. PICK r \in Runtimes, p \in Polls : r = Rt(t) /\ p = Poll(t)
      BY <1>5, <2>1
    <2>3. PICK e \in Pending : e = Entry(t) /\ e = mem[r].polls[p]
      BY <1>5, <2>1, <2>2
    <2>4. e.ts = task[t].ts /\ e.chosen /\ e.ts \in Votes /\ e.ts <= e.ts
      <3>1. e.ts \in Votes /\ e.ts \in Nat
        BY Numbers DEF Pending
      <3>. QED
        BY <2>1, <2>3, <3>1
    <2>5. /\ OtherWork(r, p)
          /\ \/ timer' = timer /\ p \in spent'[r]
             \/ timer'[r][p] # None /\ timer'[r][p].ts = e.ts
      <3>1. CASE CommitLater(t)
        <4>1. timer' = Scheduled(r, p, e, FALSE) /\ UNCHANGED spent
          BY <2>2, <2>3, <3>1 DEF CommitLater
        <4>. QED
          BY <2>1, <2>2, <4>1, ScheduledEffect
      <3>2. CASE CommitUnbuilt(t)
        <4>1. ScheduleRecovery(r, p, e.ts, e)
          BY <2>2, <2>3, <2>4, <3>2 DEF CommitUnbuilt
        <4>. QED
          BY <2>1, <2>2, <2>4, <4>1, RetryEffect
      <3>. QED
        BY <1>8, <3>1, <3>2
    <2>6. timer'[r][p] # None =>
            \/ timer'[r][p] = timer[r][p]
            \/ /\ Late(timer'[r][p].ts, ~timer'[r][p].retry, mem[r].polls[p])
               /\ ~Untouched(p)
      BY <1>5, <2>1, <2>2, <2>3, <2>4, <2>5 DEF Late
    <2>7. Handled(r, p)'
      BY <1>1, <2>3, <2>5 DEF Handled
    <2>. QED
      BY <1>1, <2>1, <2>2, <2>5, <2>6, <2>7, Quietly
  <1>. QED
    BY <1>3, <1>4, <1>6, <1>7, <1>8 DEF QuietStep

\* A write begins: the task has its poll in hand from now on.
LEMMA StrandBegin ==
  ASSUME BaseInv, StrandInv, [Next]_vars, TypeOK', NEW t \in Tasks, BeginStep(t)
  PROVE  StrandInv'
  <1>. USE DEF BaseInv
  <1>1. /\ task[t] # None
        /\ Rt(t) \in Runtimes /\ Poll(t) \in Polls
        /\ lock[Rt(t)] = None
        /\ UNCHANGED <<disk, runtimeVars>>
    BY BeginsSave
  <1>2. PICK r \in Runtimes, p \in Polls : r = Rt(t) /\ p = Poll(t)
    BY <1>1
  <1>3. /\ mem[r] \in Registry /\ Here(t) = mem[r] /\ Entry(t) = mem[r].polls[p]
        /\ mem[r].polls[p] \in Pending \cup {None}
        /\ task[t] \in Job /\ task[t].ts \in Votes
        /\ JobOK(task[t], mem[r].polls[p])
    BY <1>1, <1>2, JobFields DEF Here, Entry, StrandInv, JobsInv
  <1>4. UNCHANGED <<disk, phase, stopping>>
    BY <1>1 DEF runtimeVars
  <1>5. ASSUME NEW j \in Job, task' = [task EXCEPT ![t] = j], j.rt = r, j.poll = p,
               j.at \in Writing, JobOK(j, mem'[r].polls[p]),
               OtherWork(r, p),
               timer'[r][p] # None =>
                 Late(timer'[r][p].ts, ~timer'[r][p].retry, mem'[r].polls[p])
                 /\ ~Untouched(p),
               \A q \in Runtimes, k \in Polls : ~(q = r /\ k = p) =>
                 mem'[q].polls[k] = mem[q].polls[k],
               \/ mem'[r].polls[p] = mem[r].polls[p]
               \/ mem[r].polls[p] # None /\ mem'[r].polls[p].ts > mem[r].polls[p].ts
               \/ Untouched(p)
        PROVE  StrandInv'
    <2>1. /\ task'[t] = j /\ \A u \in Tasks : u # t => task'[u] = task[u]
          /\ j # None
      BY <1>5, Nothing DEF TypeOK
    <2>2. Frame(t, r, p)
      BY <1>1, <1>2, <1>4, <1>5, <2>1 DEF Frame, OtherWork
    <2>3. Rt(t)' = r /\ Poll(t)' = p /\ task'[t].at \notin {"commit", "recover"}
      BY <1>5, <2>1 DEF Rt, Poll, Writing
    <2>4. HasInHand(task'[t], r, p, mem'[r].polls[p].ts)
      BY <1>5, <2>1 DEF HasInHand, JobOK
    <2>5. Handled(r, p)'
      BY <2>4 DEF Handled
    <2>6. Effect(t, r, p)
      BY <1>5, <2>1, <2>3, <2>5 DEF Effect
    <2>. QED
      BY <2>2, <2>6, Locally
  <1>6. ASSUME UNCHANGED workVars
        PROVE  OtherWork(r, p) /\ timer'[r][p] = timer[r][p]
    BY <1>6 DEF OtherWork, workVars
  <1>7. timer[r][p] # None =>
          Late(timer[r][p].ts, ~timer[r][p].retry, mem[r].polls[p]) /\ ~Untouched(p)
    BY DEF StrandInv, TimersInv
  <1>8. ASSUME NEW e \in Pending, mem' = [mem EXCEPT ![r] = With(mem[r], p, e)]
        PROVE  /\ mem'[r].polls[p] = e
               /\ \A q \in Runtimes, k \in Polls : ~(q = r /\ k = p) =>
                    mem'[q].polls[k] = mem[q].polls[k]
    <2>1. \A k \in Polls : With(mem[r], p, e).polls[k] = IF k = p THEN e ELSE mem[r].polls[k]
      <3>1. PICK m \in Registry, x \in Pending \cup {None} : m = mem[r] /\ x = e
        BY <1>3
      <3>2. \A k \in Polls : With(m, p, x).polls[k] = IF k = p THEN x ELSE m.polls[k]
        BY WithFields
      <3>. QED
        BY <3>1, <3>2
    <2>2. /\ mem'[r] = With(mem[r], p, e)
          /\ \A q \in Runtimes : q # r => mem'[q] = mem[q]
      BY <1>8 DEF TypeOK
    <2>. QED
      BY <2>1, <2>2
  <1>9. \A a \in Writing : a \in Waiting \cup Writing \cup {"publish"}
    OBVIOUS
  <1>10. CASE BeginRegister(t)
    <2>1. Unvoted \in Pending /\ Unvoted.ts = 0 /\ ~Unvoted.chosen
      BY Numbers DEF Unvoted, Pending
    <2>2. [mem[r] EXCEPT !.polls[p] = Unvoted] = With(mem[r], p, Unvoted)
      BY <1>3, <2>1, WithFields
    <2>3. /\ task[t].at = "register" /\ Goto(t, "registering")
          /\ UNCHANGED workVars
          /\ mem' = [mem EXCEPT ![r] = With(mem[r], p, Unvoted)]
      BY <1>2, <1>3, <1>10, <2>2 DEF BeginRegister, At
    <2>4. "registering" \in Writing
      BY DEF Writing
    <2>5. PICK j \in Job : /\ task' = [task EXCEPT ![t] = j]
                         /\ j = [at |-> "registering", rt |-> Rt(t), poll |-> Poll(t),
                                 ts |-> task[t].ts]
      BY <1>1, <1>3, <1>9, <2>3, <2>4, Goes
    <2>6. j.at = "registering" /\ j.rt = r /\ j.poll = p /\ j.ts = 0
      BY <1>2, <1>3, <2>3, <2>5 DEF JobOK
    <2>7. Untouched(p)
      BY <1>1, <1>2, <2>3 DEF Untouched, At
    <2>8. /\ mem'[r].polls[p] = Unvoted
          /\ \A q \in Runtimes, k \in Polls : ~(q = r /\ k = p) =>
               mem'[q].polls[k] = mem[q].polls[k]
      BY <1>8, <2>1, <2>3
    <2>9. JobOK(j, mem'[r].polls[p])
      BY <2>1, <2>6, <2>8, Nothing DEF JobOK, Writing
    <2>10. timer'[r][p] = None /\ OtherWork(r, p)
      BY <1>6, <1>7, <2>3, <2>7
    <2>. QED
      BY <1>5, <2>4, <2>5, <2>6, <2>7, <2>8, <2>9, <2>10
  <1>11. CASE \E ts \in 1 .. MaxVote, chosen \in BOOLEAN : BeginVote(t, ts, chosen)
    <2>1. PICK ts \in 1 .. MaxVote, chosen \in BOOLEAN : BeginVote(t, ts, chosen)
      BY <1>11
    <2>. DEFINE e == [ts |-> ts, chosen |-> chosen,
                      due |-> IF chosen THEN now + SettleTime ELSE 0]
    <2>2. ts \in Votes /\ now \in 0 .. MaxTime
      BY Numbers DEF Votes, TypeOK
    <2>3. (IF chosen THEN now + SettleTime ELSE 0) \in 0 .. MaxTime + SettleTime
      BY <2>2, Numbers
    <2>4. e \in Pending /\ e.ts = ts
      BY <2>2, <2>3 DEF Pending
    <2>5. /\ task[t].at = "vote"
          /\ mem[r].polls[p] # None /\ ts > mem[r].polls[p].ts
          /\ mem' = [mem EXCEPT ![r] = [mem[r] EXCEPT !.polls[p] = e]]
          /\ task' = [task EXCEPT ![t].at = "voting", ![t].ts = ts]
          /\ CancelWork(r, p)
      BY <1>2, <1>3, <2>1 DEF BeginVote, At, Acceptable, Newer
    <2>. HIDE DEF e
    <2>6. [mem[r] EXCEPT !.polls[p] = e] = With(mem[r], p, e)
      BY <1>3, <2>4, WithFields
    <2>7. /\ mem'[r].polls[p] = e
          /\ \A q \in Runtimes, k \in Polls : ~(q = r /\ k = p) =>
               mem'[q].polls[k] = mem[q].polls[k]
      BY <1>8, <2>4, <2>5, <2>6
    <2>8. "voting" \in Writing
      BY DEF Writing
    <2>9. PICK j \in Job : /\ task' = [task EXCEPT ![t] = j]
                         /\ j = [at |-> "voting", rt |-> r, poll |-> p, ts |-> ts]
      BY <1>1, <1>2, <1>9, <2>2, <2>5, <2>8, Goes
    <2>10. j.at = "voting" /\ j.rt = r /\ j.poll = p /\ j.ts = ts
      BY <2>9
    <2>11. JobOK(j, mem'[r].polls[p])
      BY <2>4, <2>7, <2>10, Nothing DEF JobOK, Writing
    <2>12. timer'[r][p] = None /\ OtherWork(r, p)
      BY <2>5, CancelEffect
    <2>. QED
      BY <1>5, <2>4, <2>5, <2>7, <2>8, <2>9, <2>10, <2>11, <2>12
  <1>12. CASE BeginRewrite(t) \/ BeginCommit(t)
    <2>1. PICK a \in {"rewriting", "committing"} :
            /\ Goto(t, a)
            /\ mem[r].polls[p] # None /\ mem[r].polls[p].ts = task[t].ts
            /\ a = "rewriting" => ~mem[r].polls[p].chosen
            /\ mem' = mem /\ UNCHANGED workVars
      BY <1>2, <1>3, <1>12 DEF BeginRewrite, BeginCommit, Settling, Settleable, Current
    <2>2. a \in Writing
      BY DEF Writing
    <2>3. PICK j \in Job : /\ task' = [task EXCEPT ![t] = j]
                         /\ j = [at |-> a, rt |-> Rt(t), poll |-> Poll(t), ts |-> task[t].ts]
      BY <1>1, <1>3, <1>9, <2>1, <2>2, Goes
    <2>4. j.at = a /\ j.rt = r /\ j.poll = p /\ j.ts = task[t].ts
      BY <1>2, <2>3
    <2>5. JobOK(j, mem'[r].polls[p])
      BY <2>1, <2>4 DEF JobOK, Writing
    <2>6. timer'[r][p] = timer[r][p] /\ OtherWork(r, p)
      BY <1>6, <2>1
    <2>. QED
      BY <1>5, <1>7, <2>1, <2>2, <2>3, <2>4, <2>5, <2>6
  <1>. QED
    BY <1>10, <1>11, <1>12 DEF BeginStep

\* A write ends: the poll was saved, is retried, has its settle timer, or is gone.
LEMMA StrandEnd ==
  ASSUME BaseInv, DataInv, StrandInv, [Next]_vars, TypeOK', NEW t \in Tasks, EndStep(t)
  PROVE  StrandInv'
  <1>. USE DEF BaseInv
  <1>1. /\ task[t] # None /\ task[t].at \in Writing
        /\ Rt(t) \in Runtimes /\ Poll(t) \in Polls
        /\ lock[Rt(t)] = t /\ owner = Rt(t) /\ phase[Rt(t)] = "up"
        /\ snap[Rt(t)] \in Registry /\ Entry(t) \in Pending
        /\ UNCHANGED runtimeVars
    BY EndsSave
  <1>2. PICK r \in Runtimes, p \in Polls, s \in Registry, e \in Pending :
          r = Rt(t) /\ p = Poll(t) /\ s = snap[r] /\ e = Entry(t)
    BY <1>1
  <1>3. /\ mem[r] \in Registry /\ Here(t) = mem[r] /\ e = mem[r].polls[p] /\ e # None
        /\ task[t] \in Job /\ e.ts \in Votes /\ e.ts <= e.ts
        /\ e.ts = task[t].ts
        /\ task[t].at \in {"registering", "rewriting"} => ~e.chosen
        /\ task[t].at = "registering" => task[t].ts = 0
    <2>1. /\ mem[r] \in Registry /\ Here(t) = mem[r] /\ e = mem[r].polls[p]
          /\ task[t] \in Job
      BY <1>1, <1>2, JobFields DEF Here, Entry
    <2>2. JobOK(task[t], e)
      BY <1>1, <1>2 DEF StrandInv, JobsInv
    <2>3. e.ts \in Votes /\ e.ts \in Nat
      BY Numbers DEF Pending
    <2>. QED
      BY <1>1, <2>1, <2>2, <2>3, Nothing DEF JobOK
  <1>4. ~Untouched(p)
    BY <1>1, <1>2, <1>3, EntryOK
  <1>5. /\ task[t].at # "committing" => s = mem[r]
        /\ task[t].at = "committing" => s.polls[p] = None
        /\ \A k \in Polls : k # p => s.polls[k] = mem[r].polls[k]
    <2>1. task[t].at # "committing" => s = mem[r]
      BY <1>1, <1>2, <1>3 DEF LockInv
    <2>2. task[t].at = "committing" => s = Consumed(mem[r], p)
      BY <1>1, <1>2, <1>3 DEF LockInv
    <2>3. \A k \in Polls : Consumed(mem[r], p).polls[k] = IF k = p THEN None ELSE mem[r].polls[k]
      BY <1>3, ConsumedFields
    <2>. QED
      BY <2>1, <2>2, <2>3
  <1>6. UNCHANGED <<phase, stopping>>
    BY <1>1 DEF runtimeVars
  <1>7. \/ /\ disk' = s /\ mem' = [mem EXCEPT ![r] = s]
        \/ /\ disk' \in {disk, s} /\ mem' = mem
    BY <1>2, EndsSave
  <1>8. ASSUME NEW q \in Runtimes, NEW k \in Polls, ~(q = r /\ k = p)
        PROVE  /\ mem'[q].polls[k] = mem[q].polls[k]
               /\ Serves(q) => disk'.polls[k] \in {disk.polls[k], mem[q].polls[k]}
    <2>1. Serves(q) => q = r
      BY <1>1, <1>2 DEF Serves, SlotInv
    <2>2. mem'[q] = mem[q] \/ (q = r /\ mem'[q] = s)
      BY <1>7 DEF TypeOK
    <2>3. disk' \in {disk, s}
      BY <1>7
    <2>. QED
      BY <1>5, <1>8, <2>1, <2>2, <2>3
  <1>9. ASSUME OtherWork(r, p), NEW j \in Job \cup {None}, task' = [task EXCEPT ![t] = j],
               j # None => j.at = "publish" /\ j.rt = r /\ j.poll = p,
               mem'[r].polls[p] \in {e, None},
               timer'[r][p] # None =>
                 Late(timer'[r][p].ts, ~timer'[r][p].retry, mem'[r].polls[p]),
               Serves(r) /\ Open(mem'[r].polls[p], disk', p) => Handled(r, p)'
        PROVE  StrandInv'
    <2>1. task'[t] = j /\ \A u \in Tasks : u # t => task'[u] = task[u]
      BY <1>9 DEF TypeOK
    <2>2. Frame(t, r, p)
      BY <1>1, <1>2, <1>3, <1>6, <1>8, <1>9, <2>1 DEF Frame, OtherWork
    <2>3. j # None => Rt(t)' = r /\ Poll(t)' = p /\ JobOK(task'[t], mem'[r].polls[p])
      BY <1>9, <2>1 DEF Rt, Poll, JobOK, Writing
    <2>4. Effect(t, r, p)
      BY <1>4, <1>9, <2>1, <2>3 DEF Effect
    <2>. QED
      BY <2>2, <2>4, Locally
  <1>10. timer[r][p] # None =>
           Late(timer[r][p].ts, ~timer[r][p].retry, mem[r].polls[p])
    BY DEF StrandInv, TimersInv
  <1>11. ASSUME Write(Rt(t), "failed"), Finish(t), UNCHANGED mem,
                ScheduleRecovery(r, p, e.ts, e)
         PROVE  StrandInv'
    <2>1. /\ OtherWork(r, p)
          /\ \/ timer' = timer /\ (r \in stopping \/ p \in spent'[r])
             \/ /\ timer'[r][p] # None
                /\ timer'[r][p].ts = e.ts /\ timer'[r][p].retry
      BY <1>3, <1>11, RetryEffect
    <2>2. mem'[r].polls[p] = e
      BY <1>3, <1>11
    <2>3. Serves(r) => Handled(r, p)'
      BY <2>1, <2>2 DEF Handled, Serves
    <2>4. timer'[r][p] # None =>
            Late(timer'[r][p].ts, ~timer'[r][p].retry, mem'[r].polls[p])
      BY <1>3, <1>10, <2>1, <2>2 DEF Late
    <2>. QED
      BY <1>9, <1>11, <2>1, <2>2, <2>3, <2>4 DEF Finish
  <1>12. ASSUME NEW result \in {"ok", "cancelled"}, Write(Rt(t), result), Finish(t),
                UNCHANGED mem, task[t].at # "committing", OtherWork(r, p),
                \/ timer' = timer /\ (e.chosen => ~Serves(r))
                \/ /\ timer'[r][p] # None /\ timer'[r][p].ts = e.ts /\ e.chosen
         PROVE  StrandInv'
    <2>1. disk'.polls[p] = e /\ mem'[r].polls[p] = e
      BY <1>2, <1>3, <1>5, <1>12 DEF Write
    <2>2. Serves(r) /\ Open(mem'[r].polls[p], disk', p) => Handled(r, p)'
      BY <1>12, <2>1 DEF Open, Handled
    <2>3. timer'[r][p] # None =>
            Late(timer'[r][p].ts, ~timer'[r][p].retry, mem'[r].polls[p])
      BY <1>3, <1>10, <1>12, <2>1 DEF Late
    <2>. QED
      BY <1>9, <1>12, <2>1, <2>2, <2>3 DEF Finish
  <1>13. ASSUME UNCHANGED <<timer, spent>>
         PROVE  OtherWork(r, p)
    BY <1>13 DEF OtherWork
  <1>14. CASE Registered(t)
    <2>1. task[t].at = "registering" /\ Finish(t) /\ UNCHANGED mem
      BY <1>14 DEF Registered, At
    <2>2. CASE \E result \in {"ok", "cancelled"} :
                 Write(Rt(t), result) /\ UNCHANGED workVars
      BY <1>3, <1>12, <1>13, <2>1, <2>2 DEF workVars
    <2>3. CASE Write(Rt(t), "failed") /\ ScheduleRecovery(Rt(t), Poll(t), 0, Entry(t))
      BY <1>2, <1>3, <1>11, <2>1, <2>3
    <2>. QED
      BY <1>14, <2>2, <2>3 DEF Registered
  <1>15. CASE Rewritten(t)
    <2>1. task[t].at = "rewriting" /\ Finish(t) /\ UNCHANGED mem
      BY <1>15 DEF Rewritten, At
    <2>2. CASE \E result \in {"ok", "cancelled"} :
                 Write(Rt(t), result) /\ UNCHANGED <<timer, spent>>
      BY <1>3, <1>12, <1>13, <2>1, <2>2
    <2>3. CASE /\ Write(Rt(t), "failed")
               /\ ScheduleRecovery(Rt(t), Poll(t), task[t].ts, Entry(t))
      BY <1>2, <1>3, <1>11, <2>1, <2>3
    <2>. QED
      BY <1>15, <2>2, <2>3 DEF Rewritten
  <1>16. CASE VoteSaved(t)
    <2>1. task[t].at = "voting" /\ Finish(t) /\ UNCHANGED mem
      BY <1>16 DEF VoteSaved, At
    <2>2. CASE /\ \E result \in {"ok", "cancelled"} : Write(Rt(t), result)
               /\ timer' = IF Entry(t).chosen
                           THEN Scheduled(Rt(t), Poll(t), Entry(t), FALSE) ELSE timer
               /\ UNCHANGED <<recovery, spent>>
      <3>1. CASE e.chosen
        <4>1. timer' = Scheduled(r, p, e, FALSE) /\ UNCHANGED spent
          BY <1>2, <2>2, <3>1
        <4>2. /\ OtherWork(r, p)
              /\ \/ timer' = timer /\ r \in stopping
                 \/ /\ timer'[r][p] # None
                    /\ timer'[r][p].ts = e.ts /\ ~timer'[r][p].retry
          BY <4>1, ScheduledEffect
        <4>. QED
          BY <1>12, <2>1, <2>2, <3>1, <4>2 DEF Serves
      <3>2. CASE ~e.chosen
        BY <1>2, <1>12, <1>13, <2>1, <2>2, <3>2
      <3>. QED
        BY <3>1, <3>2
    <2>3. CASE /\ Write(Rt(t), "failed")
               /\ ScheduleRecovery(Rt(t), Poll(t), task[t].ts, Entry(t))
      BY <1>2, <1>3, <1>11, <2>1, <2>3
    <2>. QED
      BY <1>16, <2>2, <2>3 DEF VoteSaved
  <1>17. CASE CommitSaved(t)
    <2>1. task[t].at = "committing"
      BY <1>17 DEF CommitSaved, At
    <2>2. CASE /\ Write(Rt(t), "failed") /\ Finish(t) /\ UNCHANGED mem
               /\ ScheduleRecovery(Rt(t), Poll(t), task[t].ts, Entry(t))
      BY <1>2, <1>3, <1>11, <2>2
    <2>3. CASE /\ Goto(t, "publish") \/ Finish(t)
               /\ mem' = [mem EXCEPT ![Rt(t)] = snap[Rt(t)]]
               /\ CancelWork(Rt(t), Poll(t))
      <3>1. OtherWork(r, p) /\ timer'[r][p] = None
        BY <1>2, <2>3, CancelEffect
      <3>2. mem'[r].polls[p] = None
        BY <1>2, <1>5, <2>1, <2>3 DEF TypeOK
      <3>3. \E j \in Job \cup {None} :
              /\ task' = [task EXCEPT ![t] = j]
              /\ j # None => j.at = "publish" /\ j.rt = r /\ j.poll = p
        <4>1. CASE Finish(t)
          BY <4>1 DEF Finish
        <4>2. CASE Goto(t, "publish")
          <5>1. PICK j \in Job : /\ task' = [task EXCEPT ![t] = j]
                               /\ j = [at |-> "publish", rt |-> Rt(t), poll |-> Poll(t),
                                       ts |-> task[t].ts]
            BY <1>1, <1>3, <4>2, Goes
          <5>2. j.at = "publish" /\ j.rt = r /\ j.poll = p
            BY <1>2, <5>1
          <5>. QED
            BY <5>1, <5>2
        <4>. QED
          BY <2>3, <4>1, <4>2
      <3>4. ~Open(mem'[r].polls[p], disk', p)
        BY <3>2 DEF Open
      <3>. QED
        BY <1>9, <3>1, <3>2, <3>3, <3>4
    <2>. QED
      BY <1>17, <2>2, <2>3 DEF CommitSaved
  <1>. QED
    BY <1>14, <1>15, <1>16, <1>17 DEF EndStep

\* A publication, the clock, and a step that changes nothing leave all work as it is.
LEMMA StrandStill ==
  ASSUME BaseInv, StrandInv, [Next]_vars, TypeOK',
         (\E t \in Tasks : Publish(t)) \/ Tick \/ UNCHANGED vars
  PROVE  StrandInv'
  <1>1. CASE \E t \in Tasks : Publish(t)
    <2>1. PICK t \in Tasks : Publish(t)
      BY <1>1
    <2>2. /\ task[t] # None /\ task[t].at = "publish"
          /\ Rt(t) \in Runtimes /\ Poll(t) \in Polls
          /\ task' = [task EXCEPT ![t] = None]
          /\ UNCHANGED <<disk, mem, runtimeVars, workVars>>
      BY <2>1, Publishes
    <2>3. PICK r \in Runtimes, p \in Polls : r = Rt(t) /\ p = Poll(t)
      BY <2>2
    <2>4. /\ UNCHANGED <<disk, mem, phase, stopping>>
          /\ OtherWork(r, p)
          /\ timer'[r][p] = timer[r][p]
          /\ p \in spent[r] => p \in spent'[r]
      BY <2>2 DEF runtimeVars, workVars, OtherWork
    <2>5. ~HasInHand(task[t], r, p, mem[r].polls[p].ts)
      BY <2>2 DEF HasInHand, Writing
    <2>6. \A u \in Tasks : u # t => task'[u] = task[u]
      BY <2>2 DEF BaseInv, TypeOK
    <2>7. Serves(r) /\ Open(mem[r].polls[p], disk, p) => Handled(r, p)'
      BY <2>4, <2>5, <2>6, StillHandled
    <2>. QED
      BY <2>2, <2>3, <2>4, <2>7, Quietly
  <1>2. CASE Tick \/ UNCHANGED vars
    <2>1. UNCHANGED <<disk, mem, phase, stopping, timer, spent, task, registered>>
      BY <1>2 DEF Tick, vars, fileVars, runtimeVars, workVars, historyVars, envVars
    <2>2. JobsInv'
      BY <2>1 DEF StrandInv, JobsInv, Entry, Here, Rt, Poll, Untouched, At
    <2>3. TimersInv'
      BY <2>1 DEF StrandInv, TimersInv, Untouched, At, Poll
    <2>. QED
      BY <2>1, <2>2, <2>3 DEF StrandInv, Serves, Handled
  <1>. QED
    BY <1>1, <1>2

\* What a setup or a stop drops is not served any more.
LEMMA StrandSlot ==
  ASSUME BaseInv, StrandInv, NEW r \in Runtimes, SlotStep(r)
  PROVE  StrandInv'
  <1>. USE DEF BaseInv
  <1>1. UNCHANGED <<disk, mem, task, spent, registered>>
    BY DEF SlotStep, EnterSlot, Stop, FencePrevious, TakeOver, LoadFails, CancelStart,
       Fence, fileVars, workVars, envVars
  <1>2. /\ stopping \subseteq stopping'
        /\ \A q \in Runtimes, k \in Polls :
             \/ timer'[q][k] = timer[q][k]
             \/ timer'[q][k] = None /\ q \in stopping'
    <2>1. ASSUME NEW x \in Runtimes, Fence(x)
          PROVE  /\ stopping \subseteq stopping'
                 /\ \A q \in Runtimes, k \in Polls :
                      \/ timer'[q][k] = timer[q][k]
                      \/ timer'[q][k] = None /\ q \in stopping'
      <3>. DEFINE f == [k \in Polls |-> None]
      <3>1. timer' = [timer EXCEPT ![x] = f] /\ stopping' = stopping \cup {x}
        BY <2>1 DEF Fence
      <3>2. f \in [Polls -> Timer \cup {None}] /\ \A k \in Polls : f[k] = None
        OBVIOUS
      <3>. HIDE DEF f
      <3>3. \A q \in Runtimes, k \in Polls :
              [timer EXCEPT ![x] = f][q][k] = IF q = x THEN f[k] ELSE timer[q][k]
        BY <3>2, TimersOf
      <3>. QED
        BY <3>1, <3>2, <3>3
    <2>2. CASE EnterSlot(r) \/ TakeOver(r) \/ CancelStart(r)
      BY <2>2 DEF EnterSlot, TakeOver, CancelStart, workVars
    <2>3. CASE Stop(r) \/ LoadFails(r)
      BY <2>1, <2>3 DEF Stop, LoadFails
    <2>4. CASE FencePrevious(r)
      <3>1. owner \in Runtimes /\ Fence(owner)
        BY <2>4 DEF FencePrevious, TypeOK
      <3>. QED
        BY <2>1, <3>1
    <2>. QED
      BY <2>2, <2>3, <2>4 DEF SlotStep
  <1>3. \A q \in Runtimes : phase'[q] = "up" => phase[q] = "up"
    <2>1. phase' = phase \/ \E x \in Phases \ {"up"} : phase' = [phase EXCEPT ![r] = x]
      BY DEF SlotStep, EnterSlot, Stop, FencePrevious, TakeOver, LoadFails,
         CancelStart, LeaveStart, Phases
    <2>. QED
      BY <2>1 DEF TypeOK
  <1>4. JobsInv'
    BY <1>1 DEF StrandInv, JobsInv, Entry, Here, Rt, Poll, Untouched, At
  <1>5. TimersInv'
    BY <1>1, <1>2 DEF StrandInv, TimersInv, Untouched, At, Poll
  <1>6. ASSUME NEW q \in Runtimes, NEW k \in Polls,
               Serves(q)', Open(mem[q].polls[k], disk, k)'
        PROVE  Handled(q, k)'
    <2>1. Serves(q) /\ timer'[q][k] = timer[q][k]
      BY <1>2, <1>3, <1>6 DEF Serves
    <2>2. Open(mem[q].polls[k], disk, k)
      BY <1>1, <1>6
    <2>3. Handled(q, k)
      BY <2>1, <2>2 DEF StrandInv
    <2>. QED
      BY <1>1, <2>1, <2>3 DEF Handled
  <1>. QED
    BY <1>4, <1>5, <1>6 DEF StrandInv

\* A runtime starts with the file, and with a timer for every choice in it.
LEMMA StrandLoad ==
  ASSUME BaseInv, DataInv, StrandInv, [Next]_vars, NEW r \in Runtimes, Load(r)
  PROVE  StrandInv'
  <1>. USE DEF BaseInv
  <1>1. /\ phase[r] = "load" /\ owner = r
        /\ mem' = [mem EXCEPT ![r] = disk]
        /\ UNCHANGED <<disk, stopping, spent, task, registered>>
      BY DEF Load, Found, SlotInv, envVars
  <1>2. /\ mem'[r] = disk /\ \A q \in Runtimes : q # r => mem'[q] = mem[q]
    BY <1>1 DEF TypeOK
  <1>. DEFINE F(p) == IF disk.polls[p] # None /\ disk.polls[p].chosen
                      THEN [ts |-> disk.polls[p].ts, due |-> disk.polls[p].due,
                            retry |-> FALSE]
                      ELSE None
              f == [p \in Polls |-> F(p)]
  <1>3. ASSUME NEW q \in Runtimes, NEW k \in Polls
        PROVE  timer'[q][k] = IF q = r THEN F(k) ELSE timer[q][k]
    <2>1. timer' = [timer EXCEPT ![r] = f]
      BY DEF Load, Resumed, Found
    <2>2. f[k] = F(k)
      OBVIOUS
    <2>. HIDE DEF f
    <2>. QED
      BY <2>1, <2>2 DEF TypeOK
  <1>4. ASSUME NEW k \in Polls, F(k) # None
        PROVE  /\ disk.polls[k] # None /\ disk.polls[k].chosen
               /\ F(k).ts = disk.polls[k].ts /\ ~F(k).retry
               /\ Late(F(k).ts, ~F(k).retry, disk.polls[k])
               /\ ~Untouched(k)
    <2>1. disk.polls[k] # None /\ disk.polls[k].chosen
      BY <1>4
    <2>2. F(k) = [ts |-> disk.polls[k].ts, due |-> disk.polls[k].due, retry |-> FALSE]
      BY <2>1
    <2>. HIDE DEF F
    <2>3. F(k).ts = disk.polls[k].ts /\ ~F(k).retry
      BY <2>2
    <2>4. disk \in Registry /\ disk.polls[k] \in Pending
      BY <2>1, RegistryFields DEF TypeOK
    <2>5. disk.polls[k].ts \in Nat
      BY <2>4, Numbers DEF Pending
    <2>6. ~Untouched(k)
      BY <2>1, <2>4 DEF DataInv, InUse, RegistryOK, PendingOK
    <2>. QED
      BY <2>1, <2>3, <2>5, <2>6 DEF Late
  <1>. HIDE DEF F, f
  <1>5. ASSUME NEW t \in Tasks, task'[t] # None
        PROVE  /\ JobOK(task[t], Entry(t))'
               /\ task'[t].at \in {"commit", "recover"} => ~Untouched(Poll(t))'
    <2>1. task'[t] = task[t] /\ Rt(t)' = Rt(t) /\ Poll(t)' = Poll(t)
      BY <1>1 DEF Rt, Poll
    <2>2. Rt(t) \in Runtimes /\ Rt(t) # r
      BY <1>1, <1>5, <2>1, JobFields DEF LockInv
    <2>3. Entry(t)' = Entry(t)
      BY <1>2, <2>1, <2>2 DEF Entry, Here
    <2>4. Untouched(Poll(t))' = Untouched(Poll(t))
      BY <1>1 DEF Untouched, At, Poll
    <2>. QED
      BY <1>5, <2>1, <2>3, <2>4 DEF StrandInv, JobsInv
  <1>6. ASSUME NEW q \in Runtimes, NEW k \in Polls, timer'[q][k] # None
        PROVE  /\ Late(timer'[q][k].ts, ~timer'[q][k].retry, mem'[q].polls[k])
               /\ ~Untouched(k)'
    <2>1. ~Untouched(k) => ~Untouched(k)'
      BY UntouchedLess
    <2>2. CASE q = r
      BY <1>2, <1>3, <1>4, <1>6, <2>1, <2>2
    <2>3. CASE q # r
      BY <1>2, <1>3, <1>6, <2>1, <2>3 DEF StrandInv, TimersInv
    <2>. QED
      BY <2>2, <2>3
  <1>7. ASSUME NEW q \in Runtimes, NEW k \in Polls,
               Serves(q)', Open(mem[q].polls[k], disk, k)'
        PROVE  Handled(q, k)'
    <2>1. q = r
      <3>1. q # r => phase[q] = "up"
        BY <1>7 DEF Serves, Load, LeaveStart, TypeOK
      <3>. QED
        BY <1>1, <1>7, <3>1 DEF Serves, SlotInv
    <2>2. mem'[q].polls[k] = disk.polls[k]
      BY <1>2, <2>1
    <2>3. disk.polls[k] # None /\ disk.polls[k].chosen
      BY <1>1, <1>7, <2>2 DEF Open
    <2>4. F(k) # None
      <3>1. disk.polls[k] \in Pending
        BY <2>3, RegistryFields DEF TypeOK
      <3>2. [ts |-> disk.polls[k].ts, due |-> disk.polls[k].due, retry |-> FALSE] \in Timer
        BY <3>1 DEF Timer, Pending
      <3>. QED
        BY <2>3, <3>2, Nothing DEF F
    <2>5. timer'[q][k] # None /\ timer'[q][k].ts = mem'[q].polls[k].ts
      BY <1>3, <1>4, <2>1, <2>2, <2>4
    <2>. QED
      BY <2>5 DEF Handled
  <1>8. JobsInv'
    BY <1>5 DEF JobsInv
  <1>9. TimersInv'
    BY <1>6 DEF TimersInv
  <1>. QED
    BY <1>7, <1>8, <1>9 DEF StrandInv

\* Nothing is served after a crash.
LEMMA StrandCrash ==
  ASSUME Crash
  PROVE  StrandInv'
  <1>1. /\ \A t \in Tasks : task'[t] = None
        /\ \A r \in Runtimes, p \in Polls : timer'[r][p] = None
        /\ \A r \in Runtimes : phase'[r] # "up"
    BY DEF Crash
  <1>. QED
    BY <1>1 DEF StrandInv, JobsInv, TimersInv, Serves

\* Every step keeps it.
LEMMA StrandKept ==
  ASSUME IInv, StrandInv, [Next]_vars
  PROVE  StrandInv'
  <1>1. BaseInv /\ DataInv /\ TypeOK'
    BY TypeKept DEF IInv
  <1>. QED
    BY <1>1, NextCases, StrandQuiet, StrandBegin, StrandEnd, StrandStill, StrandSlot,
       StrandLoad, StrandCrash

-----------------------------------------------------------------------------
(***************************************************************************)
(* The theorems                                                            *)
(***************************************************************************)

\* It holds at first.
LEMMA InitHolds == Init => IInv
  <1>. SUFFICES ASSUME Init
                PROVE  IInv
    OBVIOUS
  <1>. USE DEF Init
  <1>1. TypeOK
    BY EmptyRegistryFields, Numbers DEF TypeOK, Phases
  <1>2. SlotInv /\ LockInv
    BY Nothing DEF SlotInv, LockInv
  <1>3. \A p \in Polls : ~Over(p) /\ Untouched(p)
    BY DEF Over, Untouched, At
  <1>4. DataInv
    <2>. SUFFICES ASSUME NEW m \in Registry, InUse(m)
                  PROVE  RegistryOK(m)
      BY DEF DataInv
    <2>1. m = EmptyRegistry
      BY DEF InUse, Live
    <2>2. ReceiptsOK(m)
      <3>1. m.receipts = journal /\ journal = <<>> /\ DOMAIN m.receipts = {}
        BY <2>1, EmptyRegistryFields
      <3>2. IsPrefix(journal, m.receipts)
        BY <3>1, PrefixElements, AppendFields, RegistryFields
      <3>. QED
        BY <3>1, <3>2 DEF ReceiptsOK
    <2>3. \A p \in Polls : m.polls[p] = None /\ acked[p] = 0
      BY <2>1, EmptyRegistryFields
    <2>. QED
      BY <2>2, <2>3 DEF RegistryOK, PendingOK, SavedOK
  <1>5. UntouchedInv /\ AcceptedInv /\ SettledInv
    BY <1>3 DEF UntouchedInv, AcceptedInv, SettledInv, At
  <1>. QED
    BY <1>1, <1>2, <1>4, <1>5 DEF IInv, BaseInv

\* Every step keeps it.
LEMMA StepHolds == IInv /\ [Next]_vars => IInv'
  BY TypeKept, SlotKept, LockKept, DataKept, UntouchedKept, AcceptedKept, SettledKept
     DEF IInv, BaseInv

\* The invariant, for every value of the constants.
THEOREM InvariantHolds == Spec => []IInv
  BY InitHolds, StepHolds, PTL DEF Spec

\* Every variable stays in its domain; in particular the attempts of a retry stay
\* within RECOVERY_DELAYS (poll_manager.py: _schedule_recovery).
THEOREM TypeOKHolds == Spec => []TypeOK
  <1>1. IInv => TypeOK
    BY DEF IInv, BaseInv
  <1>. QED
    BY <1>1, InvariantHolds, PTL

\* Only the owner of the writer slot has a write of the poll file under way, and a
\* runtime loads the file when no transaction of another one is left, publication
\* included (poll_manager.py: async_start and stop).
THEOREM OneWriterHolds == Spec => []OneWriter
  <1>1. IInv => OneWriter
    <2>. SUFFICES ASSUME IInv
                  PROVE  OneWriter
      OBVIOUS
    <2>1. BaseInv
      BY DEF IInv
    <2>2. \A r \in Runtimes : snap[r] # None => owner = r
      BY <2>1, Alone
    <2>3. ASSUME NEW r \in Runtimes, NEW x \in Runtimes, phase[r] = "load", x # r
          PROVE  lock[x] = None
      <3>1. owner = r /\ slotLock = r
        BY <2>1, <2>3 DEF BaseInv, SlotInv
      <3>2. lock[x] \notin Tasks
        BY <2>1, <2>3, <3>1 DEF BaseInv, LockInv
      <3>3. lock[x] \notin Runtimes
        BY <2>1, <2>3, <3>1 DEF BaseInv, SlotInv
      <3>. QED
        BY <2>1, <3>2, <3>3 DEF BaseInv, TypeOK
    <2>. QED
      BY <2>2, <2>3 DEF OneWriter
  <1>. QED
    BY <1>1, InvariantHolds, PTL

\* However a settlement is retried, reloaded, or lost in a crash after its write
\* replaced the file, its poll is announced once at most and has one receipt
\* (poll_manager.py: _async_commit; polls.py: commit, remember_selection).
THEOREM SettledOnceHolds == Spec => []SettledOnce
  <1>1. IInv => SettledOnce
    <2>. SUFFICES ASSUME IInv
                  PROVE  SettledOnce
      OBVIOUS
    <2>1. PICK s \in Seq(Receipt), u \in Seq(Receipt) : s = journal /\ u = disk.receipts
      BY RegistryFields DEF IInv, BaseInv, TypeOK
    <2>2. /\ IsPrefix(s, u)
          /\ \A i, j \in DOMAIN u : i # j => u[i].poll # u[j].poll
      <3>1. ReceiptsOK(disk)
        BY DEF IInv, DataInv, InUse, RegistryOK, BaseInv, TypeOK
      <3>. QED
        BY <2>1, <3>1 DEF ReceiptsOK
    <2>3. Len(s) <= Len(u) /\ \A i \in 1 .. Len(s) : s[i] = u[i]
      BY <2>2, PrefixElements
    <2>. DEFINE R == Receipt
    <2>. HIDE DEF R
    <2>4. s \in Seq(R) /\ u \in Seq(R)
      BY DEF R
    <2>5. /\ DOMAIN s = 1 .. Len(s) /\ DOMAIN u = 1 .. Len(u)
          /\ Len(s) \in Nat /\ Len(u) \in Nat
      BY <2>4
    <2>6. ASSUME NEW i \in DOMAIN s, NEW j \in DOMAIN s, i # j
          PROVE  s[i].poll # s[j].poll
      <3>1. i \in DOMAIN u /\ j \in DOMAIN u
        BY <2>3, <2>5, <2>6
      <3>2. s[i] = u[i] /\ s[j] = u[j]
        BY <2>3, <2>5, <2>6
      <3>. QED
        BY <2>2, <2>6, <3>1, <3>2
    <2>7. \A p \in Polls : announced[p] <= 1
      BY DEF IInv, SettledInv
    <2>. QED
      BY <2>1, <2>6, <2>7 DEF SettledOnce
  <1>. QED
    BY <1>1, InvariantHolds, PTL

\* What is announced is the newest vote that its runtime accepted, and no newer one
\* was known to be saved by any (poll_manager.py: _async_commit under the lock).
THEOREM NewestChoiceHolds == Spec => []NewestChoice
  <1>1. IInv => NewestChoice
    BY DEF IInv, SettledInv, Final, NewestChoice
  <1>. QED
    BY <1>1, InvariantHolds, PTL

\* A choice is announced a settle time after it was accepted, also by a timer that
\* fires early, was restored from the file, or belongs to a retry
\* (poll_manager.py: _async_commit, _schedule_commit).
THEOREM CorrectionWindowHolds == Spec => []CorrectionWindow
  <1>1. IInv => CorrectionWindow
    BY DEF IInv, SettledInv, Final, Backed, CorrectionWindow
  <1>. QED
    BY <1>1, InvariantHolds, PTL

\* A receipt that an application could have read stays in the file at its place, and
\* the event of an application poll is announced with its receipt
\* (polls.py: remember_selection; poll_manager.py: _async_publish).
THEOREM ReceiptsDurableHolds == Spec => []ReceiptsDurable
  <1>1. IInv => ReceiptsDurable
    <2>. SUFFICES ASSUME IInv
                  PROVE  ReceiptsDurable
      OBVIOUS
    <2>1. ReceiptsOK(disk)
      BY DEF IInv, DataInv, InUse, RegistryOK, BaseInv, TypeOK
    <2>2. ASSUME NEW p \in Applications, settled[p] # None
          PROVE  \E i \in DOMAIN journal : journal[i] = [poll |-> p, ts |-> settled[p].ts]
      BY <2>2, ApplicationsAssumption DEF IInv, SettledInv, Final
    <2>. QED
      BY <2>1, <2>2 DEF ReceiptsOK, ReceiptsDurable
  <1>. QED
    BY <1>1, InvariantHolds, PTL

\* A vote of an application that was saved is in the file until a newer vote, or
\* its receipt, replaces it (poll_manager.py: _write_registry).
THEOREM SavedVotesKeptHolds == Spec => []SavedVotesKept
  <1>1. IInv => SavedVotesKept
    <2>. SUFFICES ASSUME IInv, NEW p \in Applications, acked[p] > 0
                  PROVE  \/ disk.polls[p] # None /\ disk.polls[p].ts >= acked[p]
                         \/ HasReceipt(disk, p, acked[p])
      BY DEF SavedVotesKept, HasReceipt
    <2>1. SavedOK(disk, p)
      BY ApplicationsAssumption DEF IInv, DataInv, InUse, RegistryOK, BaseInv, TypeOK
    <2>. QED
      BY <2>1 DEF SavedOK
  <1>. QED
    BY <1>1, InvariantHolds, PTL

\* A runtime that serves has a timer or a task for every poll that is to be settled
\* or saved, or has counted it as exhausted, however timers, retries, newer votes,
\* failed writes and reloads follow each other
\* (poll_manager.py: _schedule_commit, _schedule_recovery, async_start).
THEOREM NothingStrandedHolds == Spec => []NothingStranded
  <1>1. Init => StrandInv
    BY DEF Init, StrandInv, JobsInv, TimersInv, Serves
  <1>2. IInv /\ StrandInv /\ [Next]_vars => StrandInv'
    BY StrandKept
  <1>3. StrandInv => NothingStranded
    <2>. SUFFICES ASSUME StrandInv, NEW r \in Runtimes, NEW p \in Polls,
                         phase[r] = "up", r \notin stopping,
                         mem[r].polls[p] # None,
                         mem[r].polls[p].chosen \/ mem[r].polls[p] # disk.polls[p]
                  PROVE  \/ timer[r][p] # None /\ timer[r][p].ts = mem[r].polls[p].ts
                         \/ p \in spent[r]
                         \/ \E t \in Tasks :
                              /\ task[t] # None
                              /\ Rt(t) = r /\ Poll(t) = p
                              /\ task[t].ts = mem[r].polls[p].ts
                              /\ task[t].at \in Writing \cup {"commit", "recover"}
      BY DEF NothingStranded
    <2>1. Handled(r, p)
      BY DEF StrandInv, Serves, Open
    <2>. QED
      BY <2>1 DEF Handled, HasInHand, Rt, Poll
  <1>. QED
    BY <1>1, <1>2, <1>3, InvariantHolds, PTL DEF Spec
=============================================================================
