------------------------------ MODULE TaskRuns ------------------------------
(***************************************************************************)
(* studio-tasks: run rows, the leased queue that owns their execution, the *)
(* dispatcher that turns a delivery into a handler call, and the operator  *)
(* verbs (cancel, retry) and the retention sweep that race with it.        *)
(*                                                                         *)
(* A run is a row of studio_tasks_runs; the queue entry that executes it   *)
(* is an outbox message.  Row and message are separate facts, written      *)
(* together only by Enqueue and RetryWrite.  Everything else updates one   *)
(* of the two: the dispatcher records on the row first and answers the     *)
(* queue afterwards, and a process can stop between any two of its steps.  *)
(*                                                                         *)
(* The outbox is external (toolkit-db).  It is modelled from what this     *)
(* gear says of it: one message of a partition is in flight at a time, in  *)
(* the order they were sent; a hand-over counts as an attempt; a message   *)
(* that is not answered is handed over again; "reject" is a dead letter.   *)
(***************************************************************************)
EXTENDS Integers, FiniteSets

CONSTANTS
  Runs,               \* run ids
  NoRun,              \* "no message has been sent under this id yet"
  Partitions,         \* the queue's partitions
  PartitionOf,        \* partition_for: which partition a run always goes to
  Addressed,          \* runs with a notify_workspace_id: an IDE is told their end
  HandlerMax,         \* TaskHandler::max_attempts of the runs' task type
  MaxAttempts,        \* MAX_ATTEMPTS, the cap where no handler is registered
  AttemptCeiling,     \* where the attempt counter saturates (i16 in the code)
  MaxSends,           \* bound: messages ever sent
  MaxFaults,          \* bound: crashes plus failed database calls
  RetryClients        \* bound: retry requests of one run in flight at once

ASSUME PartitionAssumption == PartitionOf \in [Runs -> Partitions]
ASSUME AddressedAssumption == Addressed \subseteq Runs
ASSUME NoRunAssumption == NoRun \notin Runs
ASSUME NumberAssumption ==
  /\ HandlerMax \in Nat \ {0}
  /\ MaxAttempts \in Nat \ {0}
  /\ AttemptCeiling \in Nat
  /\ AttemptCeiling > HandlerMax
  /\ AttemptCeiling > MaxAttempts
  /\ MaxSends \in Nat
  /\ MaxFaults \in Nat
  /\ RetryClients \in Nat

VARIABLES
  state,              \* [Runs -> RowState]: the row's state column
  cancelRequested,    \* [Runs -> BOOLEAN]: the row's cancel_requested column
  sent,               \* how many messages were ever sent; ids are 1..sent
  runOf,              \* [Msgs -> Runs]: the run a message carries
  pending,            \* messages the queue still owns
  attempts,           \* [Msgs -> Nat]: hand-overs counted by the queue
  deadLetters,        \* messages the dispatcher rejected
  worker,             \* [Partitions -> Worker]: the dispatcher's handle() calls
  registered,         \* the task type's handler is in this process's registry
  ready,              \* the start phase ran: every gear had its chance
  cancelling,         \* runs with a cancel request between its read and its write
  retrying,           \* [Runs -> Nat]: retry requests between read and write
  notice,             \* [Runs -> RowState]: the ending the IDE was told, if any
  faults,             \* faults spent so far
  lost,               \* history: answered as finished although the row was not written
  starts,             \* history: handler starts since the run was last (re)queued
  lateStarts,         \* history: handler starts while a cancel was on the row
  contested           \* history: runs that two retry requests had in hand at once

queueVars   == <<sent, runOf, pending, attempts, deadLetters>>
processVars == <<registered, ready>>
clientVars  == <<cancelling, retrying>>
historyVars == <<lost, starts, lateStarts, contested>>
vars == <<state, cancelRequested, queueVars, worker, processVars, clientVars,
          notice, faults, historyVars>>

Msgs     == 1..MaxSends
Live     == {"queued", "running"}
Terminal == {"succeeded", "failed", "cancelled"}
\* "none": not enqueued yet; "pruned": deleted by the retention sweep.
RowState == Live \cup Terminal \cup {"none", "pruned"}
Exists(r) == state[r] \in Live \cup Terminal

Pc      == {"idle", "delivered", "starting", "running", "returned",
            "recording", "telling", "answered"}
Answer  == {"none", "ok", "retry", "reject"}
Outcome == {"done", "failed", "retry"}
Reason  == {"none", "unread", "missing", "settled", "cancelled", "waiting",
            "unhandled", "gaveup", "contextless", "handler", "stopped"}
Worker  == [pc: Pc, msg: 0..MaxSends, next: RowState \cup Outcome,
            answer: Answer, why: Reason]
Idle    == [pc |-> "idle", msg |-> 0, next |-> "none", answer |-> "none",
            why |-> "none"]

TypeOK ==
  /\ state \in [Runs -> RowState]
  /\ cancelRequested \in [Runs -> BOOLEAN]
  /\ sent \in 0..MaxSends
  /\ runOf \in [Msgs -> Runs \cup {NoRun}]
  /\ pending \in SUBSET Msgs
  /\ attempts \in [Msgs -> 0..AttemptCeiling]
  /\ deadLetters \in SUBSET Msgs
  /\ worker \in [Partitions -> Worker]
  /\ registered \in BOOLEAN
  /\ ready \in BOOLEAN
  /\ cancelling \in SUBSET Runs
  /\ retrying \in [Runs -> 0..RetryClients]
  /\ notice \in [Runs -> RowState]
  /\ faults \in 0..MaxFaults
  /\ lost \in SUBSET Runs
  /\ starts \in [Runs -> Nat]
  /\ lateStarts \in [Runs -> Nat]
  /\ contested \in SUBSET Runs

Init ==
  /\ state = [r \in Runs |-> "none"]
  /\ cancelRequested = [r \in Runs |-> FALSE]
  /\ sent = 0
  /\ runOf = [m \in Msgs |-> NoRun]
  /\ pending = {}
  /\ attempts = [m \in Msgs |-> 0]
  /\ deadLetters = {}
  /\ worker = [p \in Partitions |-> Idle]
  /\ registered = FALSE
  /\ ready = FALSE
  /\ cancelling = {}
  /\ retrying = [r \in Runs |-> 0]
  /\ notice = [r \in Runs |-> "none"]
  /\ faults = 0
  /\ lost = {}
  /\ starts = [r \in Runs |-> 0]
  /\ lateStarts = [r \in Runs |-> 0]
  /\ contested = {}

Fault == faults < MaxFaults /\ faults' = faults + 1

-----------------------------------------------------------------------------
(* Callers: enqueue, and the operator's verbs.                             *)

\* The queue half of the transaction enqueue and retry share.
Post(r) ==
  /\ sent < MaxSends
  /\ sent' = sent + 1
  /\ runOf' = [runOf EXCEPT ![sent + 1] = r]
  /\ pending' = pending \cup {sent + 1}
  /\ attempts' = [attempts EXCEPT ![sent + 1] = 0]
  /\ UNCHANGED deadLetters

\* A new run: the row and its message in one transaction.  Run ids are fresh.
\* Keys and coalescing, which decide whether a new run is needed at all, are
\* TaskEnqueue's subject.
Enqueue(r) ==
  /\ registered
  /\ state[r] = "none"
  /\ state' = [state EXCEPT ![r] = "queued"]
  /\ Post(r)
  /\ UNCHANGED <<cancelRequested, worker, processVars, clientVars, notice,
                 faults, historyVars>>

\* cancel reads the row and refuses a finished one ...
CancelCheck(r) ==
  /\ r \notin cancelling
  /\ state[r] \in Live
  /\ cancelling' = cancelling \cup {r}
  /\ UNCHANGED <<state, cancelRequested, queueVars, worker, processVars,
                 retrying, notice, faults, historyVars>>

\* ... and then sets the flag whatever the row has become meanwhile.
CancelWrite(r) ==
  /\ r \in cancelling
  /\ cancelling' = cancelling \ {r}
  /\ cancelRequested' = [cancelRequested EXCEPT ![r] = Exists(r)]
  /\ UNCHANGED <<state, queueVars, worker, processVars, retrying, notice,
                 faults, historyVars>>

\* retry reads the row and refuses one that succeeded or is still going ...
RetryCheck(r) ==
  /\ retrying[r] < RetryClients
  /\ state[r] \in {"failed", "cancelled"}
  /\ retrying' = [retrying EXCEPT ![r] = @ + 1]
  /\ contested' = IF retrying[r] > 0 THEN contested \cup {r} ELSE contested
  /\ UNCHANGED <<state, cancelRequested, queueVars, worker, processVars,
                 cancelling, notice, faults, lost, starts, lateStarts>>

\* ... and then resets the row and sends a message of its own, in one
\* transaction that does not look at the state again.
RetryWrite(r) ==
  /\ retrying[r] > 0
  /\ retrying' = [retrying EXCEPT ![r] = @ - 1]
  /\ state' = [state EXCEPT ![r] = IF Exists(r) THEN "queued" ELSE @]
  /\ cancelRequested' = [cancelRequested EXCEPT ![r] = FALSE]
  /\ Post(r)
  /\ lost' = lost \ {r}
  /\ starts' = [starts EXCEPT ![r] = 0]
  /\ lateStarts' = [lateStarts EXCEPT ![r] = 0]
  /\ UNCHANGED <<worker, processVars, cancelling, notice, faults, contested>>

\* The retention sweep deletes finished runs only.  That a run is old enough
\* is nondeterministic.
Prune(r) ==
  /\ state[r] \in Terminal
  /\ state' = [state EXCEPT ![r] = "pruned"]
  /\ cancelRequested' = [cancelRequested EXCEPT ![r] = FALSE]
  /\ UNCHANGED <<queueVars, worker, processVars, clientVars, notice, faults,
                 historyVars>>

-----------------------------------------------------------------------------
(* The process.                                                            *)

\* The owning gear registers its handler in init or in the REST phase ...
Register ==
  /\ ~registered /\ ~ready
  /\ registered' = TRUE
  /\ UNCHANGED <<state, cancelRequested, queueVars, worker, ready, clientVars,
                 notice, faults, historyVars>>

\* ... and the start phase follows, whether or not it did.
StartPhase ==
  /\ ~ready
  /\ ready' = TRUE
  /\ UNCHANGED <<state, cancelRequested, queueVars, worker, registered,
                 clientVars, notice, faults, historyVars>>

\* The process stops: every handle() call, request and registration is gone;
\* the database, and with it the queue, is not.
Crash ==
  /\ Fault
  /\ worker' = [p \in Partitions |-> Idle]
  /\ registered' = FALSE
  /\ ready' = FALSE
  /\ cancelling' = {}
  /\ retrying' = [r \in Runs |-> 0]
  /\ UNCHANGED <<state, cancelRequested, queueVars, notice, historyVars>>

-----------------------------------------------------------------------------
(* The dispatcher.  One handle() call per partition at a time.             *)

InPartition(p) == {m \in pending : runOf[m] \in Runs /\ PartitionOf[runOf[m]] = p}

\* What a handle() call is about, and how it leaves the decision part.
Msg(p)  == worker[p].msg
RunAt(p) == runOf[Msg(p)]
GoTo(p, pc) == worker' = [worker EXCEPT ![p].pc = pc]
Answers(p, answer, why) ==
  worker' = [worker EXCEPT ![p].pc = "answered", ![p].answer = answer,
                           ![p].why = why]
Records(p, next, answer, why) ==
  worker' = [worker EXCEPT ![p].pc = "recording", ![p].next = next,
                           ![p].answer = answer, ![p].why = why]

\* The count is an i16 that saturates.
Counted(n) == IF n < AttemptCeiling THEN n + 1 ELSE n

\* The queue hands over the oldest message of the partition, and counts it.
Deliver(p) ==
  /\ worker[p].pc = "idle"
  /\ \E m \in InPartition(p) :
       /\ \A n \in InPartition(p) : m <= n
       /\ worker' = [worker EXCEPT ![p] = [Idle EXCEPT !.pc = "delivered", !.msg = m]]
       /\ attempts' = [attempts EXCEPT ![m] = Counted(@)]
  /\ UNCHANGED <<state, cancelRequested, sent, runOf, pending, deadLetters,
                 processVars, clientVars, notice, faults, historyVars>>

\* Mutant: settled forgets the success.
SettledUnlessSucceeded(r) == state[r] \in {"failed", "cancelled"}
\* settled: succeeded, cancelled or failed, so the message has nothing to do.
Settled(r)   == state[r] \in Terminal
\* Past the settled check the cancel flag decides whether there is work.
Cancelled(r) == Exists(r) /\ ~Settled(r) /\ cancelRequested[r]
\* Mutant: the flag is not looked at before the handler starts.
WorkableThoughCancelled(r) == Exists(r) /\ ~Settled(r)
Workable(r)  == Exists(r) /\ ~Settled(r) /\ ~cancelRequested[r]

\* The row cannot be read: put the message back.
ReadFails(p) ==
  /\ Fault
  /\ Answers(p, "retry", "unread")

ReadMissing(p) ==
  /\ ~Exists(RunAt(p))
  /\ Answers(p, "ok", "missing")
  /\ UNCHANGED faults

\* Mutant: the message of a settled run is put back.
SettledPutBack(p) ==
  /\ Settled(RunAt(p))
  /\ Answers(p, "retry", "settled")
  /\ UNCHANGED faults

ReadSettled(p) ==
  /\ Settled(RunAt(p))
  /\ Answers(p, "ok", "settled")
  /\ UNCHANGED faults

ReadCancelled(p) ==
  /\ Cancelled(RunAt(p))
  /\ Records(p, "cancelled", "ok", "cancelled")
  /\ UNCHANGED faults

\* No handler: excused while the process comes up, and for MaxAttempts
\* deliveries after that.
ReadUnhandled(p) ==
  /\ Workable(RunAt(p))
  /\ ~registered
  /\ IF ready /\ attempts[Msg(p)] > MaxAttempts
     THEN Records(p, "failed", "reject", "unhandled")
     ELSE Answers(p, "retry", "waiting")
  /\ UNCHANGED faults

\* Mutant: the cap is one too high.
OneDeliveryTooMany(p) == attempts[Msg(p)] > HandlerMax + 1
\* Deliveries that never reported back are only caught here.
TooManyDeliveries(p) == attempts[Msg(p)] > HandlerMax

ReadGaveUp(p) ==
  /\ Workable(RunAt(p))
  /\ registered
  /\ TooManyDeliveries(p)
  /\ Records(p, "failed", "reject", "gaveup")
  /\ UNCHANGED faults

ReadStart(p) ==
  /\ Workable(RunAt(p))
  /\ registered
  /\ ~TooManyDeliveries(p)
  /\ GoTo(p, "starting")
  /\ UNCHANGED faults

\* The decision part of handle(): one read of the row, then the first rule
\* that applies.  A message of another type or shape is rejected unread; Post,
\* the queue's only writer, sends none.
Read(p) ==
  /\ worker[p].pc = "delivered"
  /\ \/ ReadFails(p)
     \/ ReadMissing(p)
     \/ ReadSettled(p)
     \/ ReadCancelled(p)
     \/ ReadUnhandled(p)
     \/ ReadGaveUp(p)
     \/ ReadStart(p)
  /\ UNCHANGED <<state, cancelRequested, queueVars, processVars, clientVars,
                 notice, historyVars>>

\* The service context the handler is to run in cannot be built: the message is
\* rejected, and the row is left as it reads.
ContextFails(p) ==
  /\ worker[p].pc = "starting"
  /\ Fault
  /\ Answers(p, "reject", "contextless")
  /\ lost' = lost \cup {RunAt(p)}
  /\ UNCHANGED <<state, cancelRequested, queueVars, processVars, clientVars,
                 notice, starts, lateStarts, contested>>

\* `running` is recorded -- an UPDATE by id that nothing guards, and whose
\* failure is only logged -- and the handler is called.
StartHandler(p) ==
  /\ worker[p].pc = "starting"
  /\ GoTo(p, "running")
  /\ \/ /\ state' = [state EXCEPT ![RunAt(p)] = IF Exists(RunAt(p)) THEN "running" ELSE @]
        /\ UNCHANGED faults
     \/ /\ Fault
        /\ UNCHANGED state
  /\ starts' = [starts EXCEPT ![RunAt(p)] = @ + 1]
  /\ lateStarts' = [lateStarts EXCEPT ![RunAt(p)] =
                      IF cancelRequested[RunAt(p)] THEN @ + 1 ELSE @]
  /\ UNCHANGED <<cancelRequested, queueVars, processVars, clientVars, notice, lost,
                 contested>>

HandlerReturns(p) ==
  /\ worker[p].pc = "running"
  /\ \E outcome \in Outcome :
       worker' = [worker EXCEPT ![p].pc = "returned", ![p].next = outcome]
  /\ UNCHANGED <<state, cancelRequested, queueVars, processVars, clientVars,
                 notice, faults, historyVars>>

\* Mutant: a failed attempt that has attempts left is dead-lettered.
ConcludeRejects(p, outcome) ==
  \/ /\ outcome = "done"
     /\ Records(p, "succeeded", "ok", "handler")
  \/ /\ outcome = "failed"
     /\ Records(p, "failed", "reject", "handler")
  \/ /\ outcome = "retry"
     /\ Records(p, "queued", "reject", "handler")

\* What is recorded and answered for an outcome nobody cancelled.
Conclude(p, outcome) ==
  \/ /\ outcome = "done"
     /\ Records(p, "succeeded", "ok", "handler")
  \/ /\ outcome = "failed"
     /\ Records(p, "failed", "reject", "handler")
  \/ /\ outcome = "retry"
     /\ IF attempts[Msg(p)] >= HandlerMax
        THEN Records(p, "failed", "reject", "handler")
        ELSE Records(p, "queued", "retry", "handler")

\* The flag is read once more, and wins over the outcome.  A failed read is
\* not a cancellation.
CheckCancelled(p) ==
  /\ worker[p].pc = "returned"
  /\ \/ /\ cancelRequested[RunAt(p)]
        /\ Records(p, "cancelled", "ok", "stopped")
        /\ UNCHANGED faults
     \/ /\ ~cancelRequested[RunAt(p)]
        /\ Conclude(p, worker[p].next)
        /\ UNCHANGED faults
     \/ /\ Fault
        /\ Conclude(p, worker[p].next)
  /\ UNCHANGED <<state, cancelRequested, queueVars, processVars, clientVars,
                 notice, historyVars>>

\* The record is best-effort too.  Answering "ok" or "reject" over a row that
\* was not written is how a run is lost.
Record(p) ==
  LET r == RunAt(p)
      w == worker[p]
  IN /\ w.pc = "recording"
     /\ GoTo(p, IF w.next \in Terminal THEN "telling" ELSE "answered")
     /\ \/ /\ state' = [state EXCEPT ![r] = IF Exists(r) THEN w.next ELSE @]
           /\ UNCHANGED <<faults, lost>>
        \/ /\ Fault
           /\ UNCHANGED state
           /\ lost' = IF w.answer \in {"ok", "reject"} /\ state[r] \in Live
                      THEN lost \cup {r} ELSE lost
     /\ UNCHANGED <<cancelRequested, queueVars, processVars, clientVars, notice,
                    starts, lateStarts, contested>>

\* tell_the_editor: a delivery under the key task-ended:{id}.  A second one
\* under that key is the first one; a workspace with no IDE open, or a run
\* addressed to none, is told nothing.
TellTheEditor(p) ==
  LET r == RunAt(p)
  IN /\ worker[p].pc = "telling"
     /\ GoTo(p, "answered")
     /\ \/ /\ r \in Addressed /\ Exists(r) /\ notice[r] = "none"
           /\ notice' = [notice EXCEPT ![r] = worker[p].next]
        \/ UNCHANGED notice
     /\ UNCHANGED <<state, cancelRequested, queueVars, processVars, clientVars,
                    faults, historyVars>>

\* The queue applies the answer.
Acknowledge(p) ==
  LET m == Msg(p)
      a == worker[p].answer
  IN /\ worker[p].pc = "answered"
     /\ worker' = [worker EXCEPT ![p] = Idle]
     /\ pending' = IF a = "retry" THEN pending ELSE pending \ {m}
     /\ deadLetters' = IF a = "reject" THEN deadLetters \cup {m} ELSE deadLetters
     /\ UNCHANGED <<state, cancelRequested, sent, runOf, attempts, processVars,
                    clientVars, notice, faults, historyVars>>

\* The handler outlived the lease (less its headroom): the queue drops the
\* call wherever it is and will hand the message over again.
LeaseExpires(p) ==
  /\ \/ worker[p].pc \in {"running", "returned"}
     \/ /\ worker[p].pc \in {"recording", "telling"}
        /\ worker[p].why \in {"handler", "stopped"}
  /\ worker' = [worker EXCEPT ![p] = Idle]
  /\ UNCHANGED <<state, cancelRequested, queueVars, processVars, clientVars,
                 notice, faults, historyVars>>

-----------------------------------------------------------------------------
Clients(r) == Enqueue(r) \/ CancelCheck(r) \/ CancelWrite(r) \/ RetryCheck(r)
                \/ RetryWrite(r) \/ Prune(r)
Process == Register \/ StartPhase \/ Crash
Dispatch(p) == Deliver(p) \/ Read(p) \/ ContextFails(p) \/ StartHandler(p)
                 \/ HandlerReturns(p) \/ CheckCancelled(p) \/ Record(p) \/ TellTheEditor(p)
                 \/ Acknowledge(p) \/ LeaseExpires(p)

Next ==
  \/ \E r \in Runs : Clients(r)
  \/ Process
  \/ \E p \in Partitions : Dispatch(p)

\* The queue keeps delivering, a call keeps moving -- a handler that does not
\* return is dropped when its lease expires -- and a start-up completes.
\* Nothing is assumed of the people and gears that enqueue, cancel and retry,
\* of the handler's outcome, or of the handler ever being registered.
Spec ==
  /\ Init
  /\ [][Next]_vars
  /\ WF_vars(StartPhase)
  /\ \A p \in Partitions : WF_vars(Dispatch(p))
-----------------------------------------------------------------------------
(* What must hold.                                                         *)

\* The queue still owes this run a delivery.
Owed(r) == \E m \in pending : runOf[m] = r

\* "A row that says `queued` with nothing on the queue is work that will never
\* move again": whatever crashes, leases and retries do, a run that reads
\* queued or running has a message -- unless its ending was answered to the
\* queue while the row could not be written.
NothingLost ==
  \A r \in Runs : state[r] \in Live => Owed(r) \/ r \in lost

\* Work that succeeded is not reopened: not by a redelivery, a late cancel, a
\* retry or a second dispatcher step.  Only a run that two retry requests had in
\* hand at once is left out: the later of them does not look again.
SucceededIsFinal ==
  [][\A r \in Runs \ contested :
       state[r] = "succeeded" => state'[r] \in {"succeeded", "pruned"}]_vars

\* However often leases run out, processes die and stale messages come back, a
\* request to run is given to the handler at most HandlerMax times -- unless
\* an ending could not be written.
StartsBounded ==
  \A r \in Runs : starts[r] <= HandlerMax \/ r \in lost

\* A cancel on the row stops every handler call but the one whose row was read
\* before the flag was set.
CancelStopsStarts == \A r \in Runs : lateStarts[r] <= 1

\* The head of a partition never blocks it: every run that waits or runs ends,
\* is pruned or is one whose ending could not be written, even when every
\* handler call outlives its lease or no handler is ever registered.
Settles ==
  \A r \in Runs :
    state[r] \in Live ~> state[r] \in Terminal \cup {"pruned"} \/ r \in lost

\* The gear keeps the ledger it promises: a run is a ledger entry, and it is
\* owed as long as the queue has a message for it.
Ledger == INSTANCE RunLedger
            WITH owed <- {r \in Runs : Owed(r)}, writtenOff <- lost
KeepsLedger == Ledger!LedgerSpec

-----------------------------------------------------------------------------
(* What the code says of itself and does not do: README, section 5.        *)

\* dispatch.rs, on settled: "A person who wants it again retries it, which puts
\* the run back to `queued` and enqueues a message of its own."  That message
\* is not thrown away before the handler was called for it.
RetryIsAttempted ==
  \A p \in Partitions :
    /\ worker[p].pc = "answered" /\ worker[p].why = "settled"
    /\ state[RunAt(p)] = "failed"
    => starts[RunAt(p)] > 0

\* mod.rs, on RunState::Running: "A handler has it now."  A run that reads
\* running is at least still on the queue.
RunningMeansOwed == \A r \in Runs : state[r] = "running" => Owed(r)

\* dispatch.rs, on a handler that is not registered yet: "while the process is
\* still coming up, retry without spending an attempt on it".  A run is given
\* up on only for handler calls, and for the one delivery a fault may cost.
StartupCostsNoAttempt ==
  \A p \in Partitions :
    worker[p].pc = "recording" /\ worker[p].why = "gaveup"
      => starts[RunAt(p)] + faults >= HandlerMax

\* service.rs, refusing a retry: "run {id} already succeeded — retrying it would
\* do the work twice".  No run is reopened after it succeeded.
SuccessIsNeverReopened ==
  [][\A r \in Runs :
       state[r] = "succeeded" => state'[r] \in {"succeeded", "pruned"}]_vars

\* service.rs, on notify_workspace_id: "Where to say so when this run ends".
\* Once a run is over and nothing is left to do for it, what its IDE was last
\* told is how it ended.
NoticeTellsTheEnding ==
  \A r \in Runs :
    state[r] \in Terminal /\ ~Owed(r) => notice[r] \in {"none", state[r]}
=============================================================================
