--------------------------- MODULE TaskRunsProofs ---------------------------
(***************************************************************************)
(* Theorems about TaskRuns, for every set of runs, every assignment of     *)
(* runs to partitions, every cap and every bound on messages and faults.   *)
(***************************************************************************)
EXTENDS TaskRuns, TLAPS

-----------------------------------------------------------------------------
(* The inductive invariant.                                                *)

\* Every message the queue owns carries a run.
QueueOK ==
  /\ pending \subseteq 1..sent
  /\ \A m \in 1..sent : runOf[m] \in Runs

\* A handle() call works on a message the queue still owns, of its partition.
\* Hence two calls never work on the same run.
Holds(w, p) ==
  w.pc # "idle" =>
    /\ w.msg \in pending
    /\ runOf[w.msg] \in Runs
    /\ PartitionOf[runOf[w.msg]] = p

\* From the decision to start until the record is written nobody else can end
\* the run: cancel only sets a flag, retry only re-queues.
Deciding == {"starting", "running", "returned", "recording"}
WorksOnLive(w) == w.pc \in Deciding => state[runOf[w.msg]] \in Live

\* The record and the answer agree.
Agree(next, answer) ==
  \/ next \in Terminal /\ answer \in {"ok", "reject"}
  \/ next = "queued" /\ answer = "retry"
RecordMatchesAnswer(w) ==
  /\ w.pc = "recording" => Agree(w.next, w.answer)
  /\ w.pc = "telling" => w.next \in Terminal /\ w.answer \in {"ok", "reject"}
  /\ w.pc = "returned" => w.next \in Outcome

\* A message is about to leave the queue only when its run is not waiting for
\* it: the run is over, written off, or has another message.
Dispensable(m) ==
  \/ state[runOf[m]] \notin Live
  \/ runOf[m] \in lost
  \/ \E n \in pending : n # m /\ runOf[n] = runOf[m]
LeavesWhenDone(w) ==
  w.pc \in {"telling", "answered"} /\ w.answer # "retry" => Dispensable(w.msg)

Fits(w, p) ==
  Holds(w, p) /\ WorksOnLive(w) /\ RecordMatchesAnswer(w) /\ LeavesWhenDone(w)

CallsFit == \A p \in Partitions : Fits(worker[p], p)

IInv ==
  /\ TypeOK
  /\ QueueOK
  /\ CallsFit
  /\ NothingLost

-----------------------------------------------------------------------------
(* What the three ways a handle() call moves on do to the workers.         *)

\* The call of p becomes w; no other call is touched.
Becomes(p, w) ==
  /\ w \in Worker
  /\ worker' \in [Partitions -> Worker]
  /\ worker'[p] = w
  /\ \A q \in Partitions : q # p => worker'[q] = worker[q]

LEMMA Put ==
  ASSUME worker \in [Partitions -> Worker], NEW p \in Partitions,
         NEW w \in Worker, worker' = [worker EXCEPT ![p] = w]
  PROVE  Becomes(p, w)
  BY DEF Becomes

LEMMA GoToPuts ==
  ASSUME worker \in [Partitions -> Worker], NEW p \in Partitions,
         NEW pc \in Pc, GoTo(p, pc)
  PROVE  Becomes(p, [worker[p] EXCEPT !.pc = pc])
<1>1. [worker[p] EXCEPT !.pc = pc] \in Worker
  BY DEF Worker
<1>2. worker' = [worker EXCEPT ![p] = [worker[p] EXCEPT !.pc = pc]]
  BY DEF GoTo
<1>3. QED
  BY <1>1, <1>2, Put

LEMMA AnswersPuts ==
  ASSUME worker \in [Partitions -> Worker], NEW p \in Partitions,
         NEW a \in Answer, NEW why \in Reason, Answers(p, a, why)
  PROVE  Becomes(p, [worker[p] EXCEPT !.pc = "answered", !.answer = a, !.why = why])
<1>1. [worker[p] EXCEPT !.pc = "answered", !.answer = a, !.why = why] \in Worker
  BY ZenonT(90) DEF Worker, Pc
<1>2. worker' = [worker EXCEPT ![p] =
                   [worker[p] EXCEPT !.pc = "answered", !.answer = a, !.why = why]]
  BY DEF Answers
<1>3. QED
  BY <1>1, <1>2, Put

LEMMA RecordsPuts ==
  ASSUME worker \in [Partitions -> Worker], NEW p \in Partitions,
         NEW n \in RowState \cup Outcome, NEW a \in Answer, NEW why \in Reason,
         Records(p, n, a, why)
  PROVE  Becomes(p, [worker[p] EXCEPT !.pc = "recording", !.next = n,
                                      !.answer = a, !.why = why])
<1>1. [worker[p] EXCEPT !.pc = "recording", !.next = n, !.answer = a, !.why = why]
        \in Worker
  BY ZenonT(90) DEF Worker, Pc
<1>2. worker' = [worker EXCEPT ![p] =
                   [worker[p] EXCEPT !.pc = "recording", !.next = n,
                                     !.answer = a, !.why = why]]
  BY DEF Records
<1>3. QED
  BY <1>1, <1>2, Put

-----------------------------------------------------------------------------
(* Type correctness.                                                       *)

LEMMA IdleType == Idle \in Worker
  BY NumberAssumption DEF Idle, Worker, Pc, Answer, Reason, RowState

LEMMA TypeInit == Init => TypeOK
<1> SUFFICES ASSUME Init PROVE TypeOK
  OBVIOUS
<1>1. worker \in [Partitions -> Worker]
  BY IdleType DEF Init
<1>2. attempts \in [Msgs -> 0..AttemptCeiling]
  BY NumberAssumption DEF Init
<1>3. retrying \in [Runs -> 0..RetryClients]
  BY NumberAssumption DEF Init
<1>4. sent \in 0..MaxSends /\ faults \in 0..MaxFaults
  BY NumberAssumption DEF Init
<1>5. QED
  BY <1>1, <1>2, <1>3, <1>4 DEF Init, TypeOK, RowState

\* A fault is counted and bounded.
LEMMA FaultType == TypeOK /\ (Fault \/ UNCHANGED faults) => faults' \in 0..MaxFaults
  BY NumberAssumption DEF TypeOK, Fault

\* Sending a message keeps the queue's types.
LEMMA PostType ==
  ASSUME TypeOK, NEW r \in Runs, Post(r)
  PROVE  /\ sent' \in 0..MaxSends
         /\ runOf' \in [Msgs -> Runs \cup {NoRun}]
         /\ pending' \in SUBSET Msgs
         /\ attempts' \in [Msgs -> 0..AttemptCeiling]
         /\ deadLetters' \in SUBSET Msgs
  BY SMTT(90), NumberAssumption DEF Post, TypeOK, Msgs

LEMMA ClientsType ==
  ASSUME TypeOK, NEW r \in Runs, Clients(r)
  PROVE  TypeOK'
<1>1. CASE Enqueue(r)
  BY <1>1, PostType DEF Enqueue, TypeOK, RowState, Live, historyVars, clientVars, processVars, Worker
<1>2. CASE CancelCheck(r)
  BY <1>2 DEF CancelCheck, TypeOK, historyVars, queueVars, processVars, Worker
<1>3. CASE CancelWrite(r)
  BY <1>3 DEF CancelWrite, TypeOK, Exists, historyVars, queueVars, processVars, Worker
<1>4. CASE RetryCheck(r)
  <2>1. retrying' \in [Runs -> 0..RetryClients]
    BY <1>4, NumberAssumption DEF RetryCheck, TypeOK
  <2>2. contested' \in SUBSET Runs
    BY <1>4 DEF RetryCheck, TypeOK
  <2>3. QED
    BY <1>4, <2>1, <2>2 DEF RetryCheck, TypeOK, queueVars, processVars, Worker
<1>5. CASE RetryWrite(r)
  <2>1. retrying' \in [Runs -> 0..RetryClients]
    BY <1>5, NumberAssumption DEF RetryWrite, TypeOK
  <2>2. starts' \in [Runs -> Nat] /\ lateStarts' \in [Runs -> Nat]
    BY <1>5 DEF RetryWrite, TypeOK
  <2>3. state' \in [Runs -> RowState]
    BY <1>5 DEF RetryWrite, TypeOK, RowState, Live
  <2>4. QED
    BY <1>5, <2>1, <2>2, <2>3, PostType DEF RetryWrite, TypeOK, processVars, Worker
<1>6. CASE Prune(r)
  BY <1>6 DEF Prune, TypeOK, RowState, historyVars, queueVars, processVars, clientVars, Worker
<1>7. QED
  BY <1>1, <1>2, <1>3, <1>4, <1>5, <1>6 DEF Clients

LEMMA ProcessType ==
  ASSUME TypeOK, Process
  PROVE  TypeOK'
<1>1. CASE Register
  BY <1>1 DEF Register, TypeOK, historyVars, queueVars, clientVars, Worker
<1>2. CASE StartPhase
  BY <1>2 DEF StartPhase, TypeOK, historyVars, queueVars, clientVars, Worker
<1>3. CASE Crash
  <2>1. worker' \in [Partitions -> Worker]
    BY <1>3, IdleType DEF Crash
  <2>2. retrying' \in [Runs -> 0..RetryClients]
    BY <1>3, NumberAssumption DEF Crash
  <2>3. faults' \in 0..MaxFaults
    BY <1>3, FaultType DEF Crash
  <2>4. QED
    BY <1>3, <2>1, <2>2, <2>3 DEF Crash, TypeOK, historyVars, queueVars
<1>4. QED
  BY <1>1, <1>2, <1>3 DEF Process

-----------------------------------------------------------------------------
(* The steps of a handle() call.                                           *)

\* A call that only moves on, and still fits, disturbs nothing else.
LEMMA CallMoves ==
  ASSUME IInv, NEW p \in Partitions, NEW w, Becomes(p, w), Fits(w, p),
         UNCHANGED <<state, sent, runOf, pending, lost>>
  PROVE  QueueOK' /\ CallsFit' /\ NothingLost'
<1>1. QueueOK' /\ NothingLost'
  BY DEF IInv, QueueOK, NothingLost, Owed
<1>2. ASSUME NEW q \in Partitions PROVE Fits(worker'[q], q)
  BY <1>2 DEF IInv, CallsFit, Becomes
<1>3. ASSUME NEW q \in Partitions PROVE Fits(worker[q], q)'
  BY <1>2 DEF Fits, Holds, WorksOnLive, RecordMatchesAnswer, Agree, LeavesWhenDone,
              Dispensable
<1>4. QED
  BY <1>1, <1>3 DEF CallsFit

LEMMA DeliverKeeps ==
  ASSUME IInv, NEW p \in Partitions, Deliver(p)
  PROVE  IInv'
<1>1. PICK m \in InPartition(p) :
        /\ worker' = [worker EXCEPT ![p] = [Idle EXCEPT !.pc = "delivered", !.msg = m]]
        /\ attempts' = [attempts EXCEPT ![m] = Counted(@)]
  BY DEF Deliver
<1> DEFINE w == [Idle EXCEPT !.pc = "delivered", !.msg = m]
<1>2. m \in pending /\ m \in Msgs /\ runOf[m] \in Runs /\ PartitionOf[runOf[m]] = p
  BY DEF InPartition, IInv, TypeOK
<1>3. w \in Worker
  <2>1. m \in 0..MaxSends
    BY <1>2, NumberAssumption DEF Msgs
  <2>2. QED
    BY <2>1, IdleType DEF Idle, Worker, Pc
<1>4. Becomes(p, w)
  BY <1>1, <1>3, Put DEF IInv, TypeOK
<1>5. Fits(w, p)
  BY <1>2 DEF Fits, Holds, WorksOnLive, RecordMatchesAnswer, Agree, LeavesWhenDone,
              Deciding, Idle
<1>6. attempts' \in [Msgs -> 0..AttemptCeiling]
  BY <1>1, <1>2, NumberAssumption DEF IInv, TypeOK, Counted
<1>7. TypeOK'
  BY <1>4, <1>6 DEF Deliver, Becomes, IInv, TypeOK, processVars, clientVars, historyVars
<1>8. QED
  BY <1>4, <1>5, <1>7, CallMoves DEF Deliver, IInv, historyVars

LEMMA ReadKeeps ==
  ASSUME IInv, NEW p \in Partitions, Read(p)
  PROVE  IInv'
<1> DEFINE Answered(a, why) ==
      [worker[p] EXCEPT !.pc = "answered", !.answer = a, !.why = why]
    Recording(n, a, why) ==
      [worker[p] EXCEPT !.pc = "recording", !.next = n, !.answer = a, !.why = why]
<1>1. worker \in [Partitions -> Worker] /\ worker[p] \in Worker
  BY DEF IInv, TypeOK
<1>2. Holds(worker[p], p) /\ worker[p].pc = "delivered"
  BY DEF Read, IInv, CallsFit, Fits
<1>3. \E w : Becomes(p, w) /\ Fits(w, p)
  <2>1. ASSUME NEW a \in Answer, NEW why \in Reason, Answers(p, a, why),
               a = "retry" \/ state[RunAt(p)] \notin Live
        PROVE  \E w : Becomes(p, w) /\ Fits(w, p)
    <3>1. Becomes(p, Answered(a, why))
      BY <1>1, <2>1, AnswersPuts
    <3>2. Fits(Answered(a, why), p)
      BY <1>1, <1>2, <2>1 DEF Fits, Holds, WorksOnLive, RecordMatchesAnswer, Agree,
           LeavesWhenDone, Dispensable, Deciding, Worker, RunAt, Msg
    <3>3. QED
      BY <3>1, <3>2
  <2>2. ASSUME NEW n \in Terminal, NEW a \in {"ok", "reject"}, NEW why \in Reason,
               Records(p, n, a, why), Workable(RunAt(p)) \/ Cancelled(RunAt(p))
        PROVE  \E w : Becomes(p, w) /\ Fits(w, p)
    <3>1. n \in RowState \cup Outcome /\ a \in Answer
      BY DEF RowState, Answer
    <3>2. Becomes(p, Recording(n, a, why))
      BY <1>1, <2>2, <3>1, RecordsPuts
    <3>3. state[RunAt(p)] \in Live
      BY <2>2 DEF Workable, Cancelled, Exists, Settled
    <3>4. Fits(Recording(n, a, why), p)
      BY <1>1, <1>2, <2>2, <3>3 DEF Fits, Holds, WorksOnLive, RecordMatchesAnswer, Agree,
           LeavesWhenDone, Worker, RunAt, Msg
    <3>5. QED
      BY <3>2, <3>4
  <2>3. CASE ReadFails(p)
    BY <2>1, <2>3 DEF ReadFails, Answer, Reason
  <2>4. CASE ReadMissing(p)
    BY <2>1, <2>4 DEF ReadMissing, Exists, Answer, Reason
  <2>5. CASE ReadSettled(p)
    BY <2>1, <2>5 DEF ReadSettled, Settled, Live, Terminal, Answer, Reason
  <2>6. CASE ReadCancelled(p)
    BY <2>2, <2>6 DEF ReadCancelled, Terminal, Reason
  <2>7. CASE ReadUnhandled(p)
    BY <2>1, <2>2, <2>7 DEF ReadUnhandled, Terminal, Answer, Reason
  <2>8. CASE ReadGaveUp(p)
    BY <2>2, <2>8 DEF ReadGaveUp, Terminal, Reason
  <2>9. CASE ReadStart(p)
    <3>1. Becomes(p, [worker[p] EXCEPT !.pc = "starting"])
      BY <1>1, <2>9, GoToPuts DEF ReadStart, Pc
    <3>2. state[RunAt(p)] \in Live
      BY <2>9 DEF ReadStart, Workable, Exists, Settled
    <3>3. Fits([worker[p] EXCEPT !.pc = "starting"], p)
      BY <1>1, <1>2, <3>2 DEF Fits, Holds, WorksOnLive, RecordMatchesAnswer, Agree,
           LeavesWhenDone, Worker, RunAt, Msg
    <3>4. QED
      BY <3>1, <3>3
  <2>10. QED
    BY <2>3, <2>4, <2>5, <2>6, <2>7, <2>8, <2>9 DEF Read
<1>4. faults' \in 0..MaxFaults
  <2>1. Fault \/ UNCHANGED faults
    BY DEF Read, ReadFails, ReadMissing, ReadSettled, ReadCancelled, ReadUnhandled,
           ReadGaveUp, ReadStart
  <2>2. QED
    BY <2>1, FaultType DEF IInv
<1>5. TypeOK'
  BY <1>3, <1>4 DEF Read, Becomes, IInv, TypeOK, queueVars, processVars, clientVars,
     historyVars
<1>6. QED
  BY <1>3, <1>5, CallMoves DEF Read, IInv, queueVars, historyVars

LEMMA HandlerReturnsKeeps ==
  ASSUME IInv, NEW p \in Partitions, HandlerReturns(p)
  PROVE  IInv'
<1>1. PICK outcome \in Outcome :
        worker' = [worker EXCEPT ![p].pc = "returned", ![p].next = outcome]
  BY DEF HandlerReturns
<1> DEFINE w == [worker[p] EXCEPT !.pc = "returned", !.next = outcome]
<1>2. worker[p] \in Worker /\ Fits(worker[p], p) /\ worker[p].pc = "running"
  BY DEF IInv, TypeOK, CallsFit, HandlerReturns
<1>3. w \in Worker
  BY <1>2 DEF Worker, Pc
<1>4. Becomes(p, w)
  <2>1. worker' = [worker EXCEPT ![p] = w]
    BY <1>1
  <2>2. QED
    BY <1>3, <2>1, Put DEF IInv, TypeOK
<1>5. Fits(w, p)
  BY <1>2 DEF Fits, Holds, WorksOnLive, RecordMatchesAnswer, Agree, LeavesWhenDone,
     Deciding, Worker
<1>6. TypeOK'
  BY <1>4 DEF HandlerReturns, Becomes, IInv, TypeOK, queueVars, processVars,
     clientVars, historyVars
<1>7. QED
  BY <1>4, <1>5, <1>6, CallMoves DEF HandlerReturns, IInv, queueVars, historyVars

LEMMA CheckCancelledKeeps ==
  ASSUME IInv, NEW p \in Partitions, CheckCancelled(p)
  PROVE  IInv'
<1> DEFINE Recording(n, a, why) ==
      [worker[p] EXCEPT !.pc = "recording", !.next = n, !.answer = a, !.why = why]
<1>1. worker \in [Partitions -> Worker] /\ worker[p] \in Worker
  BY DEF IInv, TypeOK
<1>2. Fits(worker[p], p) /\ worker[p].pc = "returned"
  BY DEF CheckCancelled, IInv, CallsFit
<1>3. PICK n, a, why :
        /\ Records(p, n, a, why)
        /\ Agree(n, a)
        /\ why \in Reason
  <2>1. ASSUME NEW o \in Outcome, Conclude(p, o)
        PROVE  \E n, a, why :
                 /\ Records(p, n, a, why)
                 /\ Agree(n, a)
                 /\ why \in Reason
    BY <2>1 DEF Conclude, Agree, Terminal, Reason
  <2>2. worker[p].next \in Outcome
    BY <1>2 DEF Fits, RecordMatchesAnswer
  <2>3. QED
    BY <2>1, <2>2 DEF CheckCancelled, Agree, Terminal, Reason
<1>4. Becomes(p, Recording(n, a, why))
  <2>1. n \in RowState \cup Outcome /\ a \in Answer
    BY <1>3 DEF Agree, RowState, Live, Answer
  <2>2. QED
    BY <1>1, <1>3, <2>1, RecordsPuts
<1>5. Fits(Recording(n, a, why), p)
  BY <1>1, <1>2, <1>3 DEF Fits, Holds, WorksOnLive, RecordMatchesAnswer, Agree,
     LeavesWhenDone, Deciding, Worker
<1>6. faults' \in 0..MaxFaults
  BY FaultType DEF CheckCancelled, IInv
<1>7. TypeOK'
  BY <1>4, <1>6 DEF CheckCancelled, Becomes, IInv, TypeOK, queueVars, processVars,
     clientVars, historyVars
<1>8. QED
  BY <1>4, <1>5, <1>7, CallMoves DEF CheckCancelled, IInv, queueVars, historyVars

\* Without a context the run is written off before its message is answered.
LEMMA ContextFailsKeeps ==
  ASSUME IInv, NEW p \in Partitions, ContextFails(p)
  PROVE  IInv'
<1> DEFINE w == [worker[p] EXCEPT !.pc = "answered", !.answer = "reject",
                                  !.why = "contextless"]
           r == RunAt(p)
<1>1. worker[p] \in Worker /\ Fits(worker[p], p) /\ worker[p].pc = "starting"
  BY DEF ContextFails, IInv, TypeOK, CallsFit
<1>2. r \in Runs /\ PartitionOf[r] = p
  BY <1>1 DEF Fits, Holds, RunAt, Msg
<1>3. Becomes(p, w)
  <2>1. worker \in [Partitions -> Worker] /\ Answers(p, "reject", "contextless")
    BY DEF ContextFails, IInv, TypeOK
  <2>2. "reject" \in Answer /\ "contextless" \in Reason
    BY DEF Answer, Reason
  <2>3. QED
    BY <2>1, <2>2, AnswersPuts
<1>4. UNCHANGED <<state, sent, runOf, pending>> /\ lost' = lost \cup {r}
  BY DEF ContextFails, queueVars
<1>5. TypeOK'
  <2>1. faults' \in 0..MaxFaults
    BY FaultType DEF ContextFails, IInv
  <2>2. QED
    BY <1>2, <1>3, <2>1 DEF ContextFails, Becomes, IInv, TypeOK, queueVars,
       processVars, clientVars
<1>6. QueueOK' /\ NothingLost'
  BY <1>4 DEF IInv, QueueOK, NothingLost, Owed
<1>7. Fits(worker[p], p)'
  BY <1>1, <1>3, <1>4 DEF Becomes, Fits, Holds, WorksOnLive, RecordMatchesAnswer,
     LeavesWhenDone, Dispensable, Deciding, Worker, RunAt, Msg
<1>8. ASSUME NEW q \in Partitions \ {p} PROVE Fits(worker[q], q)'
  BY <1>3, <1>4 DEF Becomes, IInv, CallsFit, Fits, Holds, WorksOnLive,
     RecordMatchesAnswer, LeavesWhenDone, Dispensable
<1>9. QED
  BY <1>5, <1>6, <1>7, <1>8 DEF IInv, CallsFit

\* A handler starts for a run the call found live, and is recorded for that
\* run only: no other call works on it.
LEMMA StartHandlerKeeps ==
  ASSUME IInv, NEW p \in Partitions, StartHandler(p)
  PROVE  IInv'
<1> DEFINE w == [worker[p] EXCEPT !.pc = "running"]
           r == RunAt(p)
<1>1. worker[p] \in Worker /\ Fits(worker[p], p) /\ worker[p].pc = "starting"
  BY DEF StartHandler, IInv, TypeOK, CallsFit
<1>2. r \in Runs /\ state[r] \in Live /\ PartitionOf[r] = p
  BY <1>1 DEF Fits, Holds, WorksOnLive, Deciding, RunAt, Msg
<1>3. Becomes(p, w)
  BY GoToPuts DEF StartHandler, IInv, TypeOK, Pc
<1>4. state' \in [Runs -> RowState] /\ state'[r] \in Live
      /\ \A s \in Runs \ {r} : state'[s] = state[s]
  BY <1>2 DEF StartHandler, IInv, TypeOK, RowState, Live
<1>5. TypeOK'
  <2>1. starts' \in [Runs -> Nat] /\ lateStarts' \in [Runs -> Nat]
    BY <1>2 DEF StartHandler, IInv, TypeOK
  <2>2. faults' \in 0..MaxFaults
    BY FaultType DEF StartHandler, IInv
  <2>3. QED
    BY <1>3, <1>4, <2>1, <2>2 DEF StartHandler, Becomes, IInv, TypeOK, queueVars,
       processVars, clientVars
<1>6. QueueOK' /\ NothingLost'
  BY <1>2, <1>4 DEF StartHandler, queueVars, IInv, QueueOK, NothingLost, Owed
<1>7. Fits(worker[p], p)'
  BY <1>1, <1>2, <1>3, <1>4 DEF StartHandler, queueVars, Becomes, Fits, Holds,
     WorksOnLive, RecordMatchesAnswer, Agree, LeavesWhenDone, Deciding, Worker, RunAt,
     Msg
<1>8. ASSUME NEW q \in Partitions \ {p} PROVE Fits(worker[q], q)'
  <2>1. worker'[q] = worker[q] /\ Fits(worker[q], q)
    BY <1>3 DEF Becomes, IInv, CallsFit
  <2>2. worker[q].pc # "idle" =>
          runOf[worker[q].msg] \in Runs \ {r}
    BY <1>2, <2>1 DEF Fits, Holds
  <2>3. QED
    BY <1>4, <2>1, <2>2 DEF StartHandler, queueVars, Fits, Holds, WorksOnLive,
       RecordMatchesAnswer, LeavesWhenDone, Dispensable, Deciding
<1>9. QED
  BY <1>5, <1>6, <1>7, <1>8 DEF IInv, CallsFit

\* The record ends only the run the call works on; a failed one writes it off
\* when the queue is about to be told that it is done.
LEMMA RecordKeeps ==
  ASSUME IInv, NEW p \in Partitions, Record(p)
  PROVE  IInv'
<1> DEFINE pc == IF worker[p].next \in Terminal THEN "telling" ELSE "answered"
           w == [worker[p] EXCEPT !.pc = pc]
           r == RunAt(p)
<1>1. worker[p] \in Worker /\ Fits(worker[p], p) /\ worker[p].pc = "recording"
  BY DEF Record, IInv, TypeOK, CallsFit
<1>2. r \in Runs /\ state[r] \in Live /\ PartitionOf[r] = p /\ Msg(p) \in pending
  BY <1>1 DEF Fits, Holds, WorksOnLive, Deciding, RunAt, Msg
<1>3. Agree(worker[p].next, worker[p].answer) /\ worker[p].next \in RowState
  BY <1>1 DEF Fits, RecordMatchesAnswer, Agree, RowState, Live
<1>4. Becomes(p, w)
  BY GoToPuts DEF Record, IInv, TypeOK, Pc
<1>5. /\ state' \in [Runs -> RowState]
      /\ state'[r] \in {state[r], worker[p].next}
      /\ \A s \in Runs \ {r} : state'[s] = state[s]
      /\ lost' \in {lost, lost \cup {r}}
  BY <1>2, <1>3 DEF Record, IInv, TypeOK, RowState
<1>6. TypeOK'
  <2>1. faults' \in 0..MaxFaults
    BY FaultType DEF Record, IInv
  <2>2. QED
    BY <1>2, <1>4, <1>5, <2>1 DEF Record, Becomes, IInv, TypeOK, queueVars,
       processVars, clientVars
<1>7. QueueOK' /\ NothingLost'
  <2>1. Owed(r)
    BY <1>2 DEF Owed, RunAt
  <2>2. QED
    BY <1>2, <1>5, <2>1 DEF Record, queueVars, IInv, QueueOK, NothingLost, Owed
<1>8. Fits(worker[p], p)'
  <2>1. worker[p].answer # "retry" =>
          state'[r] \notin Live \/ r \in lost'
    <3>1. CASE UNCHANGED lost
      BY <1>2, <1>3, <3>1 DEF Record, IInv, TypeOK, Exists, Agree, Terminal, Live
    <3>2. CASE lost' = IF worker[p].answer \in {"ok", "reject"} /\ state[r] \in Live
                       THEN lost \cup {r} ELSE lost
      BY <1>2, <1>3, <3>2 DEF Agree
    <3>3. QED
      BY <3>1, <3>2 DEF Record
  <2>2. worker'[p] = w /\ w.msg = Msg(p) /\ w.answer = worker[p].answer
        /\ w.next = worker[p].next /\ w.pc = pc
    BY <1>1, <1>4 DEF Becomes, Worker, Msg
  <2>3. UNCHANGED <<pending, runOf>>
    BY DEF Record, queueVars
  <2>4. QED
    BY <1>1, <1>2, <1>3, <2>1, <2>2, <2>3 DEF Fits, Holds, WorksOnLive,
       RecordMatchesAnswer, Agree, LeavesWhenDone, Dispensable, Deciding, Terminal,
       RunAt, Msg
<1>9. ASSUME NEW q \in Partitions \ {p} PROVE Fits(worker[q], q)'
  <2>1. worker'[q] = worker[q] /\ Fits(worker[q], q)
    BY <1>4 DEF Becomes, IInv, CallsFit
  <2>2. worker[q].pc # "idle" => runOf[worker[q].msg] \in Runs \ {r}
    BY <1>2, <2>1 DEF Fits, Holds
  <2>3. QED
    BY <1>5, <2>1, <2>2 DEF Record, queueVars, Fits, Holds, WorksOnLive,
       RecordMatchesAnswer, LeavesWhenDone, Dispensable, Deciding
<1>10. QED
  BY <1>6, <1>7, <1>8, <1>9 DEF IInv, CallsFit

LEMMA TellTheEditorKeeps ==
  ASSUME IInv, NEW p \in Partitions, TellTheEditor(p)
  PROVE  IInv'
<1> DEFINE w == [worker[p] EXCEPT !.pc = "answered"]
<1>1. worker[p] \in Worker /\ Fits(worker[p], p) /\ worker[p].pc = "telling"
  BY DEF TellTheEditor, IInv, TypeOK, CallsFit
<1>2. Becomes(p, w)
  BY GoToPuts DEF TellTheEditor, IInv, TypeOK, Pc
<1>3. Fits(w, p)
  BY <1>1 DEF Fits, Holds, WorksOnLive, RecordMatchesAnswer, LeavesWhenDone,
     Deciding, Worker
<1>4. notice' \in [Runs -> RowState]
  <2>1. worker[p].next \in RowState
    BY <1>1 DEF Fits, RecordMatchesAnswer, RowState
  <2>2. QED
    BY <2>1 DEF TellTheEditor, IInv, TypeOK
<1>5. TypeOK'
  BY <1>2, <1>4 DEF TellTheEditor, Becomes, IInv, TypeOK, queueVars, processVars,
     clientVars, historyVars
<1>6. QED
  BY <1>2, <1>3, <1>5, CallMoves DEF TellTheEditor, IInv, queueVars, historyVars

LEMMA LeaseExpiresKeeps ==
  ASSUME IInv, NEW p \in Partitions, LeaseExpires(p)
  PROVE  IInv'
<1>1. Becomes(p, Idle)
  BY IdleType, Put DEF LeaseExpires, IInv, TypeOK
<1>2. Fits(Idle, p)
  BY DEF Idle, Fits, Holds, WorksOnLive, RecordMatchesAnswer, LeavesWhenDone, Deciding
<1>3. TypeOK'
  BY <1>1 DEF LeaseExpires, Becomes, IInv, TypeOK, queueVars, processVars,
     clientVars, historyVars
<1>4. QED
  BY <1>1, <1>2, <1>3, CallMoves DEF LeaseExpires, IInv, queueVars, historyVars

\* A message that leaves the queue was dispensable, and no other call's was.
LEMMA AcknowledgeKeeps ==
  ASSUME IInv, NEW p \in Partitions, Acknowledge(p)
  PROVE  IInv'
<1> DEFINE m == Msg(p)
           r == RunAt(p)
<1>1. worker[p] \in Worker /\ Fits(worker[p], p) /\ worker[p].pc = "answered"
  BY DEF Acknowledge, IInv, TypeOK, CallsFit
<1>2. m \in pending /\ r \in Runs /\ PartitionOf[r] = p
  BY <1>1 DEF Fits, Holds, RunAt, Msg
<1>3. /\ pending' \in {pending, pending \ {m}}
      /\ pending' = pending \/ Dispensable(m)
      /\ UNCHANGED <<state, sent, runOf, lost>>
  BY <1>1 DEF Acknowledge, historyVars, Fits, LeavesWhenDone, Msg
<1>4. Becomes(p, Idle)
  BY IdleType, Put DEF Acknowledge, IInv, TypeOK
<1>5. TypeOK'
  BY <1>2, <1>3, <1>4 DEF Acknowledge, Becomes, IInv, TypeOK, processVars, clientVars,
     historyVars
<1>6. QueueOK'
  BY <1>3 DEF IInv, QueueOK
<1>7. NothingLost'
  BY <1>3 DEF IInv, NothingLost, Owed, Dispensable, RunAt
<1>8. Fits(worker[p], p)'
  BY <1>4 DEF Becomes, Idle, Fits, Holds, WorksOnLive, RecordMatchesAnswer,
     LeavesWhenDone, Deciding
<1>9. ASSUME NEW q \in Partitions \ {p} PROVE Fits(worker[q], q)'
  <2>1. worker'[q] = worker[q] /\ Fits(worker[q], q)
    BY <1>4 DEF Becomes, IInv, CallsFit
  <2>2. worker[q].pc # "idle" =>
          worker[q].msg \in pending' /\ runOf[worker[q].msg] # runOf[m]
    BY <1>2, <1>3, <2>1 DEF Fits, Holds, RunAt
  <2>3. QED
    BY <1>3, <2>1, <2>2 DEF Fits, Holds, WorksOnLive, RecordMatchesAnswer,
       LeavesWhenDone, Dispensable, Deciding
<1>10. QED
  BY <1>5, <1>6, <1>7, <1>8, <1>9 DEF IInv, CallsFit

LEMMA DispatchKeeps ==
  ASSUME IInv, NEW p \in Partitions, Dispatch(p)
  PROVE  IInv'
  BY DeliverKeeps, ReadKeeps, ContextFailsKeeps, StartHandlerKeeps, HandlerReturnsKeeps,
     CheckCancelledKeeps, RecordKeeps, TellTheEditorKeeps, AcknowledgeKeeps,
     LeaseExpiresKeeps DEF Dispatch

-----------------------------------------------------------------------------
(* The callers and the process.                                            *)

\* A step that leaves the queue, the rows and the calls alone.
LEMMA Elsewhere ==
  ASSUME IInv, TypeOK', UNCHANGED <<state, sent, runOf, pending, lost, worker>>
  PROVE  IInv'
  BY DEF IInv, QueueOK, CallsFit, Fits, Holds, WorksOnLive, RecordMatchesAnswer,
     LeavesWhenDone, Dispensable, NothingLost, Owed

\* A new message and a row that goes nowhere but to queued: what every call
\* relied on is still there, and the run that is queued is owed the message.
LEMMA PostKeeps ==
  ASSUME IInv, TypeOK', NEW r \in Runs, Post(r), UNCHANGED worker,
         state' \in {state, [state EXCEPT ![r] = "queued"]},
         lost \ {r} \subseteq lost'
  PROVE  IInv'
<1> DEFINE m == sent + 1
<1>1. m \in Msgs /\ sent \in Nat /\ runOf \in [Msgs -> Runs \cup {NoRun}]
  BY NumberAssumption DEF Post, IInv, TypeOK, Msgs
<1>2. /\ \A n \in pending : n \in 1..sent /\ n # m /\ runOf'[n] = runOf[n]
      /\ runOf'[m] = r /\ m \in pending' /\ pending \subseteq pending'
  BY <1>1 DEF Post, IInv, QueueOK, TypeOK
<1>3. QueueOK'
  BY <1>1, <1>2, NumberAssumption DEF Post, IInv, QueueOK, Msgs
<1>4. NothingLost'
  BY <1>2 DEF IInv, TypeOK, NothingLost, Owed
<1>5. ASSUME NEW p \in Partitions PROVE Fits(worker[p], p)'
  <2>1. Fits(worker[p], p)
    BY DEF IInv, CallsFit
  <2>2. /\ worker[p].pc # "idle" => Msg(p) \in pending /\ RunAt(p) \in Runs
        /\ RecordMatchesAnswer(worker[p])'
    BY <2>1 DEF Fits, Holds, RunAt, Msg, RecordMatchesAnswer
  <2>3. Holds(worker[p], p)'
    BY <1>2, <2>1 DEF Fits, Holds
  <2>4. WorksOnLive(worker[p])'
    BY <1>2, <2>1, <2>2 DEF Fits, Holds, WorksOnLive, Deciding, IInv, TypeOK, Live, Msg
  <2>5. worker[p].pc # "idle" /\ Dispensable(Msg(p)) => Dispensable(Msg(p))'
    <3>1. CASE RunAt(p) = r
      BY <1>2, <2>2, <3>1 DEF Dispensable, RunAt, Msg
    <3>2. CASE RunAt(p) # r
      BY <1>2, <2>2, <3>2 DEF Dispensable, RunAt, Msg, IInv, TypeOK
    <3>3. QED
      BY <3>1, <3>2
  <2>6. LeavesWhenDone(worker[p])'
    BY <2>1, <2>2, <2>5 DEF Fits, LeavesWhenDone, Msg
  <2>7. QED
    BY <2>2, <2>3, <2>4, <2>6 DEF Fits
<1>6. QED
  BY <1>3, <1>4, <1>5 DEF IInv, CallsFit

LEMMA ClientsKeep ==
  ASSUME IInv, NEW r \in Runs, Clients(r)
  PROVE  IInv'
<1>1. TypeOK'
  BY ClientsType DEF IInv
<1>2. CASE Enqueue(r)
  BY <1>1, <1>2, PostKeeps DEF Enqueue, historyVars
<1>3. CASE CancelCheck(r)
  BY <1>1, <1>3, Elsewhere DEF CancelCheck, queueVars, historyVars
<1>4. CASE CancelWrite(r)
  BY <1>1, <1>4, Elsewhere DEF CancelWrite, queueVars, historyVars
<1>5. CASE RetryCheck(r)
  BY <1>1, <1>5, Elsewhere DEF RetryCheck, queueVars
<1>6. CASE RetryWrite(r)
  <2>1. state' \in {state, [state EXCEPT ![r] = "queued"]}
    BY <1>6 DEF RetryWrite, IInv, TypeOK
  <2>2. QED
    BY <1>1, <1>6, <2>1, PostKeeps DEF RetryWrite
\* What is pruned was over, so no call was working on it.
<1>7. CASE Prune(r)
  <2>1. UNCHANGED <<sent, runOf, pending, lost, worker>>
    BY <1>7 DEF Prune, queueVars, historyVars
  <2>2. /\ state'[r] \notin Live
        /\ state[r] \notin Live
        /\ \A s \in Runs \ {r} : state'[s] = state[s]
    BY <1>7 DEF Prune, IInv, TypeOK, Live, Terminal
  <2>3. QueueOK' /\ NothingLost'
    BY <2>1, <2>2 DEF IInv, QueueOK, NothingLost, Owed
  <2>4. ASSUME NEW p \in Partitions PROVE Fits(worker[p], p)'
    BY <2>1, <2>2 DEF IInv, CallsFit, Fits, Holds, WorksOnLive, RecordMatchesAnswer,
       LeavesWhenDone, Dispensable, Deciding
  <2>5. QED
    BY <1>1, <2>3, <2>4 DEF IInv, CallsFit
<1>8. QED
  BY <1>2, <1>3, <1>4, <1>5, <1>6, <1>7 DEF Clients

LEMMA ProcessKeeps ==
  ASSUME IInv, Process
  PROVE  IInv'
<1>1. TypeOK'
  BY ProcessType DEF IInv
<1>2. CASE Register
  BY <1>1, <1>2, Elsewhere DEF Register, queueVars, historyVars
<1>3. CASE StartPhase
  BY <1>1, <1>3, Elsewhere DEF StartPhase, queueVars, historyVars
<1>4. CASE Crash
  <2>1. CallsFit'
    BY <1>4 DEF Crash, CallsFit, Idle, Fits, Holds, WorksOnLive, RecordMatchesAnswer,
       LeavesWhenDone, Deciding
  <2>2. QED
    BY <1>1, <1>4, <2>1 DEF Crash, queueVars, historyVars, IInv, QueueOK, NothingLost,
       Owed
<1>5. QED
  BY <1>2, <1>3, <1>4 DEF Process

-----------------------------------------------------------------------------
(* The theorems.                                                           *)

LEMMA InitIInv == Init => IInv
<1> SUFFICES ASSUME Init PROVE IInv
  OBVIOUS
<1>1. TypeOK
  BY TypeInit
<1>2. QueueOK
  BY DEF Init, QueueOK
<1>3. CallsFit
  BY DEF Init, CallsFit, Idle, Fits, Holds, WorksOnLive, RecordMatchesAnswer,
     LeavesWhenDone, Deciding
<1>4. NothingLost
  BY DEF Init, NothingLost, Live
<1>5. QED
  BY <1>1, <1>2, <1>3, <1>4 DEF IInv

LEMMA StutterKeeps ==
  ASSUME IInv, UNCHANGED vars
  PROVE  IInv'
<1>1. TypeOK'
  BY DEF vars, queueVars, processVars, clientVars, historyVars, IInv, TypeOK
<1>2. QED
  BY <1>1, Elsewhere DEF vars, queueVars, historyVars

LEMMA StepIInv == IInv /\ [Next]_vars => IInv'
  BY ClientsKeep, ProcessKeeps, DispatchKeeps, StutterKeeps DEF Next

\* The inductive invariant holds in every reachable state.
THEOREM Invariant == Spec => []IInv
  BY InitIInv, StepIInv, PTL DEF Spec

\* Every variable keeps its type: in particular a call never records or tells
\* an ending that its row cannot have, and no counter leaves its range.
THEOREM TypeCorrect == Spec => []TypeOK
<1>1. IInv => TypeOK
  BY DEF IInv
<1>2. QED
  BY <1>1, Invariant, PTL

\* Whatever crashes, expired leases, failed writes, cancels, retries and
\* prunes do, in any number and any order, a run that reads queued or running
\* is owed a delivery unless its ending was answered over a failed write.
THEOREM NothingIsLost == Spec => []NothingLost
<1>1. IInv => NothingLost
  BY DEF IInv
<1>2. QED
  BY <1>1, Invariant, PTL

-----------------------------------------------------------------------------
(* A success is final, but for a run that two retries had in hand at once. *)

\* A retry between its read and its write has a run that was accepted, and one
\* that has no rival holds it where it read it: no call works on a run that is
\* over, and no other retry can re-queue it.
RetryHolds ==
  \A r \in Runs : retrying[r] > 0 =>
    /\ state[r] # "none"
    /\ r \notin contested =>
         retrying[r] = 1 /\ state[r] \in {"failed", "cancelled", "pruned"}

\* Only the callers change the row of a run that no call works on.
LEMMA DispatchWritesLive ==
  ASSUME IInv, NEW p \in Partitions, Dispatch(p), NEW r \in Runs, state[r] \notin Live
  PROVE  state'[r] = state[r] /\ UNCHANGED retrying
<1>1. worker[p].pc \in Deciding => state[RunAt(p)] \in Live
  BY DEF IInv, CallsFit, Fits, WorksOnLive, RunAt, Msg
<1>2. CASE StartHandler(p)
  BY <1>1, <1>2 DEF StartHandler, Deciding, clientVars, IInv, TypeOK
<1>3. CASE Record(p)
  BY <1>1, <1>3 DEF Record, Deciding, clientVars, IInv, TypeOK
<1>4. CASE ~StartHandler(p) /\ ~Record(p)
  BY <1>4 DEF Dispatch, Deliver, Read, ContextFails, HandlerReturns, CheckCancelled,
     TellTheEditor, Acknowledge, LeaseExpires, clientVars
<1>5. QED
  BY <1>2, <1>3, <1>4

\* Whatever a call writes, it writes no row away that is there.
LEMMA DispatchLeavesRows ==
  ASSUME IInv, NEW p \in Partitions, Dispatch(p), NEW r \in Runs, state[r] # "none"
  PROVE  state'[r] # "none" /\ UNCHANGED <<retrying, contested>>
<1>1. CASE StartHandler(p)
  BY <1>1 DEF StartHandler, clientVars, IInv, TypeOK
<1>2. CASE Record(p)
  <2>1. worker[p].next # "none"
    BY <1>2 DEF Record, IInv, CallsFit, Fits, RecordMatchesAnswer, Agree, Terminal
  <2>2. QED
    BY <1>2, <2>1 DEF Record, clientVars, IInv, TypeOK
<1>3. CASE ~StartHandler(p) /\ ~Record(p)
  BY <1>3 DEF Dispatch, Deliver, Read, ContextFails, HandlerReturns, CheckCancelled,
     TellTheEditor, Acknowledge, LeaseExpires, clientVars, historyVars
<1>4. QED
  BY <1>1, <1>2, <1>3

LEMMA RetryHoldsStep ==
  ASSUME IInv, RetryHolds, [Next]_vars
  PROVE  RetryHolds'
<1> DEFINE Held(r) ==
      /\ state[r] # "none"
      /\ r \notin contested =>
           retrying[r] = 1 /\ state[r] \in {"failed", "cancelled", "pruned"}
<1> SUFFICES ASSUME NEW r \in Runs, retrying'[r] > 0 PROVE Held(r)'
  BY DEF RetryHolds
<1>1. retrying[r] \in Nat /\ (retrying[r] > 0 => Held(r))
  BY NumberAssumption DEF RetryHolds, IInv, TypeOK
<1>2. ASSUME NEW s \in Runs, Clients(s) PROVE Held(r)'
  <2>1. CASE Enqueue(s)
    BY <1>1, <2>1 DEF Enqueue, clientVars, historyVars, IInv, TypeOK
  <2>2. CASE CancelCheck(s) \/ CancelWrite(s)
    BY <1>1, <2>2 DEF CancelCheck, CancelWrite, historyVars
  <2>3. CASE RetryCheck(s)
    <3>1. CASE r = s
      BY <1>1, <2>3, <3>1, NumberAssumption DEF RetryCheck, IInv, TypeOK
    <3>2. CASE r # s
      BY <1>1, <2>3, <3>2 DEF RetryCheck, IInv, TypeOK
    <3>3. QED
      BY <3>1, <3>2
  <2>4. CASE RetryWrite(s)
\* What remains of the retries of one run had a rival.
    <3>1. CASE r = s
      BY <1>1, <2>4, <3>1, NumberAssumption DEF RetryWrite, Exists, IInv, TypeOK
    <3>2. CASE r # s
      BY <1>1, <2>4, <3>2 DEF RetryWrite, IInv, TypeOK
    <3>3. QED
      BY <3>1, <3>2
  <2>5. CASE Prune(s)
    BY <1>1, <2>5 DEF Prune, clientVars, historyVars, IInv, TypeOK
  <2>6. QED
    BY <1>2, <2>1, <2>2, <2>3, <2>4, <2>5 DEF Clients
<1>3. ASSUME Process PROVE Held(r)'
  BY <1>1, <1>3, NumberAssumption DEF Process, Register, StartPhase, Crash, clientVars,
     historyVars
<1>4. ASSUME NEW p \in Partitions, Dispatch(p) PROVE Held(r)'
  <2>1. retrying' = retrying /\ contested' = contested
    BY <1>4 DEF Dispatch, Deliver, Read, ContextFails, StartHandler, HandlerReturns,
       CheckCancelled, Record, TellTheEditor, Acknowledge, LeaseExpires, clientVars,
       historyVars
  <2>2. Held(r)
    BY <1>1, <2>1
  <2>3. state'[r] # "none"
    BY <1>4, <2>2, DispatchLeavesRows
  <2>4. r \notin contested => state'[r] = state[r]
    BY <1>4, <2>2, DispatchWritesLive DEF Live
  <2>5. QED
    BY <2>1, <2>2, <2>3, <2>4
<1>5. CASE UNCHANGED vars
  BY <1>1, <1>5 DEF vars, clientVars, historyVars
<1>6. QED
  BY <1>2, <1>3, <1>4, <1>5 DEF Next

LEMMA SuccessStays ==
  ASSUME IInv, RetryHolds, [Next]_vars, NEW r \in Runs \ contested,
         state[r] = "succeeded"
  PROVE  state'[r] \in {"succeeded", "pruned"}
<1>1. ASSUME NEW s \in Runs, Clients(s) PROVE state'[r] \in {"succeeded", "pruned"}
  BY <1>1 DEF Clients, Enqueue, CancelCheck, CancelWrite, RetryCheck, RetryWrite, Prune,
     RetryHolds, IInv, TypeOK
<1>2. ASSUME Process PROVE state'[r] \in {"succeeded", "pruned"}
  BY <1>2 DEF Process, Register, StartPhase, Crash
<1>3. ASSUME NEW p \in Partitions, Dispatch(p)
      PROVE  state'[r] \in {"succeeded", "pruned"}
  BY <1>3, DispatchWritesLive DEF Live
<1>4. CASE UNCHANGED vars
  BY <1>4 DEF vars
<1>5. QED
  BY <1>1, <1>2, <1>3, <1>4 DEF Next

\* No redelivery, late cancel, expired lease or restart reopens work that
\* succeeded, however many retry requests there are; and none of the retries
\* does, unless two of them had the run in hand at once.
THEOREM SuccessIsFinal == Spec => SucceededIsFinal
<1>1. Init => RetryHolds
  BY DEF Init, RetryHolds
<1>2. IInv /\ RetryHolds /\ [Next]_vars => RetryHolds'
  BY RetryHoldsStep
<1>3. IInv /\ RetryHolds /\ [Next]_vars
        => [\A r \in Runs \ contested :
              state[r] = "succeeded" => state'[r] \in {"succeeded", "pruned"}]_vars
  BY SuccessStays
<1>4. QED
  BY <1>1, <1>2, <1>3, Invariant, PTL DEF Spec, SucceededIsFinal

-----------------------------------------------------------------------------
(* The gear implements its ledger.                                         *)

OwedRuns   == {r \in Runs : Owed(r)}
LedgerStep == Ledger!LedgerNext \/ UNCHANGED <<state, OwedRuns, lost, contested>>

LEMMA OwedStays ==
  ASSUME UNCHANGED <<runOf, pending>>
  PROVE  UNCHANGED OwedRuns
  BY DEF OwedRuns, Owed

\* A message more is one run more that is owed.
LEMMA PostOwes ==
  ASSUME IInv, NEW r \in Runs, Post(r)
  PROVE  OwedRuns' = OwedRuns \cup {r}
<1> DEFINE m == sent + 1
<1>1. m \in Msgs /\ sent \in Nat /\ runOf \in [Msgs -> Runs \cup {NoRun}]
  BY NumberAssumption DEF Post, IInv, TypeOK, Msgs
<1>2. /\ \A n \in pending : n # m /\ runOf'[n] = runOf[n]
      /\ runOf'[m] = r /\ pending' = pending \cup {m}
  BY <1>1 DEF Post, IInv, QueueOK, TypeOK
<1>3. QED
  BY <1>2 DEF OwedRuns, Owed

LEMMA ClientsLedger ==
  ASSUME IInv, RetryHolds, NEW r \in Runs, Clients(r)
  PROVE  LedgerStep
<1>1. CASE Enqueue(r)
  <2>1. Ledger!Accept(r)
    BY <1>1, PostOwes DEF Enqueue, historyVars, Ledger!Accept, OwedRuns
  <2>2. QED
    BY <2>1 DEF LedgerStep, Ledger!LedgerNext
<1>2. CASE CancelCheck(r) \/ CancelWrite(r)
  BY <1>2, OwedStays DEF CancelCheck, CancelWrite, queueVars, historyVars, LedgerStep
\* No retry is under way for a run that was never accepted, and only one that has
\* a rival for a run that succeeded.
<1>3. CASE RetryWrite(r)
  <2>1. state[r] # "none" /\ (state[r] = "succeeded" => r \in contested)
    BY <1>3, NumberAssumption DEF RetryWrite, RetryHolds, IInv, TypeOK
  <2>2. Ledger!Again(r)
    BY <1>3, <2>1, PostOwes DEF RetryWrite, Exists, Live, Terminal, RowState, IInv,
       TypeOK, Ledger!Again, OwedRuns
  <2>3. QED
    BY <2>2 DEF LedgerStep, Ledger!LedgerNext
<1>4. CASE RetryCheck(r)
  <2>1. UNCHANGED <<state, lost>> /\ UNCHANGED OwedRuns
    BY <1>4, OwedStays DEF RetryCheck, queueVars
  <2>2. CASE UNCHANGED contested
    BY <2>1, <2>2 DEF LedgerStep
  <2>3. CASE contested' = contested \cup {r}
    <3>1. Ledger!Contend(r)
      BY <1>4, <2>1, <2>3 DEF RetryCheck, Ledger!Contend, OwedRuns
    <3>2. QED
      BY <3>1 DEF LedgerStep, Ledger!LedgerNext
  <2>4. QED
    BY <1>4, <2>2, <2>3 DEF RetryCheck
<1>5. CASE Prune(r)
  <2>1. Ledger!Forget(r)
    BY <1>5, OwedStays DEF Prune, Terminal, queueVars, historyVars, Ledger!Forget,
       Ledger!Finished, OwedRuns
  <2>2. QED
    BY <2>1 DEF LedgerStep, Ledger!LedgerNext
<1>6. QED
  BY <1>1, <1>2, <1>3, <1>4, <1>5 DEF Clients

\* What a call at work writes is the work, or the writing off, of a run that is
\* owed it.
LEMMA CallLedger ==
  ASSUME IInv, NEW p \in Partitions, ContextFails(p) \/ StartHandler(p) \/ Record(p)
  PROVE  LedgerStep
<1> DEFINE r == RunAt(p)
<1>1. worker[p] \in Worker /\ Fits(worker[p], p) /\ worker[p].pc \in Deciding
  BY DEF ContextFails, StartHandler, Record, Deciding, IInv, TypeOK, CallsFit
<1>2. r \in Runs /\ state[r] \in Live /\ Msg(p) \in pending
  BY <1>1 DEF Fits, Holds, WorksOnLive, Deciding, RunAt, Msg
<1>3. r \in OwedRuns
  BY <1>2 DEF OwedRuns, Owed, RunAt
<1>4. UNCHANGED OwedRuns /\ UNCHANGED contested
  BY OwedStays DEF ContextFails, StartHandler, Record, queueVars
<1>5. Exists(r)
  BY <1>2 DEF Exists
<1>6. CASE StartHandler(p)
  <2>1. CASE state' = [state EXCEPT ![r] = "running"]
    <3>1. Ledger!Work(r)
      BY <1>2, <1>3, <1>4, <1>6, <2>1 DEF StartHandler, Live, Ledger!Work,
         Ledger!Working, Ledger!Finished, OwedRuns
    <3>2. QED
      BY <1>2, <3>1 DEF LedgerStep, Ledger!LedgerNext
  <2>2. CASE UNCHANGED state
    BY <1>4, <1>6, <2>2 DEF StartHandler, LedgerStep
  <2>3. QED
    BY <1>5, <1>6, <2>1, <2>2 DEF StartHandler
<1>7. CASE Record(p)
  <2>1. worker[p].next \in Terminal \cup {"queued"}
    BY <1>1, <1>7 DEF Record, Fits, RecordMatchesAnswer, Agree
  <2>2. CASE state' = [state EXCEPT ![r] = worker[p].next] /\ UNCHANGED lost
    <3>1. Ledger!Work(r)
      BY <1>2, <1>3, <1>4, <2>1, <2>2 DEF Live, Terminal, Ledger!Work,
         Ledger!Working, Ledger!Finished, OwedRuns
    <3>2. QED
      BY <1>2, <3>1 DEF LedgerStep, Ledger!LedgerNext
  <2>3. CASE UNCHANGED <<state, lost>>
    BY <1>4, <2>3 DEF LedgerStep
  <2>4. CASE UNCHANGED state /\ lost' = lost \cup {r}
    <3>1. Ledger!WriteOff(r)
      BY <1>2, <1>3, <1>4, <2>4 DEF Live, Ledger!WriteOff, Ledger!Working, OwedRuns
    <3>2. QED
      BY <1>2, <3>1 DEF LedgerStep, Ledger!LedgerNext
  <2>5. QED
    BY <1>5, <1>7, <2>2, <2>3, <2>4 DEF Record
<1>8. CASE ContextFails(p)
  <2>1. Ledger!WriteOff(r)
    BY <1>2, <1>3, <1>4, <1>8 DEF ContextFails, Live, Ledger!WriteOff, Ledger!Working,
       OwedRuns
  <2>2. QED
    BY <1>2, <2>1 DEF LedgerStep, Ledger!LedgerNext
<1>9. QED
  BY <1>6, <1>7, <1>8

\* A message leaves the queue for a run that is over or written off, or leaves
\* another one behind.
LEMMA AcknowledgeLedger ==
  ASSUME IInv, NEW p \in Partitions, Acknowledge(p)
  PROVE  LedgerStep
<1> DEFINE m == Msg(p)
           r == RunAt(p)
<1>1. Fits(worker[p], p) /\ worker[p].pc = "answered"
  BY DEF Acknowledge, IInv, CallsFit
<1>2. m \in pending /\ r \in Runs
  BY <1>1 DEF Fits, Holds, RunAt, Msg
<1>3. /\ pending' \in {pending, pending \ {m}}
      /\ pending' = pending \/ Dispensable(m)
      /\ UNCHANGED <<state, runOf, lost, contested>>
  BY <1>1 DEF Acknowledge, historyVars, Fits, LeavesWhenDone, Msg
<1>4. CASE \E n \in pending' : runOf[n] = r
  <2>1. UNCHANGED OwedRuns
    BY <1>2, <1>3, <1>4 DEF OwedRuns, Owed, RunAt
  <2>2. QED
    BY <1>3, <2>1 DEF LedgerStep
<1>5. CASE \A n \in pending' : runOf[n] # r
  <2>1. OwedRuns' = OwedRuns \ {r} /\ r \in OwedRuns
    BY <1>2, <1>3, <1>5 DEF OwedRuns, Owed, RunAt
  <2>2. state[r] \notin Live \/ r \in lost
    BY <1>2, <1>3, <1>5 DEF Dispensable, RunAt
  <2>3. Ledger!Discharge(r)
    BY <1>3, <2>1, <2>2 DEF Live, Ledger!Discharge, Ledger!Working, OwedRuns
  <2>4. QED
    BY <1>2, <2>3 DEF LedgerStep, Ledger!LedgerNext
<1>6. QED
  BY <1>4, <1>5

\* The other steps of a call change nothing but the call.
LEMMA CallStays ==
  ASSUME NEW p \in Partitions, Dispatch(p), ~ContextFails(p), ~StartHandler(p),
         ~Record(p), ~Acknowledge(p)
  PROVE  UNCHANGED <<state, runOf, pending, lost, contested>>
<1>1. CASE Deliver(p)
  BY <1>1 DEF Deliver, historyVars
<1>2. CASE Read(p) \/ HandlerReturns(p) \/ CheckCancelled(p)
  BY <1>2 DEF Read, HandlerReturns, CheckCancelled, queueVars, historyVars
<1>3. CASE TellTheEditor(p) \/ LeaseExpires(p)
  BY <1>3 DEF TellTheEditor, LeaseExpires, queueVars, historyVars
<1>4. QED
  BY <1>1, <1>2, <1>3 DEF Dispatch

LEMMA StepLedger ==
  ASSUME IInv, RetryHolds, [Next]_vars
  PROVE  LedgerStep
<1>1. ASSUME Process \/ UNCHANGED vars PROVE LedgerStep
  BY <1>1, OwedStays DEF Process, Register, StartPhase, Crash, vars, queueVars,
     historyVars, LedgerStep
<1>2. ASSUME NEW p \in Partitions, Dispatch(p) PROVE LedgerStep
  <2>1. CASE ContextFails(p) \/ StartHandler(p) \/ Record(p)
    BY <2>1, CallLedger
  <2>2. CASE Acknowledge(p)
    BY <2>2, AcknowledgeLedger
  <2>3. CASE ~ContextFails(p) /\ ~StartHandler(p) /\ ~Record(p) /\ ~Acknowledge(p)
    BY <1>2, <2>3, CallStays, OwedStays DEF LedgerStep
  <2>4. QED
    BY <1>2, <2>1, <2>2, <2>3 DEF Dispatch
<1>3. QED
  BY <1>1, <1>2, ClientsLedger DEF Next

\* Rows, queue and calls together keep the ledger's promise: a run is owed work
\* from its acceptance to its end, a debt is paid only for one that ended or was
\* written off, and what succeeded is asked for again only where two requests
\* had it in hand at once.
THEOREM LedgerIsKept == Spec => KeepsLedger
<1>1. Init => RetryHolds /\ Ledger!LedgerInit
  BY DEF Init, RetryHolds, Ledger!LedgerInit, Owed
<1>2. IInv /\ RetryHolds /\ [Next]_vars => RetryHolds'
  BY RetryHoldsStep
<1>3. IInv /\ RetryHolds /\ [Next]_vars => [Ledger!LedgerNext]_(Ledger!ledger)
  BY StepLedger DEF LedgerStep, Ledger!ledger, OwedRuns
<1>4. QED
  BY <1>1, <1>2, <1>3, Invariant, PTL DEF Spec, KeepsLedger, Ledger!LedgerSpec

-----------------------------------------------------------------------------
(* A cancelled run is started at most once more.                           *)

\* A handler start with the flag on the row is the last: the flag stays until a
\* retry or the sweep, and whoever reads the row again sees it.
NotStarting(r) == \A p \in Partitions : worker[p].pc = "starting" => RunAt(p) # r
LateInv ==
  \A r \in Runs : lateStarts[r] # 0 =>
    /\ lateStarts[r] = 1
    /\ (Exists(r) /\ cancelRequested[r]) \/ state[r] = "pruned"
    /\ NotStarting(r)

LEMMA PostKeepsRuns ==
  ASSUME IInv, NEW r \in Runs, Post(r), NEW m \in pending
  PROVE  m # sent + 1 /\ m <= sent /\ runOf'[m] = runOf[m] /\ attempts'[m] = attempts[m]
<1>1. m \in 1..sent /\ sent \in Nat /\ m \in Msgs
  BY NumberAssumption DEF IInv, QueueOK, TypeOK
<1>2. QED
  BY <1>1 DEF Post, IInv, TypeOK

LEMMA PostKeepsStarting ==
  ASSUME IInv, NEW s \in Runs, Post(s), UNCHANGED worker, NEW r \in Runs, NotStarting(r)
  PROVE  NotStarting(r)'
<1> SUFFICES ASSUME NEW p \in Partitions, worker[p].pc = "starting"
             PROVE  runOf'[worker[p].msg] # r
  BY DEF NotStarting, RunAt, Msg
<1>1. worker[p].msg \in pending /\ runOf[worker[p].msg] # r
  BY DEF IInv, CallsFit, Fits, Holds, NotStarting, RunAt, Msg
<1>2. QED
  BY <1>1, PostKeepsRuns

LEMMA ClientsLate ==
  ASSUME IInv, LateInv, NEW s \in Runs, Clients(s)
  PROVE  LateInv'
<1> SUFFICES ASSUME NEW r \in Runs, lateStarts'[r] # 0
             PROVE  /\ lateStarts'[r] = 1
                    /\ (Exists(r)' /\ cancelRequested'[r]) \/ state'[r] = "pruned"
                    /\ NotStarting(r)'
  BY DEF LateInv
<1>1. CASE Enqueue(s)
  BY <1>1, PostKeepsStarting DEF Enqueue, historyVars, LateInv, Exists, Live, Terminal,
     IInv, TypeOK
<1>2. CASE CancelCheck(s) \/ RetryCheck(s)
  BY <1>2 DEF CancelCheck, RetryCheck, historyVars, queueVars, LateInv, NotStarting,
     RunAt, Msg, Exists
<1>3. CASE CancelWrite(s)
  BY <1>3 DEF CancelWrite, historyVars, queueVars, LateInv, NotStarting, RunAt, Msg,
     Exists, IInv, TypeOK
<1>4. CASE RetryWrite(s)
  <2>1. r # s /\ lateStarts'[r] = lateStarts[r] /\ cancelRequested'[r] = cancelRequested[r]
        /\ state'[r] = state[r]
    BY <1>4 DEF RetryWrite, IInv, TypeOK
  <2>2. QED
    BY <1>4, <2>1, PostKeepsStarting DEF RetryWrite, LateInv, Exists
<1>5. CASE Prune(s)
  BY <1>5 DEF Prune, historyVars, queueVars, LateInv, NotStarting, RunAt, Msg, Exists,
     IInv, TypeOK
<1>6. QED
  BY <1>1, <1>2, <1>3, <1>4, <1>5 DEF Clients

\* What the steps of a call leave alone.
LEMMA DispatchLeaves ==
  ASSUME NEW p \in Partitions, Dispatch(p)
  PROVE  /\ UNCHANGED <<runOf, cancelRequested>>
         /\ StartHandler(p) \/ UNCHANGED <<starts, lateStarts>>
         /\ ContextFails(p) \/ StartHandler(p) \/ Record(p) \/ UNCHANGED lost
         /\ StartHandler(p) \/ Record(p) \/ UNCHANGED state
<1>1. CASE Deliver(p)
  BY <1>1 DEF Deliver, historyVars
<1>2. CASE Read(p) \/ HandlerReturns(p) \/ CheckCancelled(p)
  BY <1>2 DEF Read, HandlerReturns, CheckCancelled, queueVars, historyVars
<1>3. CASE ContextFails(p) \/ StartHandler(p) \/ Record(p)
  BY <1>3 DEF ContextFails, StartHandler, Record, queueVars
<1>4. CASE TellTheEditor(p) \/ Acknowledge(p) \/ LeaseExpires(p)
  BY <1>4 DEF TellTheEditor, Acknowledge, LeaseExpires, queueVars, historyVars
<1>5. QED
  BY <1>1, <1>2, <1>3, <1>4 DEF Dispatch

LEMMA OtherCallsStay ==
  ASSUME worker \in [Partitions -> Worker], NEW p \in Partitions, Dispatch(p),
         NEW q \in Partitions, q # p
  PROVE  worker'[q] = worker[q]
<1>1. CASE Deliver(p)
  BY <1>1 DEF Deliver
<1>2. CASE Read(p)
  BY <1>2 DEF Read, ReadFails, ReadMissing, ReadSettled, ReadCancelled, ReadUnhandled,
     ReadGaveUp, ReadStart, Answers, Records, GoTo
<1>3. CASE StartHandler(p) \/ HandlerReturns(p) \/ Record(p) \/ TellTheEditor(p)
            \/ ContextFails(p)
  BY <1>3 DEF StartHandler, HandlerReturns, Record, TellTheEditor, ContextFails, Answers,
     GoTo
<1>4. CASE CheckCancelled(p)
  BY <1>4 DEF CheckCancelled, Conclude, Records
<1>5. CASE Acknowledge(p) \/ LeaseExpires(p)
  BY <1>5 DEF Acknowledge, LeaseExpires
<1>6. QED
  BY <1>1, <1>2, <1>3, <1>4, <1>5 DEF Dispatch

\* Only the read of a row that is live and not cancelled leads to a start.
LEMMA StartsWorkable ==
  ASSUME IInv, NEW p \in Partitions, Dispatch(p), NEW q \in Partitions,
         worker'[q].pc = "starting"
  PROVE  \/ worker'[q] = worker[q]
         \/ /\ q = p /\ worker[p].pc = "delivered" /\ ReadStart(p)
            /\ worker'[p].msg = Msg(p)
<1>1. worker \in [Partitions -> Worker] /\ worker[p] \in Worker
  BY DEF IInv, TypeOK
<1>2. CASE q # p
  BY <1>1, <1>2, OtherCallsStay
<1>3. CASE q = p
  <2>1. CASE Deliver(p)
    BY <1>1, <1>3, <2>1 DEF Deliver, Idle
  <2>2. CASE Read(p)
    <3>1. worker[p].pc = "delivered"
      BY <2>2 DEF Read
    <3>2. CASE ReadStart(p)
      BY <1>1, <1>3, <3>1, <3>2 DEF ReadStart, GoTo, Worker, Msg
    <3>3. CASE ~ReadStart(p)
      BY <1>1, <1>3, <2>2, <3>3 DEF Read, ReadFails, ReadMissing, ReadSettled,
         ReadCancelled, ReadUnhandled, ReadGaveUp, Answers, Records, Worker
    <3>4. QED
      BY <3>2, <3>3
  <2>3. CASE StartHandler(p) \/ HandlerReturns(p)
    BY <1>1, <1>3, <2>3 DEF StartHandler, HandlerReturns, GoTo, Worker
  <2>4. CASE CheckCancelled(p) \/ ContextFails(p)
    BY <1>1, <1>3, <2>4 DEF CheckCancelled, Conclude, Records, ContextFails, Answers,
       Worker
  <2>5. CASE Record(p) \/ TellTheEditor(p)
    BY <1>1, <1>3, <2>5 DEF Record, TellTheEditor, GoTo, Worker
  <2>6. CASE Acknowledge(p) \/ LeaseExpires(p)
    BY <1>1, <1>3, <2>6 DEF Acknowledge, LeaseExpires, Idle
  <2>7. QED
    BY <2>1, <2>2, <2>3, <2>4, <2>5, <2>6 DEF Dispatch
<1>4. QED
  BY <1>2, <1>3

\* A call comes to its start only over a row that is there and not cancelled.
LEMMA DispatchLate ==
  ASSUME IInv, LateInv, NEW p \in Partitions, Dispatch(p)
  PROVE  LateInv'
<1> SUFFICES ASSUME NEW r \in Runs, lateStarts'[r] # 0
             PROVE  /\ lateStarts'[r] = 1
                    /\ (Exists(r)' /\ cancelRequested'[r]) \/ state'[r] = "pruned"
                    /\ NotStarting(r)'
  BY DEF LateInv
<1>1. /\ worker \in [Partitions -> Worker] /\ worker[p] \in Worker
      /\ Fits(worker[p], p) /\ UNCHANGED <<runOf, cancelRequested>>
  BY DispatchLeaves DEF IInv, CallsFit, TypeOK
<1>2. CASE StartHandler(p)
  <2>1. RunAt(p) \in Runs /\ state[RunAt(p)] \in Live /\ PartitionOf[RunAt(p)] = p
    BY <1>1, <1>2 DEF StartHandler, Fits, Holds, WorksOnLive, Deciding, RunAt, Msg
  <2>2. Becomes(p, [worker[p] EXCEPT !.pc = "running"])
    BY <1>1, <1>2, GoToPuts DEF StartHandler, Pc
  <2>3. state'[RunAt(p)] \in Live /\ \A s \in Runs \ {RunAt(p)} : state'[s] = state[s]
    BY <1>2, <2>1 DEF StartHandler, IInv, TypeOK, Live
  <2>4. CASE r = RunAt(p)
    <3>1. lateStarts[r] = 0 /\ cancelRequested[r] /\ lateStarts'[r] = 1
      BY <1>2, <2>1, <2>4 DEF StartHandler, LateInv, NotStarting, IInv, TypeOK
    <3>2. NotStarting(r)'
      <4> SUFFICES ASSUME NEW q \in Partitions, worker'[q].pc = "starting"
                   PROVE  runOf[worker'[q].msg] # r
        BY <1>1 DEF NotStarting, RunAt, Msg
      <4>1. q # p /\ worker'[q] = worker[q]
        BY <1>1, <2>2 DEF Becomes, Worker
      <4>2. PartitionOf[runOf[worker[q].msg]] = q
        BY <4>1 DEF IInv, CallsFit, Fits, Holds
      <4>3. QED
        BY <2>1, <2>4, <4>1, <4>2
    <3>3. QED
      BY <1>1, <2>3, <2>4, <3>1, <3>2 DEF Exists
  <2>5. CASE r # RunAt(p)
    <3>1. lateStarts'[r] = lateStarts[r]
      BY <1>2, <2>5 DEF StartHandler, IInv, TypeOK
    <3>2. NotStarting(r)'
      BY <1>1, <2>2, <3>1 DEF Becomes, LateInv, NotStarting, RunAt, Msg, Worker
    <3>3. QED
      BY <1>1, <2>3, <2>5, <3>1, <3>2 DEF LateInv, Exists
  <2>6. QED
    BY <2>4, <2>5
<1>3. CASE ~StartHandler(p)
  <2>1. UNCHANGED lateStarts
    BY <1>3, DispatchLeaves
  <2>2. (Exists(r)' /\ cancelRequested'[r]) \/ state'[r] = "pruned"
    <3>1. CASE Record(p)
      <4>1. worker[p].next \in Terminal \cup {"queued"}
        BY <1>1, <3>1 DEF Record, Fits, RecordMatchesAnswer, Agree
      <4>2. \A s \in Runs : state[s] = "pruned" => s # RunAt(p)
        BY <1>1, <3>1 DEF Record, Fits, WorksOnLive, Deciding, Live, RunAt, Msg
      <4>3. QED
        BY <1>1, <2>1, <3>1, <4>1, <4>2 DEF Record, LateInv, Exists, Live, IInv, TypeOK
    <3>2. CASE ~Record(p)
      BY <1>3, <2>1, <3>2, DispatchLeaves DEF LateInv, Exists
    <3>3. QED
      BY <3>1, <3>2
  <2>3. NotStarting(r)'
    <3> SUFFICES ASSUME NEW q \in Partitions, worker'[q].pc = "starting",
                        worker'[q] # worker[q]
                 PROVE  runOf[worker'[q].msg] # r
      BY <1>1, <2>1 DEF LateInv, NotStarting, RunAt, Msg
    <3>1. q = p /\ Workable(RunAt(p)) /\ worker'[p].msg = Msg(p)
      BY StartsWorkable DEF ReadStart
    <3>2. QED
      BY <2>1, <3>1 DEF Workable, LateInv, Exists, RunAt, Live, Terminal
  <2>4. QED
    BY <2>1, <2>2, <2>3 DEF LateInv
<1>4. QED
  BY <1>2, <1>3

LEMMA StepLate == IInv /\ LateInv /\ [Next]_vars => LateInv'
<1> SUFFICES ASSUME IInv, LateInv, [Next]_vars PROVE LateInv'
  OBVIOUS
<1>1. CASE Process
  <2>1. worker' \in {worker, [q \in Partitions |-> Idle]}
        /\ UNCHANGED <<state, cancelRequested, runOf, lateStarts>>
    BY <1>1 DEF Process, Register, StartPhase, Crash, queueVars, historyVars
  <2>2. QED
    BY <2>1 DEF LateInv, Exists, NotStarting, RunAt, Msg, Idle
<1>2. CASE UNCHANGED vars
  BY <1>2 DEF vars, queueVars, historyVars, LateInv, Exists, NotStarting, RunAt, Msg
<1>3. QED
  BY <1>1, <1>2, ClientsLate, DispatchLate DEF Next

\* Once a cancel is on the row at most one more handler call starts, the one
\* whose row was read before: no redelivery, crash or second dispatcher gets
\* past the flag.
THEOREM CancelHolds == Spec => []CancelStopsStarts
<1>1. Init => LateInv
  BY DEF Init, LateInv
<1>2. IInv /\ LateInv => CancelStopsStarts
  BY DEF LateInv, CancelStopsStarts, IInv, TypeOK
<1>3. QED
  BY <1>1, <1>2, StepLate, Invariant, PTL DEF Spec

-----------------------------------------------------------------------------
(* A request to run starts the handler at most HandlerMax times.           *)

\* The message of a run that goes first; nothing later of the run is delivered
\* before it has left.
Foremost(m) == m \in pending /\ \A n \in pending : runOf[n] = runOf[m] => m <= n
Counts(r)   == state[r] \in Live /\ r \notin lost

FreshRuns == \A r \in Runs : state[r] = "none" => starts[r] = 0
\* Each start was preceded by a delivery of the foremost message ...
StartsCounted ==
  \A m \in pending :
    Foremost(m) /\ Counts(runOf[m]) => starts[runOf[m]] <= attempts[m]
\* ... which a call that may start the handler has added.  A message leaves only a
\* run that ended, and when that is retried it has no starts.
CallCounts(w) ==
  /\ w.pc # "idle" => Foremost(w.msg)
  /\ w.pc \in {"delivered", "starting"} =>
       /\ attempts[w.msg] > 0
       /\ Counts(runOf[w.msg]) =>
            starts[runOf[w.msg]] < attempts[w.msg] \/ attempts[w.msg] > HandlerMax
  /\ w.pc = "starting" => attempts[w.msg] <= HandlerMax
  /\ w.pc \in {"telling", "answered"} /\ w.answer # "retry" /\ Counts(runOf[w.msg])
       => starts[runOf[w.msg]] = 0
CallsCount == \A p \in Partitions : CallCounts(worker[p])
RowsCount  == FreshRuns /\ StartsBounded /\ StartsCounted
CountInv   == RowsCount /\ CallsCount

LEMMA CountTypes ==
  ASSUME IInv
  PROVE  /\ starts \in [Runs -> Nat] /\ attempts \in [Msgs -> Nat] /\ pending \subseteq Msgs
         /\ Msgs \subseteq Nat /\ HandlerMax \in Nat
         /\ \A m \in pending : runOf[m] \in Runs
         /\ worker \in [Partitions -> Worker]
         /\ \A p \in Partitions : worker[p].pc # "idle" =>
              /\ worker[p].msg \in pending /\ runOf[worker[p].msg] \in Runs
              /\ PartitionOf[runOf[worker[p].msg]] = p
<1>1. 0..AttemptCeiling \subseteq Nat /\ Msgs \subseteq Nat
  BY NumberAssumption DEF Msgs
<1>2. QED
  BY <1>1, NumberAssumption DEF IInv, TypeOK, QueueOK, CallsFit, Fits, Holds

\* A step that starts nothing, moves no message, and revives no run.
Tames == /\ UNCHANGED <<runOf, pending, attempts, starts>>
         /\ lost \subseteq lost'
         /\ \A r \in Runs : /\ state'[r] \in Live => state[r] \in Live
                            /\ state'[r] = "none" => state[r] = "none"

LEMMA TamesRows ==
  ASSUME IInv, RowsCount, Tames
  PROVE  RowsCount'
<1>1. \A m \in pending : runOf[m] \in Runs
  BY CountTypes
<1>2. QED
  BY <1>1 DEF RowsCount, Tames, FreshRuns, StartsBounded, StartsCounted, Foremost, Counts

\* Such a step of the call of p, when what it becomes counts right.
LEMMA CallTames ==
  ASSUME IInv, CountInv, Tames, NEW p \in Partitions, Dispatch(p),
         CallCounts(worker[p])'
  PROVE  CountInv'
<1>1. ASSUME NEW q \in Partitions, q # p PROVE CallCounts(worker[q])'
  <2>1. worker'[q] = worker[q]
    BY <1>1, OtherCallsStay DEF IInv, TypeOK
  <2>2. CallCounts(worker[q]) /\ (worker[q].pc = "idle" \/ runOf[worker[q].msg] \in Runs)
    BY CountTypes DEF CountInv, CallsCount
  <2>3. QED
    BY <2>1, <2>2 DEF Tames, CallCounts, Foremost, Counts
<1>2. QED
  BY <1>1, TamesRows DEF CountInv, CallsCount

-----------------------------------------------------------------------------
LEMMA PostCounts ==
  ASSUME IInv, CountInv, NEW s \in Runs, Post(s), UNCHANGED worker,
         starts' = [starts EXCEPT ![s] = 0],
         \A r \in Runs \ {s} : state'[r] = state[r] /\ (r \in lost' <=> r \in lost)
  PROVE  CountInv'
<1> DEFINE new == sent + 1
<1>1. /\ pending' = pending \cup {new} /\ runOf'[new] = s /\ attempts'[new] \in Nat
      /\ \A m \in pending : /\ m # new /\ m <= new
                            /\ runOf'[m] = runOf[m] /\ attempts'[m] = attempts[m]
  <2>1. new \in Msgs /\ sent \in Nat
    BY NumberAssumption DEF Post, IInv, TypeOK, Msgs
  <2>2. runOf'[new] = s /\ attempts'[new] = 0 /\ pending' = pending \cup {new}
    BY <2>1 DEF Post, IInv, TypeOK
  <2>3. ASSUME NEW m \in pending PROVE m <= new /\ m # new
    BY <2>1, PostKeepsRuns, CountTypes
  <2>4. QED
    BY <2>2, <2>3, PostKeepsRuns
<1>2. starts'[s] = 0 /\ \A r \in Runs \ {s} : starts'[r] = starts[r]
  BY CountTypes
<1>3. RowsCount'
  <2>1. FreshRuns' /\ StartsBounded'
    BY <1>2, CountTypes DEF CountInv, RowsCount, FreshRuns, StartsBounded
  <2>2. StartsCounted'
    <3> SUFFICES ASSUME NEW m \in pending', Foremost(m)', Counts(runOf[m])'
                 PROVE  starts'[runOf'[m]] <= attempts'[m]
      BY DEF StartsCounted
    <3>1. CASE runOf'[m] = s
      BY <1>1, <1>2, <3>1, CountTypes
    <3>2. CASE runOf'[m] # s
      <4>1. m \in pending /\ Foremost(m) /\ Counts(runOf[m])
        BY <1>1, <3>2, CountTypes DEF Foremost, Counts
      <4>2. QED
        BY <1>1, <1>2, <3>2, <4>1, CountTypes DEF CountInv, RowsCount, StartsCounted
    <3>3. QED
      BY <3>1, <3>2
  <2>3. QED
    BY <2>1, <2>2 DEF RowsCount
<1>4. ASSUME NEW p \in Partitions PROVE CallCounts(worker[p])'
  <2> DEFINE w == worker[p]
  <2>1. CallCounts(w) /\ (w.pc # "idle" => w.msg \in pending /\ runOf[w.msg] \in Runs)
    BY CountTypes DEF CountInv, CallsCount
  <2>2. w.pc # "idle" => /\ Foremost(w.msg)'
                         /\ attempts'[w.msg] = attempts[w.msg]
                         /\ runOf'[w.msg] = runOf[w.msg]
    BY <1>1, <2>1 DEF CallCounts, Foremost
  <2>3. CASE w.pc = "idle"
    BY <2>3 DEF CallCounts
  <2>4. CASE w.pc # "idle" /\ runOf[w.msg] = s
    <3>1. starts'[runOf'[w.msg]] = 0
      BY <1>2, <2>2, <2>4
    <3>2. QED
      BY <2>1, <2>2, <2>4, <3>1, CountTypes DEF CallCounts
  <2>5. CASE w.pc # "idle" /\ runOf[w.msg] # s
    <3>1. /\ starts'[runOf'[w.msg]] = starts[runOf[w.msg]]
          /\ Counts(runOf[w.msg])' => Counts(runOf[w.msg])
      BY <1>2, <2>1, <2>2, <2>5 DEF Counts
    <3>2. QED
      BY <2>1, <2>2, <2>5, <3>1, CountTypes DEF CallCounts
  <2>6. QED
    BY <2>3, <2>4, <2>5
<1>5. QED
  BY <1>3, <1>4 DEF CountInv, CallsCount

LEMMA ClientsCount ==
  ASSUME IInv, CountInv, NEW s \in Runs, Clients(s)
  PROVE  CountInv'
<1>1. CASE Enqueue(s)
  <2>1. starts' = [starts EXCEPT ![s] = 0]
    BY <1>1, CountTypes DEF Enqueue, historyVars, CountInv, RowsCount, FreshRuns
  <2>2. QED
    BY <1>1, <2>1, PostCounts DEF Enqueue, historyVars, IInv, TypeOK
<1>2. CASE RetryWrite(s)
  BY <1>2, PostCounts DEF RetryWrite, IInv, TypeOK
<1>3. CASE CancelCheck(s) \/ CancelWrite(s) \/ RetryCheck(s) \/ Prune(s)
  <2>1. Tames /\ UNCHANGED worker
    BY <1>3 DEF CancelCheck, CancelWrite, RetryCheck, Prune, queueVars, historyVars,
       Tames, Live, Terminal, IInv, TypeOK
  <2>2. CallsCount'
    <3> SUFFICES ASSUME NEW p \in Partitions PROVE CallCounts(worker[p])'
      BY DEF CallsCount
    <3>1. CallCounts(worker[p]) /\ (worker[p].pc = "idle" \/ runOf[worker[p].msg] \in Runs)
      BY CountTypes DEF CountInv, CallsCount
    <3>2. QED
      BY <2>1, <3>1 DEF Tames, CallCounts, Foremost, Counts
  <2>3. QED
    BY <2>1, <2>2, TamesRows DEF CountInv
<1>4. QED
  BY <1>1, <1>2, <1>3 DEF Clients

-----------------------------------------------------------------------------
\* The steps of a call that start nothing and answer nothing to the queue.
LEMMA CallMovesCount ==
  ASSUME IInv, CountInv, NEW p \in Partitions,
         Read(p) \/ HandlerReturns(p) \/ CheckCancelled(p) \/ TellTheEditor(p)
           \/ LeaseExpires(p)
  PROVE  CountInv'
<1> DEFINE w == worker[p]
<1>1. Tames
  <2>1. UNCHANGED <<state, runOf, pending, attempts, starts, lost>>
    <3>1. CASE Read(p) \/ HandlerReturns(p) \/ CheckCancelled(p)
      BY <3>1 DEF Read, HandlerReturns, CheckCancelled, queueVars, historyVars
    <3>2. CASE TellTheEditor(p) \/ LeaseExpires(p)
      BY <3>2 DEF TellTheEditor, LeaseExpires, queueVars, historyVars
    <3>3. QED
      BY <3>1, <3>2
  <2>2. QED
    BY <2>1 DEF Tames
<1>2. /\ worker \in [Partitions -> Worker] /\ w \in Worker
      /\ CallCounts(w) /\ RecordMatchesAnswer(w)
      /\ w.pc # "idle" => runOf[w.msg] \in Runs
  BY CountTypes DEF CountInv, CallsCount, IInv, CallsFit, Fits
<1>3. UNCHANGED state
  BY DEF Read, HandlerReturns, CheckCancelled, TellTheEditor, LeaseExpires
<1>4. ASSUME NEW v \in Worker, worker'[p] = v, v.msg = w.msg,
             w.pc # "idle",
             v.pc \in {"starting", "returned", "recording", "answered"},
             v.pc = "starting" => w.pc = "delivered" /\ attempts[w.msg] <= HandlerMax,
             v.pc = "answered" /\ v.answer # "retry" =>
               \/ state[runOf[w.msg]] \notin Live
               \/ w.pc = "telling" /\ w.answer # "retry"
      PROVE  CallCounts(worker[p])'
  BY <1>1, <1>2, <1>3, <1>4 DEF Tames, CallCounts, Foremost, Counts
<1>5. CallCounts(worker[p])'
  <2>1. CASE Read(p)
    <3>1. w.pc = "delivered"
      BY <2>1 DEF Read
    <3>2. CASE ReadStart(p)
      <4>1. worker'[p] = [w EXCEPT !.pc = "starting"] /\ attempts[w.msg] <= HandlerMax
        <5>1. attempts[w.msg] \in Nat
          BY <3>1, CountTypes
        <5>2. QED
          BY <1>2, <3>2, <5>1, CountTypes DEF ReadStart, TooManyDeliveries, GoTo, Msg
      <4>2. QED
        BY <1>2, <1>4, <3>1, <4>1 DEF Worker, Pc
    <3>3. ASSUME NEW a \in Answer, NEW why \in Reason, Answers(p, a, why),
                 a = "retry" \/ state[RunAt(p)] \notin Live
          PROVE  CallCounts(worker[p])'
      <4>1. worker'[p] = [w EXCEPT !.pc = "answered", !.answer = a, !.why = why]
        BY <1>2, <3>3 DEF Answers
      <4>2. QED
        BY <1>2, <1>4, <3>1, <3>3, <4>1 DEF Worker, Pc, RunAt, Msg
    <3>4. ASSUME NEW n \in Terminal, NEW a \in Answer, NEW why \in Reason, Records(p, n, a, why)
          PROVE  CallCounts(worker[p])'
      <4>1. worker'[p] = [w EXCEPT !.pc = "recording", !.next = n, !.answer = a, !.why = why]
        BY <1>2, <3>4 DEF Records
      <4>2. QED
        BY ZenonT(90), <1>2, <1>4, <3>1, <4>1 DEF Worker, Pc, RowState
    <3>5. CASE ReadFails(p) \/ ReadMissing(p) \/ ReadSettled(p)
      BY <3>3, <3>5 DEF ReadFails, ReadMissing, ReadSettled, Exists, Settled, Live, Terminal,
         Answer, Reason
    <3>6. CASE ReadCancelled(p) \/ ReadGaveUp(p)
      BY <3>4, <3>6 DEF ReadCancelled, ReadGaveUp, Terminal, Answer, Reason
    <3>7. CASE ReadUnhandled(p)
      BY <3>3, <3>4, <3>7 DEF ReadUnhandled, Terminal, Answer, Reason
    <3>8. QED
      BY <2>1, <3>2, <3>5, <3>6, <3>7 DEF Read
  <2>2. CASE HandlerReturns(p)
    <3>1. PICK o \in Outcome : worker' = [worker EXCEPT ![p].pc = "returned", ![p].next = o]
      BY <2>2 DEF HandlerReturns
    <3>2. worker'[p] = [w EXCEPT !.pc = "returned", !.next = o]
      BY <1>2, <3>1
    <3>3. w.pc # "idle"
      BY <2>2 DEF HandlerReturns
    <3>4. QED
      BY <1>2, <1>4, <3>2, <3>3 DEF Worker, Pc
  <2>3. CASE CheckCancelled(p)
    <3>1. PICK n \in RowState, a \in Answer, why \in Reason : Records(p, n, a, why)
      <4>1. w.next \in Outcome
        BY <1>2, <2>3 DEF CheckCancelled, RecordMatchesAnswer
      <4>2. ASSUME NEW o \in Outcome, Conclude(p, o)
            PROVE  \E n \in RowState, a \in Answer, why \in Reason : Records(p, n, a, why)
        BY <4>2 DEF Conclude, RowState, Live, Terminal, Answer, Reason
      <4>3. QED
        BY <2>3, <4>1, <4>2 DEF CheckCancelled, RowState, Terminal, Answer, Reason
    <3>2. worker'[p] = [w EXCEPT !.pc = "recording", !.next = n, !.answer = a, !.why = why]
      BY <1>2, <3>1 DEF Records
    <3>3. w.pc # "idle"
      BY <2>3 DEF CheckCancelled
    <3>4. QED
      BY <1>2, <1>4, <3>2, <3>3 DEF Worker, Pc
  <2>4. CASE TellTheEditor(p)
    <3>1. w.pc = "telling" /\ worker'[p] = [w EXCEPT !.pc = "answered"]
      BY <1>2, <2>4 DEF TellTheEditor, GoTo
    <3>2. w.answer # "retry"
      BY <1>2, <3>1 DEF RecordMatchesAnswer
    <3>3. QED
      BY <1>2, <1>4, <3>1, <3>2 DEF Worker, Pc
  <2>5. CASE LeaseExpires(p)
    BY <1>2, <2>5 DEF LeaseExpires, Idle, CallCounts
  <2>6. QED
    BY <2>1, <2>2, <2>3, <2>4, <2>5
<1>6. QED
  BY <1>1, <1>5, CallTames DEF Dispatch

\* A run whose context cannot be built is written off.
LEMMA ContextCounts ==
  ASSUME IInv, CountInv, NEW p \in Partitions, ContextFails(p)
  PROVE  CountInv'
<1> DEFINE w == worker[p]
           r == RunAt(p)
<1>1. /\ worker \in [Partitions -> Worker] /\ w \in Worker /\ w.pc = "starting"
      /\ CallCounts(w) /\ r \in Runs
  BY CountTypes DEF ContextFails, CountInv, CallsCount, RunAt, Msg
<1>2. worker'[p] = [w EXCEPT !.pc = "answered", !.answer = "reject", !.why = "contextless"]
  BY <1>1 DEF ContextFails, Answers
<1>3. UNCHANGED <<state, runOf, pending, attempts, starts>> /\ lost' = lost \cup {r}
  BY DEF ContextFails, queueVars
<1>4. Tames
  BY <1>3 DEF Tames
<1>5. CallCounts(worker[p])'
  <2>1. worker'[p].msg = w.msg /\ worker'[p].pc = "answered"
    BY <1>1, <1>2 DEF Worker
  <2>2. Foremost(worker[p].msg)'
    BY <1>1, <1>3, <2>1 DEF CallCounts, Foremost
  <2>3. ~Counts(runOf[worker[p].msg])'
    BY <1>3, <2>1 DEF Counts, RunAt, Msg
  <2>4. QED
    BY <2>1, <2>2, <2>3 DEF CallCounts
<1>6. QED
  BY <1>4, <1>5, CallTames DEF Dispatch

\* A record that answers the queue ends the run or writes it off.
LEMMA RecordCounts ==
  ASSUME IInv, CountInv, NEW p \in Partitions, Record(p)
  PROVE  CountInv'
<1> DEFINE w == worker[p]
           r == RunAt(p)
<1>1. /\ worker \in [Partitions -> Worker] /\ w \in Worker /\ w.pc = "recording"
      /\ CallCounts(w) /\ Agree(w.next, w.answer) /\ r \in Runs /\ state[r] \in Live
  BY CountTypes DEF Record, CountInv, CallsCount, IInv, CallsFit, Fits, WorksOnLive,
     RecordMatchesAnswer, Deciding, RunAt, Msg
<1>2. /\ worker'[p] = [w EXCEPT !.pc = IF w.next \in Terminal THEN "telling" ELSE "answered"]
      /\ UNCHANGED <<runOf, pending, attempts, starts>>
  BY <1>1 DEF Record, GoTo, queueVars
<1>3. /\ state'[r] \in {state[r], w.next} /\ \A s \in Runs \ {r} : state'[s] = state[s]
      /\ lost' \in {lost, lost \cup {r}}
      /\ w.answer # "retry" => state'[r] \notin Live \/ r \in lost'
  <2>1. CASE UNCHANGED lost /\ state' = [state EXCEPT ![r] = IF Exists(r) THEN w.next ELSE @]
    BY <1>1, <2>1 DEF Agree, Exists, Live, Terminal, IInv, TypeOK
  <2>2. CASE UNCHANGED state /\ lost' = IF w.answer \in {"ok", "reject"} /\ state[r] \in Live
                                        THEN lost \cup {r} ELSE lost
    BY <1>1, <2>2 DEF Agree
  <2>3. QED
    BY <2>1, <2>2 DEF Record
<1>4. Tames
  BY <1>1, <1>2, <1>3 DEF Tames, Agree, Terminal, Live
<1>5. CallCounts(worker[p])'
  <2>1. runOf'[worker'[p].msg] = r /\ worker'[p].msg = w.msg /\ worker'[p].answer = w.answer
        /\ worker'[p].pc \in {"telling", "answered"}
    BY <1>1, <1>2 DEF Worker, RunAt, Msg
  <2>2. Foremost(worker[p].msg)'
    BY <1>1, <1>2, <2>1 DEF CallCounts, Foremost
  <2>3. w.answer # "retry" => ~Counts(runOf[worker[p].msg])'
    BY <1>3, <2>1 DEF Counts
  <2>4. QED
    BY <2>1, <2>2, <2>3 DEF CallCounts
<1>6. QED
  BY <1>4, <1>5, CallTames DEF Dispatch

\* A delivery counts before a start does.
LEMMA DeliverCounts ==
  ASSUME IInv, CountInv, NEW p \in Partitions, Deliver(p)
  PROVE  CountInv'
<1>1. PICK m \in InPartition(p) :
        /\ \A n \in InPartition(p) : m <= n
        /\ worker' = [worker EXCEPT ![p] = [Idle EXCEPT !.pc = "delivered", !.msg = m]]
        /\ attempts' = [attempts EXCEPT ![m] = Counted(@)]
  BY Zenon DEF Deliver
<1> DEFINE r == runOf[m]
<1>2. m \in pending /\ m \in Msgs /\ r \in Runs /\ PartitionOf[r] = p /\ Foremost(m)
  BY <1>1 DEF InPartition, Foremost, IInv, TypeOK
<1>3. /\ UNCHANGED <<state, runOf, pending, starts, lost>>
      /\ attempts'[m] \in Nat /\ attempts'[m] > 0 /\ attempts[m] <= attempts'[m]
      /\ attempts[m] < attempts'[m] \/ attempts'[m] > HandlerMax
      /\ \A n \in pending : n # m => attempts'[n] = attempts[n]
  <2>1. attempts[m] \in 0..AttemptCeiling /\ AttemptCeiling \in Nat
        /\ AttemptCeiling > HandlerMax /\ HandlerMax \in Nat
    BY <1>2, NumberAssumption DEF IInv, TypeOK
  <2>2. attempts'[m] = Counted(attempts[m]) /\ \A n \in pending : n # m => attempts'[n] = attempts[n]
    BY <1>1, <1>2, CountTypes
  <2>3. QED
    BY <2>1, <2>2 DEF Counted, Deliver, historyVars
<1>4. RowsCount'
  <2>1. FreshRuns' /\ StartsBounded'
    BY <1>3 DEF CountInv, RowsCount, FreshRuns, StartsBounded
  <2>2. StartsCounted'
    <3> SUFFICES ASSUME NEW n \in pending, Foremost(n), Counts(runOf[n])
                 PROVE  starts[runOf[n]] <= attempts'[n]
      BY <1>3 DEF StartsCounted, Foremost, Counts
    <3>1. starts[runOf[n]] <= attempts[n] /\ starts[runOf[n]] \in Nat /\ attempts[n] \in Nat
      BY CountTypes DEF CountInv, RowsCount, StartsCounted
    <3>2. QED
      BY <1>3, <3>1
  <2>3. QED
    BY <2>1, <2>2 DEF RowsCount
<1>5. CallCounts(worker[p])'
  <2>1. worker'[p] = [Idle EXCEPT !.pc = "delivered", !.msg = m]
    BY <1>1, CountTypes
  <2>2. Counts(r) => starts[r] < attempts'[m] \/ attempts'[m] > HandlerMax
    <3>1. Counts(r) => starts[r] <= attempts[m]
      BY <1>2 DEF CountInv, RowsCount, StartsCounted
    <3>2. starts[r] \in Nat /\ attempts[m] \in Nat
      BY <1>2, CountTypes
    <3>3. QED
      BY <1>3, <3>1, <3>2
  <2>3. Foremost(worker[p].msg)' /\ (Counts(runOf[worker[p].msg])' <=> Counts(r))
        /\ runOf'[worker'[p].msg] = r /\ worker'[p].msg = m /\ worker'[p].pc = "delivered"
    BY <1>2, <1>3, <2>1 DEF Foremost, Counts, Idle
  <2>4. QED
    BY <1>3, <2>2, <2>3 DEF CallCounts
<1>6. ASSUME NEW q \in Partitions, q # p PROVE CallCounts(worker[q])'
  <2>1. worker'[q] = worker[q]
    BY <1>1, CountTypes, <1>6
  <2>2. worker[q].pc # "idle" => worker[q].msg \in pending /\ worker[q].msg # m
    BY <1>2, <1>6, CountTypes
  <2>3. CallCounts(worker[q])
    BY DEF CountInv, CallsCount
  <2>4. QED
    BY <1>3, <2>1, <2>2, <2>3 DEF CallCounts, Foremost, Counts
<1>7. QED
  BY <1>4, <1>5, <1>6 DEF CountInv, CallsCount

\* A start is counted against the delivery that came before it.
LEMMA StartCounts ==
  ASSUME IInv, CountInv, NEW p \in Partitions, StartHandler(p)
  PROVE  CountInv'
<1> DEFINE w == worker[p]
           m == Msg(p)
           r == RunAt(p)
<1>1. /\ worker \in [Partitions -> Worker] /\ w \in Worker /\ w.pc = "starting" /\ CallCounts(w)
      /\ r \in Runs /\ m \in pending /\ PartitionOf[r] = p /\ state[r] \in Live
  BY CountTypes DEF StartHandler, CountInv, CallsCount, IInv, CallsFit, Fits, WorksOnLive,
     Deciding, RunAt, Msg
<1>2. /\ worker'[p] = [w EXCEPT !.pc = "running"]
      /\ \A q \in Partitions \ {p} : worker'[q] = worker[q]
      /\ UNCHANGED <<runOf, pending, attempts, lost>>
      /\ starts'[r] = starts[r] + 1 /\ \A s \in Runs \ {r} : starts'[s] = starts[s]
  <2>1. UNCHANGED <<runOf, pending, attempts, lost>>
    BY DEF StartHandler, queueVars
  <2>2. starts'[r] = starts[r] + 1 /\ \A s \in Runs \ {r} : starts'[s] = starts[s]
    BY <1>1, CountTypes DEF StartHandler
  <2>3. QED
    BY <1>1, <2>1, <2>2 DEF StartHandler, GoTo
<1>3. state'[r] \in Live /\ \A s \in Runs \ {r} : state'[s] = state[s]
  BY <1>1 DEF StartHandler, IInv, TypeOK, Live
<1>4. r \notin lost => starts'[r] <= attempts[m] /\ starts'[r] <= HandlerMax
  <2>1. r \notin lost => starts[r] < attempts[m] \/ attempts[m] > HandlerMax
    BY <1>1 DEF CallCounts, Counts, RunAt, Msg
  <2>2. attempts[m] <= HandlerMax
    BY <1>1 DEF CallCounts, Msg
  <2>3. starts[r] \in Nat /\ attempts[m] \in Nat /\ HandlerMax \in Nat
    BY <1>1, CountTypes
  <2>4. QED
    BY <1>2, <2>1, <2>2, <2>3
<1>5. RowsCount'
  <2>1. FreshRuns'
    BY <1>2, <1>3 DEF CountInv, RowsCount, FreshRuns, Live
  <2>2. StartsBounded'
    BY <1>2, <1>4 DEF CountInv, RowsCount, StartsBounded
  <2>3. StartsCounted'
    <3> SUFFICES ASSUME NEW n \in pending, Foremost(n), Counts(runOf[n])'
                 PROVE  starts'[runOf[n]] <= attempts[n]
      BY <1>2 DEF StartsCounted, Foremost
    <3>1. CASE runOf[n] = r
      <4>1. n = m
        <5>1. n <= m /\ m <= n
          BY <1>1, <3>1 DEF CallCounts, Foremost, RunAt, Msg
        <5>2. n \in Nat /\ m \in Nat
          BY <1>1, CountTypes
        <5>3. QED
          BY <5>1, <5>2
      <4>2. r \notin lost
        BY <1>2, <3>1 DEF Counts
      <4>3. QED
        BY <1>4, <3>1, <4>1, <4>2
    <3>2. CASE runOf[n] # r
      <4>1. runOf[n] \in Runs \ {r}
        BY <3>2, CountTypes
      <4>2. Counts(runOf[n])
        BY <1>2, <1>3, <4>1 DEF Counts
      <4>3. QED
        BY <1>2, <4>1, <4>2 DEF CountInv, RowsCount, StartsCounted
    <3>3. QED
      BY <3>1, <3>2
  <2>4. QED
    BY <2>1, <2>2, <2>3 DEF RowsCount
<1>6. CallCounts(worker[p])'
  BY <1>1, <1>2 DEF CallCounts, Foremost, Worker
<1>7. ASSUME NEW q \in Partitions, q # p PROVE CallCounts(worker[q])'
  <2>1. worker'[q] = worker[q] /\ CallCounts(worker[q])
    BY <1>2, <1>7 DEF CountInv, CallsCount
  <2>2. worker[q].pc # "idle" => runOf[worker[q].msg] \in Runs \ {r}
    BY <1>1, <1>7, CountTypes
  <2>3. QED
    BY <1>2, <1>3, <2>1, <2>2 DEF CallCounts, Foremost, Counts
<1>8. QED
  BY <1>5, <1>6, <1>7 DEF CountInv, CallsCount

\* The next message of a run starts with none, or with a run that is over.
LEMMA AcknowledgeCounts ==
  ASSUME IInv, CountInv, NEW p \in Partitions, Acknowledge(p)
  PROVE  CountInv'
<1> DEFINE w == worker[p]
           m == Msg(p)
           r == RunAt(p)
<1>1. w.pc = "answered" /\ CallCounts(w) /\ r \in Runs /\ m \in pending /\ PartitionOf[r] = p
  BY CountTypes DEF Acknowledge, CountInv, CallsCount, RunAt, Msg
<1>2. /\ worker'[p] = Idle
      /\ \A q \in Partitions \ {p} : worker'[q] = worker[q]
      /\ UNCHANGED <<state, runOf, attempts, lost, starts>>
      /\ pending' = IF w.answer = "retry" THEN pending ELSE pending \ {m}
  BY CountTypes DEF Acknowledge, historyVars
<1>3. CallCounts(worker[p])'
  BY <1>2 DEF CallCounts, Idle
<1>4. CASE w.answer = "retry"
  <2>1. Tames
    BY <1>2, <1>4 DEF Tames
  <2>2. QED
    BY <1>3, <2>1, CallTames DEF Dispatch
<1>5. CASE w.answer # "retry"
  <2>1. Counts(r) => starts[r] = 0
    BY <1>1, <1>5 DEF CallCounts, RunAt, Msg
  <2>2. StartsCounted'
    <3> SUFFICES ASSUME NEW n \in pending \ {m}, Foremost(n)', Counts(runOf[n])
                 PROVE  starts[runOf[n]] <= attempts[n]
      BY <1>2, <1>5 DEF StartsCounted, Counts
    <3>1. attempts[n] \in Nat
      BY CountTypes
    <3>2. CASE runOf[n] = r
      BY <2>1, <3>1, <3>2
    <3>3. CASE runOf[n] # r
      <4>1. Foremost(n)
        BY <1>2, <1>5, <3>3 DEF Foremost, RunAt
      <4>2. QED
        BY <4>1 DEF CountInv, RowsCount, StartsCounted
    <3>4. QED
      BY <3>2, <3>3
  <2>3. RowsCount'
    BY <1>2, <2>2 DEF CountInv, RowsCount, FreshRuns, StartsBounded
  <2>4. ASSUME NEW q \in Partitions, q # p PROVE CallCounts(worker[q])'
    <3>1. worker'[q] = worker[q] /\ CallCounts(worker[q])
      BY <1>2, <2>4 DEF CountInv, CallsCount
    <3>2. worker[q].pc # "idle" => worker[q].msg \in pending /\ worker[q].msg # m
      BY <1>1, <2>4, CountTypes DEF RunAt
    <3>3. QED
      BY <1>2, <3>1, <3>2 DEF CallCounts, Foremost, Counts
  <2>5. QED
    BY <1>3, <2>3, <2>4 DEF CountInv, CallsCount
<1>6. QED
  BY <1>4, <1>5

LEMMA StepCount == IInv /\ CountInv /\ [Next]_vars => CountInv'
<1> SUFFICES ASSUME IInv, CountInv, [Next]_vars PROVE CountInv'
  OBVIOUS
<1>1. ASSUME Process \/ UNCHANGED vars PROVE CountInv'
  <2>1. Tames /\ worker' \in {worker, [q \in Partitions |-> Idle]}
    BY <1>1 DEF Process, Register, StartPhase, Crash, vars, queueVars, historyVars, Tames
  <2>2. ASSUME NEW p \in Partitions PROVE CallCounts(worker[p])'
    <3>1. CallCounts(worker[p])
      BY DEF CountInv, CallsCount
    <3>2. CASE worker' = worker
      BY <1>1, <2>1, <3>1, <3>2, CountTypes DEF Process, Register, StartPhase, Crash, vars,
         Tames, CallCounts, Foremost, Counts
    <3>3. CASE worker' = [q \in Partitions |-> Idle]
      BY <3>3 DEF CallCounts, Idle
    <3>4. QED
      BY <2>1, <3>2, <3>3
  <2>3. QED
    BY <2>1, <2>2, TamesRows DEF CountInv, CallsCount
<1>2. QED
  BY <1>1, ClientsCount, CallMovesCount, ContextCounts, RecordCounts, DeliverCounts, StartCounts,
     AcknowledgeCounts DEF Next, Dispatch

\* However many deliveries, expired leases, crashes, cancels and retries there
\* are, a request to run starts the handler at most HandlerMax times, unless its
\* ending was answered over a failed write.
THEOREM StartsAreBounded == Spec => []StartsBounded
<1>1. Init => CountInv
  BY NumberAssumption DEF Init, CountInv, RowsCount, CallsCount, FreshRuns, StartsBounded,
     StartsCounted, CallCounts, Idle
<1>2. CountInv => StartsBounded
  BY DEF CountInv, RowsCount
<1>3. QED
  BY <1>1, <1>2, StepCount, Invariant, PTL DEF Spec

=============================================================================
