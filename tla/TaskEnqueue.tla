---------------------------- MODULE TaskEnqueue ----------------------------
(***************************************************************************)
(* TaskService::enqueue: which run answers a request to run something.     *)
(*                                                                         *)
(* A request may carry an idempotency key, and may ask to join a run of    *)
(* the same work that is still waiting.  Enqueue takes several statements  *)
(* to find out -- look the key up, look for a waiting run, attach the key  *)
(* to it, insert -- and between any two of them other requests, the        *)
(* dispatcher, an operator and the retention sweep change the rows.        *)
(*                                                                         *)
(* The rows' later life is TaskRuns; here it is what enqueue can see of    *)
(* it.  `working` and `owed` are what the rows only claim: that a handler  *)
(* has the run, and that the queue has a message for it.                   *)
(***************************************************************************)
EXTENDS Integers, FiniteSets

CONSTANTS
  Requests,    \* calls of enqueue, a client's repeats included
  Runs,        \* run ids
  NoRun,
  NoKey,       \* no idempotency key
  KeyOf,       \* [Requests -> a key or NoKey]
  Coalesces,   \* requests with coalesce_queued and a partition key
  Work,        \* [Requests -> task type, partition key and payload, as one]
  NoWork,
  MaxFaults    \* bound: database calls that fail

ASSUME FreshAssumption == NoRun \notin Runs
ASSUME CoalescesAssumption == Coalesces \subseteq Requests
ASSUME WorkAssumption == \A q \in Requests : Work[q] # NoWork
ASSUME FaultAssumption == MaxFaults \in Nat

VARIABLES
  state,       \* [Runs -> RowState]
  cancelled,   \* runs with cancel_requested
  keyOf,       \* [Runs -> Keys]: the row's idempotency_key
  workOf,      \* [Runs -> what the row is about]
  working,     \* runs a handler really has
  owed,        \* runs the queue really has a message for
  pc,          \* [Requests -> Pc]: how far the call got
  found,       \* [Requests -> Runs \cup {NoRun}]: the run it found, or answered
  overlooked,  \* history: runs a request could have joined ever since it came
  joinedLate,  \* history: requests that joined a run a handler already had
  joinedDead,  \* history: requests that joined a run nothing is queued for
  faults

rows == <<state, cancelled, keyOf, workOf>>
queue == <<working, owed>>
calls == <<pc, found>>
history == <<overlooked, joinedLate, joinedDead>>
vars == <<rows, queue, calls, history, faults>>

Keys == {KeyOf[q] : q \in Requests} \cup {NoKey}
Works == {Work[q] : q \in Requests} \cup {NoWork}
RowState == {"none", "queued", "running", "ended", "pruned"}
Pc == {"idle", "lookup", "waiting", "attach", "relookup", "insert",
       "conflict", "answered", "error"}
Exists(r) == state[r] \in {"queued", "running", "ended"}

TypeOK ==
  /\ state \in [Runs -> RowState]
  /\ cancelled \in SUBSET Runs
  /\ keyOf \in [Runs -> Keys]
  /\ workOf \in [Runs -> Works]
  /\ working \in SUBSET Runs
  /\ owed \in SUBSET Runs
  /\ pc \in [Requests -> Pc]
  /\ found \in [Requests -> Runs \cup {NoRun}]
  /\ \A q \in Requests : found[q] \in Runs <=> pc[q] \in {"attach", "answered"}
  /\ overlooked \in [Requests -> SUBSET Runs]
  /\ joinedLate \in SUBSET Requests
  /\ joinedDead \in SUBSET Requests
  /\ faults \in 0..MaxFaults

Init ==
  /\ state = [r \in Runs |-> "none"]
  /\ cancelled = {}
  /\ keyOf = [r \in Runs |-> NoKey]
  /\ workOf = [r \in Runs |-> NoWork]
  /\ working = {}
  /\ owed = {}
  /\ pc = [q \in Requests |-> "idle"]
  /\ found = [q \in Requests |-> NoRun]
  /\ overlooked = [q \in Requests |-> {}]
  /\ joinedLate = {}
  /\ joinedDead = {}
  /\ faults = 0

Fault == faults < MaxFaults /\ faults' = faults + 1

\* Mutant: only runs under no key are looked at, not preferred.
WaitingUnkeyed(w) ==
  {r \in Runs : state[r] = "queued" /\ workOf[r] = w /\ r \notin cancelled
                  /\ keyOf[r] = NoKey}
\* find_waiting: the rows that say they have not started.
Waiting(w) ==
  {r \in Runs : state[r] = "queued" /\ workOf[r] = w /\ r \notin cancelled}

\* A run that answers to no key first, any of them otherwise.
Preferred(W) ==
  LET unkeyed == {r \in W : keyOf[r] = NoKey}
  IN IF unkeyed = {} THEN W ELSE unkeyed

\* find_by_idempotency_key
Holders(key) == {r \in Runs : Exists(r) /\ keyOf[r] = key}

\* History: what each request in progress could have joined all along.
Track ==
  overlooked' = [q \in Requests |->
                   overlooked[q] \cap {r \in Runs : state'[r] = "queued"
                                                      /\ r \notin cancelled'}]

-----------------------------------------------------------------------------
(* The call.                                                               *)

Move(q, to) == pc' = [pc EXCEPT ![q] = to]
Answer(q, r) ==
  /\ Move(q, "answered")
  /\ found' = [found EXCEPT ![q] = r]

AfterLookup(q) == IF q \in Coalesces THEN "waiting" ELSE "insert"

\* No handler is registered for the task type in this process, or not yet.
Refused(q) == Move(q, "error") /\ UNCHANGED overlooked

Accepted(q) ==
  /\ Move(q, IF KeyOf[q] # NoKey THEN "lookup" ELSE AfterLookup(q))
  /\ overlooked' = [overlooked EXCEPT ![q] =
       {r \in Runs : state[r] = "queued" /\ workOf[r] = Work[q] /\ r \notin cancelled}]

Arrive(q) ==
  /\ pc[q] = "idle"
  /\ Refused(q) \/ Accepted(q)
  /\ UNCHANGED <<rows, queue, found, joinedLate, joinedDead, faults>>

\* The key is looked up first; whoever holds it is the answer.
LookUp(q) ==
  /\ pc[q] = "lookup"
  /\ \/ \E r \in Holders(KeyOf[q]) : Answer(q, r)
     \/ /\ Holders(KeyOf[q]) = {}
        /\ Move(q, AfterLookup(q))
        /\ UNCHANGED found
  /\ UNCHANGED <<rows, queue, history, faults>>

\* History: what joining r means for the run that is joined.
Joins(q, r) ==
  /\ joinedLate' = IF r \in working THEN joinedLate \cup {q} ELSE joinedLate
  /\ joinedDead' = IF r \notin owed THEN joinedDead \cup {q} ELSE joinedDead

\* Mutant: a keyed request joins an unkeyed run without leaving its key on it.
DecideUnattached(q, r) ==
  IF KeyOf[q] = NoKey \/ keyOf[r] \in {KeyOf[q], NoKey}
  THEN Answer(q, r) /\ Joins(q, r)
  ELSE Move(q, "insert") /\ UNCHANGED <<found, joinedLate, joinedDead>>

\* What is done with a waiting run: joined, made to answer to our key too, or,
\* under somebody else's key, left alone.
Decide(q, r) ==
  \/ /\ KeyOf[q] = NoKey \/ keyOf[r] = KeyOf[q]
     /\ Answer(q, r)
     /\ Joins(q, r)
  \/ /\ KeyOf[q] # NoKey /\ keyOf[r] \notin {NoKey, KeyOf[q]}
     /\ Move(q, "insert")
     /\ UNCHANGED <<found, joinedLate, joinedDead>>
  \/ /\ KeyOf[q] # NoKey /\ keyOf[r] = NoKey
     /\ Move(q, "attach")
     /\ found' = [found EXCEPT ![q] = r]
     /\ UNCHANGED <<joinedLate, joinedDead>>

FindWaiting(q) ==
  /\ pc[q] = "waiting"
  /\ \/ /\ Waiting(Work[q]) = {}
        /\ Move(q, "insert")
        /\ UNCHANGED <<found, joinedLate, joinedDead>>
     \/ \E r \in Preferred(Waiting(Work[q])) : Decide(q, r)
  /\ UNCHANGED <<rows, queue, overlooked, faults>>

\* Mutant: the update is not guarded by idempotency_key IS NULL.
AttachableAnyway(q, r) == Exists(r) /\ Holders(KeyOf[q]) = {}
\* attach_key: guarded by the run having no key, and by the unique index.
Attachable(q, r) == Exists(r) /\ keyOf[r] = NoKey /\ Holders(KeyOf[q]) = {}

\* attach_key answers None.
Unattached(q) ==
  /\ Move(q, "relookup")
  /\ found' = [found EXCEPT ![q] = NoRun]
  /\ UNCHANGED <<joinedLate, joinedDead>>

Attach(q) ==
  /\ pc[q] = "attach"
  /\ \/ /\ Attachable(q, found[q])
        /\ keyOf' = [keyOf EXCEPT ![found[q]] = KeyOf[q]]
        /\ Move(q, "answered")
        /\ Joins(q, found[q])
        /\ UNCHANGED <<found, faults>>
     \/ /\ ~Attachable(q, found[q])
        /\ Unattached(q)
        /\ UNCHANGED <<keyOf, faults>>
     \* An update whose outcome never arrives may have happened.
     \/ /\ Fault
        /\ Unattached(q)
        /\ \/ /\ Attachable(q, found[q])
              /\ keyOf' = [keyOf EXCEPT ![found[q]] = KeyOf[q]]
           \/ UNCHANGED keyOf
  /\ UNCHANGED <<state, cancelled, workOf, queue, overlooked>>

\* The race for the key was lost: whoever won it holds the run.
Relookup(q) ==
  /\ pc[q] = "relookup"
  /\ \/ \E r \in Holders(KeyOf[q]) : Answer(q, r)
     \/ /\ Holders(KeyOf[q]) = {}
        /\ Move(q, "insert")
        /\ UNCHANGED found
  /\ UNCHANGED <<rows, queue, history, faults>>

\* The row and its message are written in one transaction.
Stores(q, r) ==
  /\ state[r] = "none"
  /\ state' = [state EXCEPT ![r] = "queued"]
  /\ keyOf' = [keyOf EXCEPT ![r] = KeyOf[q]]
  /\ workOf' = [workOf EXCEPT ![r] = Work[q]]
  /\ owed' = owed \cup {r}

\* Mutant: no unique index.
NoConflict(q) == FALSE
\* The unique index refuses a key that another run holds.
Conflicts(q) == KeyOf[q] # NoKey /\ Holders(KeyOf[q]) # {}

\* After an insert that failed a keyed request looks for the winner.
AfterFailedInsert(q) == IF KeyOf[q] # NoKey THEN "conflict" ELSE "error"

Insert(q) ==
  /\ pc[q] = "insert"
  /\ \/ \E r \in Runs :
          /\ ~Conflicts(q)
          /\ Stores(q, r)
          /\ Answer(q, r)
          /\ UNCHANGED faults
     \/ /\ Conflicts(q)
        /\ Move(q, "conflict")
        /\ UNCHANGED <<state, keyOf, workOf, owed, found, faults>>
     \* A commit whose outcome never arrives may have happened.
     \/ /\ Fault
        /\ Move(q, AfterFailedInsert(q))
        /\ \/ ~Conflicts(q) /\ \E r \in Runs : Stores(q, r)
           \/ UNCHANGED <<state, keyOf, workOf, owed>>
        /\ UNCHANGED found
  /\ UNCHANGED <<cancelled, working, history>>

Conflict(q) ==
  /\ pc[q] = "conflict"
  /\ \/ \E r \in Holders(KeyOf[q]) : Answer(q, r)
     \/ Holders(KeyOf[q]) = {} /\ Move(q, "error") /\ UNCHANGED found
  /\ UNCHANGED <<rows, queue, history, faults>>

\* A read fails, or the process serving the call stops: the caller learns
\* nothing, and may ask again.
Breaks(q) ==
  /\ pc[q] \notin {"idle", "answered", "error"}
  /\ Fault
  /\ Move(q, "error")
  /\ found' = [found EXCEPT ![q] = NoRun]
  /\ UNCHANGED <<rows, queue, history>>

-----------------------------------------------------------------------------
(* What happens to the rows meanwhile.  See TaskRuns for the whole of it.  *)

\* The dispatcher records `running`, or fails to, and calls the handler.
Starts(r) ==
  /\ r \in owed /\ r \notin working
  /\ state[r] \in {"queued", "running"} /\ r \notin cancelled
  /\ working' = working \cup {r}
  /\ \/ state' = [state EXCEPT ![r] = "running"] /\ UNCHANGED faults
     \/ Fault /\ UNCHANGED state
  /\ UNCHANGED <<cancelled, keyOf, workOf, owed, calls, joinedLate, joinedDead>>
  /\ Track

\* The run's message is answered as finished, by a handler, a cancel or for
\* too many deliveries; the record that goes first may fail.
Ends(r) ==
  /\ r \in owed
  /\ state[r] \in {"queued", "running"}
  /\ working' = working \ {r}
  /\ owed' = owed \ {r}
  /\ \/ state' = [state EXCEPT ![r] = "ended"] /\ UNCHANGED faults
     \/ Fault /\ UNCHANGED state
  /\ UNCHANGED <<cancelled, keyOf, workOf, calls, joinedLate, joinedDead>>
  /\ Track

\* An attempt failed, and another will be made.
Requeued(r) ==
  /\ r \in working
  /\ working' = working \ {r}
  /\ \/ state' = [state EXCEPT ![r] = "queued"] /\ UNCHANGED faults
     \/ Fault /\ UNCHANGED state
  /\ UNCHANGED <<cancelled, keyOf, workOf, owed, calls, joinedLate, joinedDead>>
  /\ Track

\* An operator cancels a run that is not over, or retries one that is.
CancelRequested(r) ==
  /\ state[r] \in {"queued", "running"}
  /\ cancelled' = cancelled \cup {r}
  /\ UNCHANGED <<state, keyOf, workOf, queue, calls, joinedLate, joinedDead, faults>>
  /\ Track

Retried(r) ==
  /\ state[r] = "ended"
  /\ state' = [state EXCEPT ![r] = "queued"]
  /\ cancelled' = cancelled \ {r}
  /\ owed' = owed \cup {r}
  /\ UNCHANGED <<keyOf, workOf, working, calls, joinedLate, joinedDead, faults>>
  /\ Track

Pruned(r) ==
  /\ state[r] = "ended"
  /\ state' = [state EXCEPT ![r] = "pruned"]
  /\ cancelled' = cancelled \ {r}
  /\ UNCHANGED <<keyOf, workOf, queue, calls, joinedLate, joinedDead, faults>>
  /\ Track

Call(q) == Arrive(q) \/ LookUp(q) \/ FindWaiting(q) \/ Attach(q) \/ Relookup(q)
             \/ Insert(q) \/ Conflict(q) \/ Breaks(q)
Elsewhere(r) == Starts(r) \/ Ends(r) \/ Requeued(r) \/ CancelRequested(r)
                  \/ Retried(r) \/ Pruned(r)
Next == (\E q \in Requests : Call(q)) \/ (\E r \in Runs : Elsewhere(r))

Spec == Init /\ [][Next]_vars
-----------------------------------------------------------------------------
(* What must hold.                                                         *)

\* "Makes a repeated enqueue one run": two requests with one key are answered
\* with one run, however they overlap, fail and are repeated -- for as long as
\* retention keeps that run.
OneRunPerKey ==
  \A p, q \in Requests :
    /\ pc[p] = "answered" /\ pc[q] = "answered"
    /\ KeyOf[p] = KeyOf[q] /\ KeyOf[p] # NoKey
    => \/ found[p] = found[q]
       \/ state[found[p]] = "pruned"
       \/ state[found[q]] = "pruned"

\* A keyed answer can be asked for again: the run it names carries the key, so
\* a replay finds it even after it started.
AnswerIsFindable ==
  \A q \in Requests :
    pc[q] = "answered" /\ KeyOf[q] # NoKey
      => found[q] \in Holders(KeyOf[q]) \/ state[found[q]] = "pruned"

\* A run is never re-keyed: whoever was answered with it keeps the answer.
KeyNeverMoves ==
  [][\A r \in Runs : keyOf[r] # NoKey => keyOf'[r] = keyOf[r]]_vars

\* A request that may join does not queue a second run while there is one it
\* could have joined from the moment it came.  (Two that come at once may.)
JoinsWhatWaits ==
  [][\A q \in Coalesces :
       KeyOf[q] = NoKey /\ pc[q] = "insert" /\ pc'[q] = "answered"
         => overlooked[q] = {}]_vars

-----------------------------------------------------------------------------
(* What the code says of itself and does not do: README, section 5.        *)

\* service.rs, on coalesce_queued: "it only ever joins a run that has not
\* started".
JoinsOnlyUnstarted == joinedLate = {}

\* service.rs, on coalesce_queued: "Hand back a run that is still waiting to
\* start".  What it hands back has a message on the queue.
JoinsOnlyOwed == joinedDead = {}
=============================================================================
