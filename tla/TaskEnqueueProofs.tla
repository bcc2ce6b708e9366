------------------------- MODULE TaskEnqueueProofs -------------------------
(***************************************************************************)
(* Proofs about TaskEnqueue, for every set of requests, runs and keys:     *)
(* requests under one key are answered with one run, an answer can be      *)
(* asked for again, a run is never re-keyed, and a request that finds a    *)
(* run of its kind still waiting joins it.                                 *)
(*                                                                         *)
(* The argument: at most one row that exists has a given key (the unique   *)
(* index, and the attach that is guarded by it), a row keeps its key, and  *)
(* an answer under a key names a row that had it.                          *)
(***************************************************************************)
EXTENDS TaskEnqueue, TLAPS

\* At most one row that exists has a given key.
KeysUnique ==
  \A r, s \in Runs :
    Exists(r) /\ Exists(s) /\ keyOf[r] = keyOf[s] /\ keyOf[r] # NoKey => r = s

\* A run that was never stored has no key, and what the queue owes or a handler
\* has is a row that is not over.
Stored ==
  /\ \A r \in Runs : state[r] = "none" => keyOf[r] = NoKey
  /\ working \subseteq owed
  /\ \A r \in owed : state[r] \in {"queued", "running"}

KeyInv == TypeOK /\ KeysUnique /\ Stored /\ AnswerIsFindable

\* What the other conjuncts of a step rest on, when no row is stored or attached
\* and none appears or is answered with.
LEMMA KeyStep ==
  ASSUME KeyInv, UNCHANGED keyOf,
         \A r \in Runs : Exists(r)' => Exists(r),
         \A r \in Runs : Exists(r) => Exists(r)' \/ state'[r] = "pruned",
         \A r \in Runs : state[r] = "pruned" => state'[r] = "pruned",
         \A q \in Requests : pc'[q] = "answered" =>
           \/ pc[q] = "answered" /\ found'[q] = found[q]
           \/ found'[q] \in Holders(KeyOf[q])
           \/ KeyOf[q] = NoKey
  PROVE  KeysUnique' /\ AnswerIsFindable'
<1>1. KeysUnique'
  BY DEF KeyInv, KeysUnique
<1>2. \A q \in Requests : \A r \in Holders(KeyOf[q]) :
        r \in Holders(KeyOf[q])' \/ state'[r] = "pruned"
  BY DEF Holders
<1>3. \A q \in Requests : pc[q] = "answered" => found[q] \in Runs
  BY DEF KeyInv, TypeOK
<1>4. AnswerIsFindable'
  BY <1>2, <1>3 DEF KeyInv, AnswerIsFindable
<1> QED BY <1>1, <1>4

-----------------------------------------------------------------------------
LEMMA KeyInit == Init => KeyInv
<1> SUFFICES ASSUME Init PROVE KeyInv
  OBVIOUS
<1>1. TypeOK
  BY FaultAssumption, FreshAssumption DEF Init, TypeOK, RowState, Keys, Works, Pc
<1>2. KeysUnique /\ Stored /\ AnswerIsFindable
  BY DEF Init, KeysUnique, Stored, AnswerIsFindable, Exists
<1> QED BY <1>1, <1>2 DEF KeyInv

\* The calls that only read: their answer is a row that holds their key.
LEMMA ReadKeeps ==
  ASSUME KeyInv, NEW q \in Requests,
         Arrive(q) \/ LookUp(q) \/ FindWaiting(q) \/ Relookup(q) \/ Conflict(q) \/ Breaks(q)
  PROVE  KeyInv'
<1> USE DEF KeyInv
<1>1. UNCHANGED <<rows, queue>>
  BY DEF Arrive, LookUp, FindWaiting, Relookup, Conflict, Breaks
<1>2. UNCHANGED state /\ UNCHANGED keyOf
  BY <1>1 DEF rows
<1>3. TypeOK'
  <2>1. CASE Arrive(q)
    BY <2>1 DEF Arrive, Refused, Accepted, TypeOK, Move, AfterLookup, Pc, rows, queue
  <2>2. CASE LookUp(q) \/ Relookup(q) \/ Conflict(q)
    BY <2>2, FreshAssumption DEF LookUp, Relookup, Conflict, TypeOK, Move, Answer,
         AfterLookup, Pc, Holders, rows, queue, history
  <2>3. CASE FindWaiting(q)
    <3>1. Preferred(Waiting(Work[q])) \subseteq Runs
      BY DEF Preferred, Waiting
    <3>2. /\ pc' \in [Requests -> Pc]
          /\ found' \in [Requests -> Runs \cup {NoRun}]
          /\ \A p \in Requests : found'[p] \in Runs <=> pc'[p] \in {"attach", "answered"}
          /\ joinedLate' \in SUBSET Requests
          /\ joinedDead' \in SUBSET Requests
      BY <2>3, <3>1, FreshAssumption DEF FindWaiting, Decide, Joins, TypeOK, Move, Answer, Pc
    <3> QED BY <2>3, <3>2 DEF FindWaiting, TypeOK, rows, queue
  <2>4. CASE Breaks(q)
    BY <2>4, FaultAssumption, FreshAssumption
       DEF Breaks, Fault, TypeOK, Move, Pc, rows, queue, history
  <2> QED BY <2>1, <2>2, <2>3, <2>4
<1>4. \A p \in Requests : pc'[p] = "answered" =>
        \/ pc[p] = "answered" /\ found'[p] = found[p]
        \/ found'[p] \in Holders(KeyOf[p])
        \/ KeyOf[p] = NoKey
  <2>1. CASE Arrive(q) \/ Breaks(q)
    BY <2>1 DEF Arrive, Refused, Accepted, Breaks, Move, AfterLookup, TypeOK
  <2>2. CASE LookUp(q) \/ Relookup(q) \/ Conflict(q)
    BY <2>2 DEF LookUp, Relookup, Conflict, Move, Answer, AfterLookup, TypeOK
  <2>3. CASE FindWaiting(q)
    <3>1. \A r \in Preferred(Waiting(Work[q])) : r \in Runs /\ Exists(r)
      BY DEF Preferred, Waiting, Exists
    <3> QED BY <2>3, <3>1 DEF FindWaiting, Decide, Move, Answer, TypeOK, Holders
  <2> QED BY <2>1, <2>2, <2>3
<1>5. Stored'
  BY <1>1 DEF Stored, rows, queue
<1>6. \A r \in Runs : Exists(r)' <=> Exists(r)
  BY <1>2 DEF Exists
<1> QED BY <1>2, <1>3, <1>4, <1>5, <1>6, KeyStep

\* The attach: a row with no key takes one that no row has.
LEMMA AttachKeeps ==
  ASSUME KeyInv, NEW q \in Requests, Attach(q)
  PROVE  KeyInv'
<1> USE DEF KeyInv
<1>1. /\ pc[q] = "attach" /\ found[q] \in Runs
      /\ UNCHANGED <<state, cancelled, workOf, queue, overlooked>>
  BY DEF Attach, TypeOK
<1>2. \/ UNCHANGED keyOf
      \/ Attachable(q, found[q]) /\ keyOf' = [keyOf EXCEPT ![found[q]] = KeyOf[q]]
  BY DEF Attach
<1>3. \/ /\ Attachable(q, found[q]) /\ keyOf' = [keyOf EXCEPT ![found[q]] = KeyOf[q]]
         /\ pc' = [pc EXCEPT ![q] = "answered"] /\ UNCHANGED found
      \/ /\ pc' = [pc EXCEPT ![q] = "relookup"] /\ found' = [found EXCEPT ![q] = NoRun]
  BY DEF Attach, Unattached, Move
<1>4. /\ joinedLate' \in SUBSET Requests /\ joinedDead' \in SUBSET Requests
      /\ faults' \in 0..MaxFaults
  BY FaultAssumption DEF Attach, Unattached, Joins, Fault, TypeOK
<1>5. TypeOK'
  <2>1. keyOf' \in [Runs -> Keys]
    BY <1>2 DEF TypeOK, Keys
  <2>2. /\ pc' \in [Requests -> Pc] /\ found' \in [Requests -> Runs \cup {NoRun}]
        /\ \A p \in Requests : found'[p] \in Runs <=> pc'[p] \in {"attach", "answered"}
    BY <1>1, <1>3, FreshAssumption DEF TypeOK, Pc
  <2> QED BY <1>1, <1>4, <2>1, <2>2 DEF TypeOK, queue
<1>6. \A r \in Runs : (Exists(r)' <=> Exists(r)) /\ (keyOf[r] # NoKey => keyOf'[r] = keyOf[r])
  BY <1>1, <1>2 DEF Exists, Attachable, TypeOK
<1>7. KeysUnique'
  <2>1. CASE UNCHANGED keyOf
    BY <1>6, <2>1 DEF KeysUnique
  <2>2. CASE Attachable(q, found[q]) /\ keyOf' = [keyOf EXCEPT ![found[q]] = KeyOf[q]]
    <3>1. \A r \in Runs : Exists(r) => keyOf[r] # KeyOf[q]
      BY <2>2 DEF Attachable, Holders
    <3> QED BY <1>6, <2>2, <3>1 DEF KeysUnique, TypeOK
  <2> QED BY <1>2, <2>1, <2>2
<1>8. Stored'
  BY <1>1, <1>2 DEF Stored, Attachable, Exists, TypeOK, queue
<1>9. AnswerIsFindable'
  <2> SUFFICES ASSUME NEW p \in Requests, pc'[p] = "answered", KeyOf[p] # NoKey
               PROVE  found'[p] \in Holders(KeyOf[p])' \/ state'[found'[p]] = "pruned"
    BY DEF AnswerIsFindable
  <2>1. CASE pc[p] = "answered"
    <3>1. found'[p] = found[p]
      BY <1>1, <1>3, <2>1 DEF TypeOK
    <3> QED BY <1>1, <1>6, <2>1, <3>1 DEF AnswerIsFindable, Holders
  <2>2. CASE pc[p] # "answered"
    <3>1. /\ p = q /\ found'[q] = found[q] /\ Attachable(q, found[q])
          /\ keyOf' = [keyOf EXCEPT ![found[q]] = KeyOf[q]]
      BY <1>1, <1>3, <2>2 DEF TypeOK
    <3> QED BY <1>1, <1>6, <3>1 DEF Holders, Attachable, TypeOK
  <2> QED BY <2>1, <2>2
<1> QED BY <1>5, <1>7, <1>8, <1>9

\* The insert: a new row takes a key that no row has, or nothing is stored.
LEMMA InsertKeeps ==
  ASSUME KeyInv, NEW q \in Requests, Insert(q)
  PROVE  KeyInv'
<1> USE DEF KeyInv
<1>1. pc[q] = "insert" /\ UNCHANGED <<cancelled, working, history>>
  BY DEF Insert
<1>2. CASE UNCHANGED <<state, keyOf, workOf, owed, found>>
  <2>1. \E to \in {"conflict", "error"} : pc' = [pc EXCEPT ![q] = to]
    BY <1>1, <1>2, FreshAssumption DEF Insert, Stores, Move, Answer, AfterFailedInsert, TypeOK
  <2>2. faults' \in 0..MaxFaults
    BY FaultAssumption DEF Insert, Fault, TypeOK
  <2>3. TypeOK'
    BY <1>1, <1>2, <2>1, <2>2 DEF TypeOK, Pc, history
  <2>4. Stored'
    BY <1>1, <1>2 DEF Stored
  <2>5. \A r \in Runs : Exists(r)' <=> Exists(r)
    BY <1>2 DEF Exists
  <2>6. \A p \in Requests : pc'[p] = "answered" => pc[p] = "answered"
    BY <2>1 DEF TypeOK
  <2> QED BY <1>2, <2>3, <2>4, <2>5, <2>6, KeyStep
<1>3. ASSUME NEW r \in Runs, ~Conflicts(q), Stores(q, r),
             \/ Answer(q, r)
             \/ Move(q, AfterFailedInsert(q)) /\ UNCHANGED found
      PROVE  KeyInv'
  <2>1. /\ state[r] = "none" /\ state' = [state EXCEPT ![r] = "queued"]
        /\ keyOf' = [keyOf EXCEPT ![r] = KeyOf[q]]
        /\ workOf' = [workOf EXCEPT ![r] = Work[q]] /\ owed' = owed \cup {r}
    BY <1>3 DEF Stores
  <2>2. faults' \in 0..MaxFaults
    BY FaultAssumption DEF Insert, Fault, TypeOK
  <2>3. /\ pc' \in [Requests -> Pc] /\ found' \in [Requests -> Runs \cup {NoRun}]
        /\ \A p \in Requests : found'[p] \in Runs <=> pc'[p] \in {"attach", "answered"}
    BY <1>1, <1>3, FreshAssumption DEF Answer, Move, AfterFailedInsert, TypeOK, Pc
  <2>4. /\ state' \in [Runs -> RowState] /\ keyOf' \in [Runs -> Keys]
        /\ workOf' \in [Runs -> Works] /\ owed' \in SUBSET Runs
    BY <2>1 DEF TypeOK, RowState, Keys, Works
  <2>5. TypeOK'
    BY <1>1, <2>2, <2>3, <2>4 DEF TypeOK, history
  <2>6. \A s \in Runs : s # r => /\ Exists(s)' <=> Exists(s)
                                 /\ keyOf'[s] = keyOf[s] /\ state'[s] = state[s]
    BY <2>1 DEF Exists, TypeOK
  <2>7. Exists(r)' /\ keyOf'[r] = KeyOf[q] /\ state'[r] = "queued" /\ ~Exists(r)
    BY <2>1 DEF Exists, TypeOK
  <2>8. KeyOf[q] # NoKey => \A s \in Runs : Exists(s) => keyOf[s] # KeyOf[q]
    BY <1>3 DEF Conflicts, Holders
  <2>9. KeysUnique'
    BY <2>6, <2>7, <2>8 DEF KeysUnique
  <2>10. Stored'
    BY <1>1, <2>1, <2>6, <2>7 DEF Stored, TypeOK
  <2>11. AnswerIsFindable'
    <3> SUFFICES ASSUME NEW p \in Requests, pc'[p] = "answered", KeyOf[p] # NoKey
                 PROVE  found'[p] \in Holders(KeyOf[p])' \/ state'[found'[p]] = "pruned"
      BY DEF AnswerIsFindable
    <3>1. CASE pc[p] = "answered"
      <4>1. found'[p] = found[p] /\ found[p] \in Runs
        BY <1>1, <1>3, <3>1 DEF Answer, Move, TypeOK
      <4>2. found[p] # r
        BY <2>1, <2>7, <3>1 DEF AnswerIsFindable, Holders
      <4> QED BY <2>6, <3>1, <4>1, <4>2 DEF AnswerIsFindable, Holders
    <3>2. CASE pc[p] # "answered"
      <4>1. p = q /\ found'[q] = r
        BY <1>1, <1>3, <3>2 DEF Answer, Move, AfterFailedInsert, TypeOK
      <4> QED BY <2>7, <4>1 DEF Holders
    <3> QED BY <3>1, <3>2
  <2> QED BY <2>5, <2>9, <2>10, <2>11
<1> QED BY <1>2, <1>3 DEF Insert

\* The rest of the gear: rows change state, and no key changes.
LEMMA ElsewhereKeeps ==
  ASSUME KeyInv, NEW r \in Runs, Elsewhere(r)
  PROVE  KeyInv'
<1> USE DEF KeyInv
<1>1. UNCHANGED <<keyOf, workOf, calls, joinedLate, joinedDead>>
  BY DEF Elsewhere, Starts, Ends, Requeued, CancelRequested, Retried, Pruned
<1>2. UNCHANGED pc /\ UNCHANGED found
  BY <1>1 DEF calls
<1>3. faults' \in 0..MaxFaults
  BY FaultAssumption DEF Elsewhere, Starts, Ends, Requeued, CancelRequested, Retried, Pruned,
       Fault, TypeOK
<1>4. overlooked' \in [Requests -> SUBSET Runs]
  BY DEF Elsewhere, Starts, Ends, Requeued, CancelRequested, Retried, Pruned, Track, TypeOK
<1>5. r \in owed => state[r] \in {"queued", "running"}
  BY DEF Stored
<1>6. Exists(r)
  BY <1>5 DEF Elsewhere, Starts, Ends, Requeued, CancelRequested, Retried, Pruned, Exists, Stored
<1>7. /\ state' \in [Runs -> RowState]
      /\ state'[r] \in {"queued", "running", "ended", "pruned"}
      /\ \A s \in Runs : s # r => state'[s] = state[s]
  BY <1>6 DEF Elsewhere, Starts, Ends, Requeued, CancelRequested, Retried, Pruned, TypeOK,
       RowState, Exists
<1>8. cancelled' \in SUBSET Runs /\ working' \in SUBSET Runs /\ owed' \in SUBSET Runs
  BY DEF Elsewhere, Starts, Ends, Requeued, CancelRequested, Retried, Pruned, TypeOK, queue
<1>9. TypeOK'
  BY <1>1, <1>2, <1>3, <1>4, <1>7, <1>8 DEF TypeOK
<1>10. Stored'
  <2>1. /\ working' \subseteq owed'
        /\ r \in owed' => state'[r] \in {"queued", "running"}
        /\ \A s \in owed' : s = r \/ s \in owed
    BY <1>5 DEF Elsewhere, Starts, Ends, Requeued, CancelRequested, Retried, Pruned, TypeOK,
         Stored, queue
  <2> QED BY <1>1, <1>7, <1>8, <2>1 DEF Stored
<1>11. \A s \in Runs : /\ Exists(s)' => Exists(s)
                       /\ Exists(s) => Exists(s)' \/ state'[s] = "pruned"
                       /\ state[s] = "pruned" => state'[s] = "pruned"
  BY <1>6, <1>7 DEF Exists
<1> QED BY <1>1, <1>2, <1>9, <1>10, <1>11, KeyStep

LEMMA KeyInvKept ==
  ASSUME KeyInv, [Next]_vars
  PROVE  KeyInv'
<1>1. CASE UNCHANGED vars
  BY <1>1 DEF vars, rows, queue, calls, history, KeyInv, TypeOK, KeysUnique, Stored,
       AnswerIsFindable, Exists, Holders
<1> QED BY <1>1, ReadKeeps, AttachKeeps, InsertKeeps, ElsewhereKeeps DEF Next, Call

\* Types, unique keys and findable answers hold through every interleaving of
\* enqueue's statements, and every failure of one.
THEOREM Keyed == Spec => []KeyInv
<1>1. KeyInv /\ [Next]_vars => KeyInv'
  BY KeyInvKept
<1> QED BY <1>1, KeyInit, PTL DEF Spec

\* Every reachable state of enqueue is well typed.
THEOREM EnqueueTypes == Spec => []TypeOK
<1>1. KeyInv => TypeOK
  BY DEF KeyInv
<1> QED BY <1>1, Keyed, PTL

\* A keyed answer names a run that holds the key, or one that was pruned
\* (service.rs enqueue, find_by_idempotency_key).
THEOREM AnswersAreFindable == Spec => []AnswerIsFindable
<1>1. KeyInv => AnswerIsFindable
  BY DEF KeyInv
<1> QED BY <1>1, Keyed, PTL

\* Two answers under one key are one run, while retention keeps it
\* (service.rs, "Makes a repeated enqueue one run").
THEOREM OneRunForAKey == Spec => []OneRunPerKey
<1>1. KeyInv => OneRunPerKey
  BY DEF KeyInv, KeysUnique, AnswerIsFindable, OneRunPerKey, Holders
<1> QED BY <1>1, Keyed, PTL

\* No step of anyone changes a key that a run has (service.rs attach_key).
THEOREM KeysStay == Spec => KeyNeverMoves
<1>1. ASSUME KeyInv, [Next]_vars
      PROVE  [\A r \in Runs : keyOf[r] # NoKey => keyOf'[r] = keyOf[r]]_vars
  <2>1. CASE \E q \in Requests : Attach(q)
    BY <1>1, <2>1 DEF Attach, Attachable, KeyInv, TypeOK
  <2>2. CASE \E q \in Requests : Insert(q)
    BY <1>1, <2>2 DEF Insert, Stores, KeyInv, Stored, TypeOK
  <2>3. CASE UNCHANGED keyOf
    BY <2>3
  <2>4. CASE \E q \in Requests : Arrive(q) \/ LookUp(q) \/ FindWaiting(q) \/ Relookup(q)
                                   \/ Conflict(q) \/ Breaks(q)
    BY <2>3, <2>4 DEF Arrive, LookUp, FindWaiting, Relookup, Conflict, Breaks, rows
  <2>5. CASE \E r \in Runs : Elsewhere(r)
    BY <2>3, <2>5 DEF Elsewhere, Starts, Ends, Requeued, CancelRequested, Retried, Pruned
  <2> QED BY <1>1, <2>1, <2>2, <2>3, <2>4, <2>5 DEF Next, Call, vars, rows
<1> QED BY <1>1, Keyed, PTL DEF Spec, KeyNeverMoves

-----------------------------------------------------------------------------
(* Joining what waits.                                                     *)

\* What a request could have joined all along is a run of its work that waits
\* now; a request that may join and carries no key asks for nothing else, and
\* comes to its insert only when nothing of its work waits.
JoinInv ==
  \A q \in Requests :
    /\ overlooked[q] \subseteq Waiting(Work[q])
    /\ pc[q] \in {"lookup", "attach", "relookup"} => KeyOf[q] # NoKey
    /\ q \in Coalesces /\ KeyOf[q] = NoKey /\ pc[q] = "insert" => overlooked[q] = {}

\* A call that reads, or attaches a key, changes nobody's work and no state.
LEMMA AskingJoins ==
  ASSUME KeyInv, JoinInv, NEW q \in Requests,
         \/ LookUp(q) \/ FindWaiting(q) \/ Attach(q)
         \/ Relookup(q) \/ Conflict(q) \/ Breaks(q)
  PROVE  JoinInv'
<1>1. UNCHANGED <<state, cancelled, workOf, overlooked>>
  BY DEF LookUp, FindWaiting, Attach, Relookup, Conflict, Breaks, rows, history
<1>2. \A p \in Requests : overlooked'[p] \subseteq Waiting(Work[p])'
  BY <1>1 DEF JoinInv, Waiting
<1>3. \A p \in Requests : p # q => pc'[p] = pc[p]
  BY DEF LookUp, FindWaiting, Decide, Attach, Unattached, Relookup, Conflict, Breaks,
         Answer, Move, KeyInv, TypeOK
<1>4. pc'[q] \in {"lookup", "attach", "relookup"} => KeyOf[q] # NoKey
  BY DEF LookUp, FindWaiting, Decide, Attach, Unattached, Relookup, Conflict, Breaks,
         Answer, Move, AfterLookup, JoinInv, KeyInv, TypeOK
<1>5. q \in Coalesces /\ KeyOf[q] = NoKey /\ pc'[q] = "insert" => overlooked[q] = {}
  <2>1. CASE LookUp(q) \/ Attach(q) \/ Relookup(q)
    BY <2>1 DEF LookUp, Attach, Relookup, JoinInv
  <2>2. CASE FindWaiting(q)
    BY <2>2 DEF FindWaiting, Decide, Answer, Move, JoinInv, KeyInv, TypeOK
  <2>3. CASE Conflict(q) \/ Breaks(q)
    BY <2>3 DEF Conflict, Breaks, Answer, Move, KeyInv, TypeOK
  <2> QED BY <2>1, <2>2, <2>3
<1> QED BY <1>1, <1>2, <1>3, <1>4, <1>5 DEF JoinInv

\* A request takes note of what waits when it comes.
LEMMA ArriveJoins ==
  ASSUME KeyInv, JoinInv, NEW q \in Requests, Arrive(q)
  PROVE  JoinInv'
<1>1. UNCHANGED <<state, cancelled, workOf>>
  BY DEF Arrive, rows
<1>2. \A p \in Requests : Waiting(Work[p])' = Waiting(Work[p])
  BY <1>1 DEF Waiting
<1>3. CASE Refused(q)
  BY <1>2, <1>3 DEF Refused, Move, JoinInv, KeyInv, TypeOK
<1>4. CASE Accepted(q)
  <2>1. /\ overlooked' = [overlooked EXCEPT ![q] = Waiting(Work[q])]
        /\ pc' = [pc EXCEPT ![q] = IF KeyOf[q] # NoKey THEN "lookup" ELSE AfterLookup(q)]
    BY <1>4 DEF Accepted, Move, Waiting
  <2>2. QED
    BY <1>2, <2>1 DEF JoinInv, AfterLookup, KeyInv, TypeOK
<1> QED BY <1>3, <1>4 DEF Arrive

\* What is stored was not waiting, and waits now.
LEMMA InsertJoins ==
  ASSUME KeyInv, JoinInv, NEW q \in Requests, Insert(q)
  PROVE  JoinInv'
<1>1. /\ UNCHANGED <<cancelled, overlooked>>
      /\ \/ UNCHANGED <<state, workOf>>
         \/ \E r \in Runs : /\ state[r] = "none"
                            /\ state' = [state EXCEPT ![r] = "queued"]
                            /\ workOf' = [workOf EXCEPT ![r] = Work[q]]
  BY DEF Insert, Stores, history
<1>2. \A w : Waiting(w) \subseteq Waiting(w)'
  BY <1>1 DEF Waiting, KeyInv, TypeOK
<1>3. \E to \in {"answered", "conflict", "error"} : pc' = [pc EXCEPT ![q] = to]
  BY DEF Insert, Answer, Move, AfterFailedInsert
<1> QED BY <1>1, <1>2, <1>3 DEF JoinInv, KeyInv, TypeOK

\* What no longer waits could not have been joined all along.
LEMMA ElsewhereJoins ==
  ASSUME KeyInv, JoinInv, NEW r \in Runs, Elsewhere(r)
  PROVE  JoinInv'
<1>1. UNCHANGED <<workOf, pc>> /\ Track
  BY DEF Elsewhere, Starts, Ends, Requeued, CancelRequested, Retried, Pruned, calls
<1>2. \A q \in Requests : overlooked'[q] \subseteq overlooked[q] \cap Waiting(Work[q])'
  BY <1>1 DEF Track, JoinInv, Waiting
<1> QED BY <1>1, <1>2 DEF JoinInv

LEMMA JoinInvKept ==
  ASSUME KeyInv, JoinInv, [Next]_vars
  PROVE  JoinInv'
<1>1. CASE UNCHANGED vars
  BY <1>1 DEF vars, rows, calls, history, JoinInv, Waiting
<1> QED BY <1>1, AskingJoins, ArriveJoins, InsertJoins, ElsewhereJoins DEF Next, Call

\* A request that may join and carries no key queues a run only when none of its
\* work has been waiting since it came (service.rs enqueue, find_waiting).
THEOREM WhatWaitsIsJoined == Spec => JoinsWhatWaits
<1>1. Init => JoinInv
  BY DEF Init, JoinInv
<1>2. KeyInv /\ JoinInv /\ [Next]_vars => JoinInv'
  BY JoinInvKept
<1>3. JoinInv => [\A q \in Coalesces :
                    KeyOf[q] = NoKey /\ pc[q] = "insert" /\ pc'[q] = "answered"
                      => overlooked[q] = {}]_vars
  BY CoalescesAssumption DEF JoinInv
<1> QED BY <1>1, <1>2, <1>3, Keyed, PTL DEF Spec, JoinsWhatWaits
=============================================================================
