--------------------------- MODULE WorkspaceJobs ---------------------------
(***************************************************************************)
(* Jobs that bring the configured sources of a workspace into step with    *)
(* their remotes (theia/studio/src/node): the queue of                     *)
(* workspace-job-queue.ts, the records workspace-job-journal.ts keeps of   *)
(* it, and the confirmations workspace-sync-orchestrator.ts holds in       *)
(* memory.  One process, single-threaded: an action is what runs between   *)
(* two awaits.  Everything but the journal is lost with the process.       *)
(*                                                                         *)
(* `appends` are the calls of appendSnapshot in the order they were made:  *)
(* each computed its record from the job as it was then, and lands, in     *)
(* that order, later.  What git did is a choice among the answers of       *)
(* WorkspaceGitService; SourceSync models the service itself.              *)
(***************************************************************************)
EXTENDS Naturals, FiniteSets, SequencesExt

CONSTANTS
  Sources,        \* configured sources
  Batch,          \* what startSync may ask for: sequences of sources
  MaxConcurrent,  \* maxConcurrentSources
  NoGrant,        \* no confirmation
  MaxJobs, MaxRequests, MaxCancels, MaxCrashes, MaxEdits  \* bounds

ASSUME JobsAssumption ==
  /\ Batch \subseteq Seq(Sources) \ {<<>>}      \* an empty batch is refused
  /\ MaxConcurrent \in Nat \ {0}
  /\ {MaxJobs, MaxRequests, MaxCancels, MaxCrashes, MaxEdits} \subseteq Nat

VARIABLES
  jobs,         \* journal: the latest record of each job, by createdSequence
  appends,      \* journal.appendTail: records on their way to the file
  order,        \* keys of pendingBySource, in the order of the Map
  pending,      \* its arrays: the jobs of each source
  drain,        \* activeBySource and the processSource that runs under it
  turns,        \* enqueueTail: requests waiting to enqueue, the head at it
  requests,     \* calls of queueBatch
  jobGrants, batchGrants,  \* WorkspaceSyncJobGrant by job and by batch
  revision,     \* of the canonical configuration file
  serving,      \* orchestrator.initialize has returned
  cancels, crashes

vars == <<jobs, appends, order, pending, drain, turns, requests, jobGrants,
          batchGrants, revision, serving, cancels, crashes>>

JobIds   == 1..MaxJobs
Requests == 1..MaxRequests
Grant    == [rev : 0..MaxEdits, force : SUBSET Sources]
States   == {"queued", "running", "completed", "failed", "cancelled", "awaiting"}
Terminal == {"completed", "failed", "cancelled"}
\* lastError by what retry makes of it: none or retryable, needs a
\* confirmation of trust or of force (or credentials), or neither.
Errors   == {"none", "retryable", "confirm", "force", "final"}

Record == [by : {"enqueue", "retry", "cancel", "run", "report", "finish"},
           req : 0..MaxRequests, job : 0..MaxJobs, source : Sources,
           batch : Requests, state : States, error : Errors]

Asleep == [pc |-> "idle", own |-> <<>>, shared |-> TRUE, aborted |-> FALSE,
           grant |-> NoGrant, rev |-> 0]
Active == {s \in Sources : drain[s].pc # "idle"}

\* The numbers of S, the least first, and what a list has in S, in its order.
Below(S, n)  == {m \in S : m < n}
Ascending(S) == [i \in 1..Cardinality(S) |-> CHOOSE n \in S : Cardinality(Below(S, n)) = i - 1]
Only(list, S) ==
  LET places == Ascending({i \in DOMAIN list : list[i] \in S})
  IN  [k \in DOMAIN places |-> list[places[k]]]
Without(list, x) == Only(list, ToSet(list) \ {x})

\* The array processSource iterates: the one in the map, unless dropPending
\* has put a filtered copy there since.
Held(s)    == IF drain[s].shared THEN pending[s] ELSE drain[s].own
Current(s) == Head(Held(s))

-----------------------------------------------------------------------------
\* appendSnapshot: records of a new job and of a known one.
Fresh(by, r, s, b) == [by |-> by, req |-> r, job |-> 0, source |-> s, batch |-> b,
                       state |-> "queued", error |-> "none"]
Change(by, j, state, error) ==
  [by |-> by, req |-> 0, job |-> j, source |-> jobs[j].source,
   batch |-> jobs[j].batch, state |-> state, error |-> error]

\* The journal once the record `a` is in it.
With(a) == LET job == [source |-> a.source, batch |-> a.batch,
                       state |-> a.state, error |-> a.error]
           IN  IF a.job = 0 THEN Append(jobs, job) ELSE [jobs EXCEPT ![a.job] = job]

Lands(by) == appends # <<>> /\ Head(appends).by = by

\* Mutant: every slot is always free.
AllSlots(d) == MaxConcurrent
\* scheduleProcessing: the first sources without a drain get one, as slots
\* allow; a drain whose first job is queued has called for its record at once.
Slots(d)  == MaxConcurrent - Cardinality({s \in Sources : d[s].pc # "idle"})
Chosen(o, d) ==
  LET idle == Only(o, {s \in Sources : d[s].pc = "idle"})
  IN  SubSeq(idle, 1, IF Slots(d) < Len(idle) THEN Slots(d) ELSE Len(idle))
Begins(js, j) == IF js[j].state = "queued" THEN "starting" ELSE "skipping"
RunRecord(js, j) == [by |-> "run", req |-> 0, job |-> j, source |-> js[j].source,
                     batch |-> js[j].batch, state |-> "running", error |-> js[j].error]
RunRecords(js, list) ==
  LET starting == Only(list, {j \in DOMAIN js : js[j].state = "queued"})
  IN  [i \in DOMAIN starting |-> RunRecord(js, starting[i])]

\* `o`, `p`, `d`, `a` are the map's keys and arrays, the drains and the
\* appends when it is called, `later` the appends called after it.
Schedule(o, p, d, a, js, later) ==
  \E chosen \in {Chosen(o, d)} :
      /\ order' = o
      /\ pending' = p
      /\ drain' = [s \in Sources |->
                     IF Contains(chosen, s)
                     THEN [Asleep EXCEPT !.pc = Begins(js, Head(p[s]))] ELSE d[s]]
      /\ appends' = a \o RunRecords(js, [i \in DOMAIN chosen |-> Head(p[chosen[i]])]) \o later

\* Mutant: the newest first.
PushedFirst(s, j) == [pending EXCEPT ![s] = <<j>> \o @]
\* queueJob
Keys(s)      == IF pending[s] = <<>> THEN Append(order, s) ELSE order
Pushed(s, j) == [pending EXCEPT ![s] = Append(@, j)]

\* updateJobFromEvent: a job that has ended needs its confirmation no more,
\* and its batch neither once all its jobs have.
AllEnded(js, b) == \A j \in DOMAIN js : js[j].batch = b => js[j].state \in Terminal
Forget(js, j) ==
  IF js[j].state \in Terminal
  THEN /\ jobGrants' = [jobGrants EXCEPT ![j] = NoGrant]
       /\ batchGrants' = IF AllEnded(js, js[j].batch)
                         THEN [batchGrants EXCEPT ![js[j].batch] = NoGrant] ELSE batchGrants
  ELSE UNCHANGED <<jobGrants, batchGrants>>

-----------------------------------------------------------------------------
\* Mutant: only the jobs get the confirmation, once they all exist.
NoBatchGrant(b, g) == batchGrants
\* queueBatch: the confirmation is kept under the batch first, then the sources
\* are enqueued one after the other.
GrantFor(trust, force) == IF trust THEN [rev |-> revision, force |-> force] ELSE NoGrant
BatchGrant(b, g) == IF g = NoGrant THEN batchGrants ELSE [batchGrants EXCEPT ![b] = g]

ToCome == Cardinality({q \in Requests \X (1..MaxJobs) : q[2] <= Len(requests[q[1]].todo)})
            + Cardinality({i \in DOMAIN appends : appends[i].by = "retry"})
Room(n) == Len(jobs) + ToCome + n <= MaxJobs

QueueBatch(r, sources, trust, force, b) ==
  LET g == GrantFor(trust, force)
  IN  /\ serving
      /\ requests[r].pc = "idle"
      /\ \A q \in Requests : q < r => requests[q].pc # "idle"
      /\ Room(Len(sources))
      /\ requests' = [requests EXCEPT ![r] = [pc |-> "queueing", batch |-> b, grant |-> g,
                                              todo |-> sources, made |-> {}]]
      /\ batchGrants' = BatchGrant(b, g)
      /\ turns' = Append(turns, r)
      /\ appends' = IF turns = <<>> THEN Append(appends, Fresh("enqueue", r, Head(sources), b))
                    ELSE appends
      /\ UNCHANGED <<jobs, order, pending, drain, jobGrants, revision, serving, cancels, crashes>>

\* startSync.  The revision it expects is the one it has just loaded.
Start(r) ==
  \E sources \in Batch, trust \in BOOLEAN, force \in SUBSET Sources :
    /\ force \subseteq ToSet(sources)
    /\ force # {} => trust
    /\ QueueBatch(r, sources, trust, force, r)

\* confirmSync, and retryJob of a job that must be confirmed afresh: a new job
\* of the same source in the same batch.
Confirm(r, j) ==
  /\ j \in DOMAIN jobs
  /\ jobs[j].state \in {"awaiting", "failed"}
  /\ \E force \in SUBSET {jobs[j].source} :
       QueueBatch(r, <<jobs[j].source>>, TRUE, force, jobs[j].batch)

\* The record of a new job is in the file: enqueue queues it and passes the
\* turn on, enqueueBatch asks for the next source, and queueBatch, after the
\* last, keeps the confirmation under every job of the batch.
Enqueued ==
  /\ Lands("enqueue")
  /\ LET a    == Head(appends)
         r    == a.req
         j    == Len(jobs) + 1
         made == requests[r].made \union {j}
         todo == Tail(requests[r].todo)
         next == IF todo = <<>> THEN Tail(turns) ELSE Append(Tail(turns), r)
         call == IF next = <<>> THEN <<>>
                 ELSE LET q == Head(next)
                      IN  <<Fresh("enqueue", q, IF q = r THEN Head(todo) ELSE Head(requests[q].todo),
                                  requests[q].batch)>>
     IN  /\ jobs' = With(a)
         /\ turns' = next
         /\ requests' = [requests EXCEPT ![r].todo = todo, ![r].made = made,
                                         ![r].pc = IF todo = <<>> THEN "done" ELSE @]
         /\ jobGrants' = IF todo = <<>> /\ requests[r].grant # NoGrant
                         THEN [i \in JobIds |-> IF i \in made THEN requests[r].grant ELSE jobGrants[i]]
                         ELSE jobGrants
         /\ Schedule(Keys(a.source), Pushed(a.source, j), drain, Tail(appends), With(a), call)
  /\ UNCHANGED <<batchGrants, revision, serving, cancels, crashes>>

\* retryJob of a job that needs no new confirmation: WorkspaceJobQueue.retry.
Retry(j) ==
  /\ serving
  /\ j \in DOMAIN jobs /\ Room(1)
  /\ jobs[j].state \in {"failed", "cancelled"}
  /\ jobs[j].error \in {"none", "retryable"}
  /\ appends' = Append(appends, Fresh("retry", 0, jobs[j].source, jobs[j].batch))
  /\ UNCHANGED <<jobs, order, pending, drain, turns, requests, jobGrants, batchGrants,
                 revision, serving, cancels, crashes>>
Retried ==
  /\ Lands("retry")
  /\ LET a == Head(appends)
     IN  /\ jobs' = With(a)
         /\ Schedule(Keys(a.source), Pushed(a.source, Len(jobs) + 1), drain, Tail(appends),
                     With(a), <<>>)
  /\ UNCHANGED <<turns, requests, jobGrants, batchGrants, revision, serving, cancels, crashes>>

-----------------------------------------------------------------------------
\* cancelJob.  A queued job leaves the map's array, in a copy of it, and its
\* record is called for; of any other the drain of its source is aborted.
DropPending(s, j) ==
  IF pending[s] = <<>> THEN UNCHANGED <<order, pending, drain>>
  ELSE LET rest == Without(pending[s], j)
       IN  /\ pending' = [pending EXCEPT ![s] = rest]
           /\ order' = IF rest = <<>> THEN Without(order, s) ELSE order
           /\ drain' = IF s \in Active
                       THEN [drain EXCEPT ![s].own = Held(s), ![s].shared = FALSE] ELSE drain
Cancel(j) ==
  /\ serving
  /\ cancels < MaxCancels
  /\ j \in DOMAIN jobs /\ jobs[j].state \notin Terminal
  /\ cancels' = cancels + 1
  /\ LET s == jobs[j].source
     IN  IF jobs[j].state = "queued"
         THEN /\ DropPending(s, j)
              /\ appends' = Append(appends, Change("cancel", j, "cancelled", jobs[j].error))
              /\ UNCHANGED jobGrants
         ELSE /\ drain' = IF s \in Active THEN [drain EXCEPT ![s].aborted = TRUE] ELSE drain
              /\ jobGrants' = [jobGrants EXCEPT ![j] = NoGrant]
              /\ UNCHANGED <<order, pending, appends>>
  /\ UNCHANGED <<jobs, turns, requests, batchGrants, revision, serving, crashes>>
Cancelled ==
  /\ Lands("cancel")
  /\ LET a == Head(appends)
     IN  jobs' = With(a) /\ Forget(With(a), a.job)
  /\ appends' = Tail(appends)
  /\ UNCHANGED <<order, pending, drain, turns, requests, revision, serving, cancels, crashes>>

-----------------------------------------------------------------------------
\* runJob: the job is recorded as running, and execute reads its confirmation.
Started ==
  /\ Lands("run")
  /\ LET a == Head(appends)
         g == IF jobGrants[a.job] # NoGrant THEN jobGrants[a.job] ELSE batchGrants[a.batch]
     IN  /\ jobs' = With(a)
         /\ drain' = [drain EXCEPT ![a.source].pc = "planning", ![a.source].grant = g]
  /\ appends' = Tail(appends)
  /\ UNCHANGED <<order, pending, turns, requests, jobGrants, batchGrants, revision, serving,
                 cancels, crashes>>

\* The last record of a run.
Ends(s, state, error) ==
  /\ appends' = Append(appends, Change("finish", Current(s), state, error))
  /\ drain' = [drain EXCEPT ![s].pc = "finishing"]
\* execute threw: a job whose drain was aborted counts as cancelled.
Throws(s) == IF drain[s].aborted THEN Ends(s, "cancelled", jobs[Current(s)].error)
                                 ELSE Ends(s, "failed", "retryable")

\* Mutant: any revision will do.
NeverRevised(g) == FALSE
\* execute loads the configuration, of the confirmed revision if there is a
\* confirmation, and inspects the source; executePlannedAction decides.
Revised(g) == g # NoGrant /\ g.rev # revision
Plan(s) ==
  /\ drain[s].pc = "planning"
  /\ LET g == drain[s].grant
     IN  \/ Throws(s)
         \/ ~Revised(g) /\ Ends(s, "failed", "final")
         \/ /\ ~Revised(g) /\ g = NoGrant
            /\ \E error \in {"confirm", "final"} : Ends(s, "awaiting", error)
         \/ /\ ~Revised(g)
            /\ g # NoGrant => s \notin g.force
            /\ Ends(s, "awaiting", "force")
         \/ /\ ~Revised(g) /\ g # NoGrant
            /\ IF jobs[Current(s)].state \in Terminal
               THEN /\ drain' = [drain EXCEPT ![s].pc = "mutating", ![s].rev = revision]
                    /\ UNCHANGED appends
               ELSE /\ drain' = [drain EXCEPT ![s].pc = "reporting", ![s].rev = revision]
                    /\ appends' = Append(appends, Change("report", Current(s), "running",
                                                         jobs[Current(s)].error))
  /\ UNCHANGED <<jobs, order, pending, turns, requests, jobGrants, batchGrants, revision,
                 serving, cancels, crashes>>
Reported ==
  /\ Lands("report")
  /\ LET a == Head(appends)
     IN  /\ jobs' = With(a)
         /\ drain' = [drain EXCEPT ![a.source].pc = "mutating"]
  /\ appends' = Tail(appends)
  /\ UNCHANGED <<order, pending, turns, requests, jobGrants, batchGrants, revision, serving,
                 cancels, crashes>>

\* The git operation has answered, or thrown; toExecutionResult.
Mutate(s) ==
  /\ drain[s].pc = "mutating"
  /\ \/ /\ \/ Ends(s, "completed", jobs[Current(s)].error)
           \/ \E error \in {"confirm", "force", "final"} : Ends(s, "failed", error)
           \/ drain[s].aborted /\ Ends(s, "cancelled", jobs[Current(s)].error)
        /\ jobGrants' = [jobGrants EXCEPT ![Current(s)] = NoGrant]
     \/ Throws(s) /\ UNCHANGED jobGrants
  /\ UNCHANGED <<jobs, order, pending, turns, requests, batchGrants, revision, serving,
                 cancels, crashes>>

\* Mutant: what is under the key goes with it.
KeptNothing(s, p) == [p EXCEPT ![s] = <<>>]
\* Mutant: the slot is given back to nobody.
FreesOnly(o, p, d, a, js) == order' = o /\ pending' = p /\ drain' = d /\ appends' = a
\* processSource goes on with its array, and at its end gives the slot back,
\* leaving the key while the map has jobs under it.
Leftover(s, p) == IF p[s] = <<>> THEN Without(order, s) ELSE order
Kept(s, p)     == p
Frees(o, p, d, a, js) == Schedule(o, p, d, a, js, <<>>)
Advance(s, js, a) ==
  LET rest == Tail(Held(s))
      p    == IF drain[s].shared THEN [pending EXCEPT ![s] = rest] ELSE pending
  IN  IF rest = <<>>
      THEN Frees(Leftover(s, Kept(s, p)), Kept(s, p), [drain EXCEPT ![s] = Asleep], a, js)
      ELSE /\ pending' = p
           /\ drain' = [drain EXCEPT ![s].pc = Begins(js, Head(rest)), ![s].grant = NoGrant,
                                     ![s].own = IF drain[s].shared THEN <<>> ELSE rest]
           /\ appends' = a \o RunRecords(js, <<Head(rest)>>)
           /\ UNCHANGED order
Finished ==
  /\ Lands("finish")
  /\ LET a == Head(appends)
     IN  /\ jobs' = With(a)
         /\ Forget(With(a), a.job)
         /\ Advance(a.source, With(a), Tail(appends))
  /\ UNCHANGED <<turns, requests, revision, serving, cancels, crashes>>
\* A job that is no longer queued is passed over.
Skip(s) ==
  /\ drain[s].pc = "skipping"
  /\ Advance(s, jobs, appends)
  /\ UNCHANGED <<jobs, turns, requests, jobGrants, batchGrants, revision, serving, cancels, crashes>>

-----------------------------------------------------------------------------
\* Mutant: nothing is recorded.
NotInterrupted(js) == js
\* The process dies, the record being written possibly in the file, and comes
\* back: what was running is recorded as failed, what was queued is queued
\* again, and no request is served before the queue is idle.
Interrupted(js) == [j \in DOMAIN js |-> IF js[j].state = "running"
                                        THEN [js[j] EXCEPT !.state = "failed", !.error = "retryable"]
                                        ELSE js[j]]
Restart ==
  /\ crashes < MaxCrashes
  /\ crashes' = crashes + 1
  /\ \E file \in {jobs} \union {With(a) : a \in IF appends = <<>> THEN {} ELSE {Head(appends)}} :
       LET js == Interrupted(file)
           queued(s) == {j \in DOMAIN js : js[j].source = s /\ js[j].state = "queued"}
           firsts == Ascending({j \in DOMAIN js : \E s \in Sources :
                                  j \in queued(s) /\ \A i \in queued(s) : j <= i})
       IN  /\ jobs' = js
           /\ Schedule([k \in DOMAIN firsts |-> js[firsts[k]].source],
                       [s \in Sources |-> Ascending(queued(s))],
                       [s \in Sources |-> Asleep], <<>>, js, <<>>)
  /\ serving' = FALSE
  /\ turns' = <<>>
  /\ requests' = [r \in Requests |-> IF requests[r].pc = "idle" THEN requests[r]
                                     ELSE [requests[r] EXCEPT !.pc = "done", !.grant = NoGrant,
                                                              !.todo = <<>>, !.made = {}]]
  /\ jobGrants' = [j \in JobIds |-> NoGrant]
  /\ batchGrants' = [b \in Requests |-> NoGrant]
  /\ UNCHANGED <<revision, cancels>>
Serve ==
  /\ ~serving /\ order = <<>> /\ Active = {}
  /\ serving' = TRUE
  /\ UNCHANGED <<jobs, appends, order, pending, drain, turns, requests, jobGrants, batchGrants,
                 revision, cancels, crashes>>

\* External: somebody saves the configuration file.
EditConfig ==
  /\ revision < MaxEdits
  /\ revision' = revision + 1
  /\ UNCHANGED <<jobs, appends, order, pending, drain, turns, requests, jobGrants, batchGrants,
                 serving, cancels, crashes>>

Init ==
  /\ jobs = <<>> /\ appends = <<>> /\ order = <<>> /\ turns = <<>>
  /\ pending = [s \in Sources |-> <<>>]
  /\ drain = [s \in Sources |-> Asleep]
  /\ requests = [r \in Requests |-> [pc |-> "idle", batch |-> r, grant |-> NoGrant,
                                     todo |-> <<>>, made |-> {}]]
  /\ jobGrants = [j \in JobIds |-> NoGrant]
  /\ batchGrants = [b \in Requests |-> NoGrant]
  /\ revision = 0 /\ serving = TRUE /\ cancels = 0 /\ crashes = 0

AppendLands == Enqueued \/ Retried \/ Cancelled \/ Started \/ Reported \/ Finished
Works(s)    == Plan(s) \/ Mutate(s) \/ Skip(s)
Next ==
  \/ \E r \in Requests : Start(r) \/ \E j \in JobIds : Confirm(r, j)
  \/ \E j \in JobIds : Retry(j) \/ Cancel(j)
  \/ AppendLands
  \/ \E s \in Sources : Works(s)
  \/ Serve \/ Restart \/ EditConfig

\* The event loop comes round to every callback; users, edits and crashes may
\* stay away.
Spec == /\ Init /\ [][Next]_vars
        /\ WF_vars(AppendLands) /\ WF_vars(Serve)
        /\ \A s \in Sources : WF_vars(Works(s))

-----------------------------------------------------------------------------
TypeOK ==
  /\ jobs \in Seq([source : Sources, batch : Requests, state : States, error : Errors])
  /\ Len(jobs) <= MaxJobs
  /\ appends \in Seq(Record)
  /\ pending \in [Sources -> Seq(JobIds)]
  /\ ToSet(order) = {s \in Sources : pending[s] # <<>>} /\ IsInjective(order)
  /\ \A s \in Sources :
       /\ drain[s].pc \in {"idle", "starting", "skipping", "planning", "reporting",
                           "mutating", "finishing"}
       /\ drain[s].grant \in Grant \union {NoGrant}
       /\ drain[s].pc # "idle" => Held(s) # <<>>
  /\ Cardinality(Active) <= MaxConcurrent
  /\ jobGrants \in [JobIds -> Grant \union {NoGrant}]
  /\ batchGrants \in [Requests -> Grant \union {NoGrant}]

\* A queued job is where a drain will find it, unless its cancellation is on
\* its way, whatever copies dropPending has made of the arrays
\* (workspace-job-queue.ts, queueJob, dropPending, processSource).
QueuedIsListed ==
  \A j \in DOMAIN jobs : jobs[j].state = "queued" =>
    LET s == jobs[j].source
    IN  \/ Contains(pending[s], j)
        \/ s \in Active /\ Contains(Held(s), j)
        \/ \E i \in DOMAIN appends : appends[i].job = j /\ appends[i].by = "cancel"

\* A job recorded as running is the one its source's drain is at, restarts
\* included (runJob, markInterruptedOnRecovery).
RunningIsDriven ==
  \A j \in DOMAIN jobs : jobs[j].state = "running" =>
    LET s == jobs[j].source
    IN  drain[s].pc \in {"planning", "reporting", "mutating", "finishing"} /\ Current(s) = j

\* Git touches a source only under a confirmation given since the process
\* started, for the batch of the job and for the configuration the job has
\* loaded (executePlannedAction, loadValidConfig, maybeDeleteBatchGrant).
TouchedWhenConfirmed ==
  \A s \in Sources : drain[s].pc \in {"reporting", "mutating"} =>
    /\ drain[s].grant # NoGrant /\ drain[s].grant.rev = drain[s].rev
    /\ \E r \in Requests : /\ requests[r].grant = drain[s].grant
                           /\ requests[r].batch = jobs[Current(s)].batch

Asked(j) == jobs[j].state = "awaiting" /\ jobs[j].error = "confirm"
FirstOrLast(r, j) ==
  \/ \A i \in requests[r].made : j <= i
  \/ requests[r].todo = <<>> /\ \A i \in requests[r].made : i <= j
\* While nobody cancels, the first and the last job of a confirmed request are
\* not sent back for the confirmation, however the jobs of their batch end and
\* other requests have their turns meanwhile (queueBatch, maybeDeleteBatchGrant).
ConfirmedIsNotAsked ==
  cancels = 0 => \A r \in Requests : requests[r].grant # NoGrant =>
    \A j \in requests[r].made : FirstOrLast(r, j) => ~Asked(j)

\* The jobs of a source start in the order they were enqueued, also over a
\* restart (queueJob, initialize).
InOrder ==
  [][\A j \in DOMAIN jobs : jobs[j].state = "queued" /\ jobs'[j].state = "running" =>
       \A i \in DOMAIN jobs : i < j /\ jobs[i].source = jobs[j].source
                                => jobs[i].state \notin {"queued", "running"}]_vars

Unsettled(j) == j \in DOMAIN jobs /\ jobs[j].state \in {"queued", "running"}
\* Every job ends or waits for a confirmation, and after a restart requests
\* are served again.
Settles ==
  /\ \A j \in JobIds : Unsettled(j) ~> ~Unsettled(j)
  /\ ~serving ~> serving

\* Not so: no job of a confirmed request is sent back for the confirmation (the
\* batch's is dropped once the jobs made so far have ended, and each job's own
\* is kept after the last is made: maybeDeleteBatchGrant, queueBatch).
NoneConfirmedIsAsked ==
  cancels = 0 => \A r \in Requests : requests[r].grant # NoGrant =>
    \A j \in requests[r].made : ~Asked(j)

\* Not so: a job the user has seen cancelled does not run on (the record of the
\* run may land after the record of its cancellation).
CancelledStays ==
  [][\A j \in DOMAIN jobs : jobs[j].state = "cancelled" => jobs'[j].state = "cancelled"]_vars
=============================================================================
