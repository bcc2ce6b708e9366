--------------------------- MODULE SaveOperations ---------------------------
(***************************************************************************)
(* Publishing saved documents: repository-operation-queue.ts (one operation *)
(* per save, one at a time for a repository, journaled at every step) and   *)
(* git-publish-service.ts (the checks, the pull, the commit and the push).  *)
(* One repository and one document; the user saves, commits by hand and     *)
(* reconfigures, others push to the remote.  A commit is who made it and    *)
(* what the document holds after it.                                        *)
(***************************************************************************)
EXTENDS Naturals, FiniteSets, SequencesExt

CONSTANTS Untouched, Drafts, Theirs,   \* what the document holds: at first, from the user, from others
          MaxSaves, MaxForeign, MaxHands, MaxConfigs, MaxCrashes, MaxFaults  \* bounds

ASSUME SaveAssumption ==
  /\ Untouched \notin Theirs /\ Drafts \intersect Theirs = {}
  /\ {MaxSaves, MaxForeign, MaxHands, MaxConfigs, MaxCrashes, MaxFaults} \subseteq Nat

VARIABLES
  mode,      \* git.mode of the descriptor, "push" or "commit"
  revision,  \* its configRevision
  work,      \* the document in the working tree
  index,     \* what is staged for it, or Nothing
  stopped,   \* a rebase has stopped: HEAD is detached
  local,     \* the commits of the branch
  remote,    \* and of the remote's, both without the common start
  ops,       \* operations in order of enqueueing: content and config revision
  journal,   \* operations.get(o).state, or Lost of a save whose enqueue has failed
  pending,   \* pendingByRepository: the operations with their state when queued
  run,       \* where runOperation and execute stand with the first of them
  saves, foreign, hands, crashes, faults

git  == <<index, stopped, local, remote>>
tree == <<work, index, stopped, local, remote>>
user == <<saves, hands, foreign, revision>>
vars == <<mode, revision, work, index, stopped, local, remote, ops, journal, pending, run,
          saves, foreign, hands, crashes, faults>>
Fault == faults < MaxFaults /\ faults' = faults + 1

Nothing  == "nothing"
Contents == {Untouched} \union Drafts \union Theirs
Saves   == 1..MaxSaves
Hand    == 0                \* who made a commit, when no operation did
Other   == MaxSaves + 1
Commit  == [by : 0..Other, holds : Contents]
Op      == [holds : Contents, revision : 0..MaxConfigs]
Ends    == {"no-changes", "committed-local", "pushed"}
Waits   == {"failed", "blocked", "push-pending"}
Lost    == "lost"
States  == Ends \union Waits
             \union {Lost, "queued", "validating", "committing", "committed", "pushing"}
Steps   == {"idle", "check", "pull", "pulled", "hash", "add", "commit", "prepush", "push", "record"}
Idle    == [at |-> "idle", fresh |-> FALSE, todo |-> <<>>]

o1       == pending[1].op
Running  == run # Idle
Tip(h)   == IF h = <<>> THEN Untouched ELSE Last(h).holds
\* How much of the two histories is common, and what is only local.
Shared   == Len(LongestCommonPrefix({local, remote}))
Mine     == SubSeq(local, Shared + 1, Len(local))
Resuming == pending[1].state \in {"committed", "pushing", "push-pending"}
Current  == ops[o1].revision = revision

-----------------------------------------------------------------------------
\* queueOperation, enqueue.
Queued(o, s) == Append(pending, [op |-> o, state |-> s])
\* StudioSaveableService: the file is written, then the operation enqueued;
\* the preparations after a save run in the order of the saves.  One that
\* fails is only logged: nothing tells the queue of that save.
Save(c) ==
  /\ c \in Drafts
  /\ saves < MaxSaves /\ index # "unmerged"
  /\ saves' = saves + 1 /\ work' = c
  /\ ops' = Append(ops, [holds |-> c, revision |-> 0])
  /\ UNCHANGED <<mode, revision, git, journal, pending, run, foreign, hands, crashes, faults>>
Enqueue ==
  /\ Len(journal) < Len(ops)
  /\ journal' = Append(journal, "queued")
  /\ ops' = [ops EXCEPT ![Len(journal')].revision = revision]
  /\ pending' = Queued(Len(journal'), "queued")
  /\ UNCHANGED <<mode, user, tree, run, crashes, faults>>
EnqueueFails ==
  /\ Len(journal) < Len(ops) /\ Fault
  /\ journal' = Append(journal, Lost)
  /\ UNCHANGED <<mode, user, tree, ops, pending, run, crashes>>

\* retry
\* Mutant: also when it is queued already.
NeverPending(o)  == FALSE
AlreadyPending(o) == \E i \in DOMAIN pending : pending[i].op = o
Retry(o) ==
  /\ o \in DOMAIN journal /\ journal[o] \in Waits
  /\ ~AlreadyPending(o)
  /\ pending' = Queued(o, journal[o])
  /\ UNCHANGED <<mode, user, tree, ops, journal, run, crashes, faults>>

-----------------------------------------------------------------------------
\* runOperation up to the executor.
At(step)   == Running /\ run.at = step
Goes(step) == run' = [run EXCEPT !.at = step]
Begin ==
  /\ pending # <<>> /\ ~Running
  /\ journal' = [journal EXCEPT ![o1] = "validating"]
  /\ Goes("check")
  /\ UNCHANGED <<mode, user, tree, ops, pending, crashes, faults>>

\* What runOperation records for each outcome, one transition at a time.
Records(outcome) ==
  LET unlessResuming(s) == IF Resuming THEN <<>> ELSE s
  IN  CASE outcome = "committed-local" -> unlessResuming(<<"committing">>) \o <<outcome>>
        [] outcome = "push-pending" -> unlessResuming(<<"committing", "committed">>) \o <<outcome>>
        [] outcome = "pushed" ->
             unlessResuming(<<"committing", "committed">>) \o <<"pushing", outcome>>
        [] OTHER -> <<outcome>>
Gives(outcome) == run' = [at |-> "record", fresh |-> FALSE, todo |-> Records(outcome)]
Record ==
  /\ At("record")
  /\ journal' = [journal EXCEPT ![o1] = Head(run.todo)]
  /\ IF Len(run.todo) = 1 THEN run' = Idle /\ pending' = Tail(pending)
                          ELSE run' = [run EXCEPT !.todo = Tail(@)] /\ UNCHANGED pending
  /\ UNCHANGED <<mode, user, tree, ops, crashes, faults>>
\* An append fails, the first ("validating") or a later one, and with it
\* processRepository, whose finally starts it again.
RecordFails ==
  /\ At("record") \/ (pending # <<>> /\ ~Running)
  /\ Fault
  /\ run' = Idle
  /\ UNCHANGED <<mode, user, tree, ops, journal, pending, crashes>>

-----------------------------------------------------------------------------
\* execute, up to the first effect: the configuration, the branch, the commit
\* of an earlier attempt, the status.
\* Mutant: an earlier attempt is not looked for.
NotCommitted == FALSE
Committed    == \E i \in DOMAIN local : local[i].by = o1
HeadHolds    == Tip(local) = ops[o1].holds
PullThen(fresh) == run' = [run EXCEPT !.at = "pull", !.fresh = fresh]
Check ==
  /\ At("check")
  /\ IF ~Current \/ stopped THEN Gives("blocked")
     ELSE IF Committed THEN
            IF ~HeadHolds THEN Gives("blocked")
            ELSE IF mode = "commit" THEN Gives("committed-local") ELSE PullThen(FALSE)
     ELSE IF Resuming /\ mode = "push" /\ HeadHolds THEN PullThen(FALSE)
     ELSE IF index # Nothing THEN Gives("blocked")
     ELSE \/ work = Tip(local) /\ Gives("no-changes")
          \/ IF mode = "push" THEN PullThen(TRUE) ELSE Goes("hash")  \* a change, or another file's
  /\ UNCHANGED <<mode, user, tree, ops, journal, pending, crashes, faults>>
\* A look at the session, at a file or into git throws; over an existing commit
\* pullRebaseAndPush takes it for a push that failed, if it was git.
StepFails ==
  /\ run.at \in {"check", "pulled", "hash", "add", "prepush"} /\ Fault
  /\ \/ Gives("failed")
     \/ run.at \in {"pulled", "prepush"} /\ ~run.fresh /\ Gives("push-pending")
  /\ UNCHANGED <<mode, user, tree, ops, journal, pending, crashes>>

\* pullBeforeFreshCommit: git pull --rebase --autostash, external.
Rebase ==
  LET onto     == Tip(SubSeq(local, 1, Shared))
      upstream == Tip(remote)
  IN  \* Nothing new touches the document, or makes the same change.
      \/ /\ upstream = onto \/ (Len(Mine) = 1 /\ upstream = Tip(local))
         /\ local' = IF upstream = onto THEN remote \o Mine ELSE remote
         /\ Goes("pulled") /\ UNCHANGED <<work, index, stopped>>
      \* Ours is fast-forwarded, and an unpublished save put back on it: the
      \* marks of a conflict are left in the file.
      \/ /\ upstream # onto /\ Mine = <<>>
         /\ local' = remote
         /\ work' = IF work = onto THEN upstream ELSE work
         /\ index' = IF work \in {onto, upstream} THEN index ELSE "unmerged"
         /\ Goes("pulled") /\ UNCHANGED stopped
      \* Both change it: the rebase stops.
      \/ /\ upstream # onto /\ Mine # <<>> /\ ~(Len(Mine) = 1 /\ upstream = Tip(local))
         /\ stopped' = TRUE
         /\ Gives("blocked") /\ UNCHANGED <<work, index, local>>
Pull ==
  /\ At("pull")
  /\ \/ ~Current /\ Gives("blocked") /\ UNCHANGED <<tree, faults>>
     \/ Current /\ Fault /\ (Gives("push-pending") \/ Gives("failed")) /\ UNCHANGED tree
     \/ Current /\ Rebase /\ UNCHANGED <<remote, faults>>
  /\ UNCHANGED <<mode, user, ops, journal, pending, crashes>>
\* After it: the commit that is there is pushed, or a fresh one made.
Pulled ==
  /\ At("pulled")
  /\ IF ~Current THEN Gives("blocked") ELSE Goes(IF run.fresh THEN "hash" ELSE "prepush")
  /\ UNCHANGED <<mode, user, tree, ops, journal, pending, crashes, faults>>

\* The saved content, read once more; git add, and what it has staged.
Hash ==
  /\ At("hash")
  /\ IF work # ops[o1].holds \/ index = "unmerged" THEN Gives("blocked") ELSE Goes("add")
  /\ UNCHANGED <<mode, user, tree, ops, journal, pending, crashes, faults>>
Add ==
  /\ At("add")
  /\ index' = IF work = Tip(local) THEN Nothing ELSE work
  /\ \/ /\ IF index' = ops[o1].holds THEN Goes("commit") ELSE Gives("blocked")
        /\ UNCHANGED faults
     \/ Fault /\ Gives("failed")  \* staged, and then not read
  /\ UNCHANGED <<mode, user, work, stopped, local, remote, ops, journal, pending, crashes>>
\* git commit --only takes the working tree's content, not the staged one.  The
\* commit made, a look at it may still fail, or find a hook's files in it.
Commits ==
  /\ work # Tip(local)
  /\ local' = Append(local, [by |-> o1, holds |-> work])
  /\ index' = Nothing
MakeCommit ==
  /\ At("commit")
  /\ \/ /\ Commits /\ UNCHANGED faults
        /\ IF mode = "commit" THEN Gives("committed-local") ELSE Goes("prepush")
     \/ Commits /\ Fault /\ (Gives("failed") \/ Gives("blocked"))
     \/ work = Tip(local) /\ Gives("failed") /\ UNCHANGED <<local, index, faults>>
     \/ Fault /\ Gives("failed") /\ UNCHANGED <<local, index>>
  /\ UNCHANGED <<mode, user, work, stopped, remote, ops, journal, pending, crashes>>

\* pushCommittedHead
\* Mutant: HEAD is pushed whatever it holds.
AnyHead  == TRUE
HeadToPush == HeadHolds
PrePush ==
  /\ At("prepush")
  /\ IF Current /\ HeadToPush THEN Goes("push") ELSE Gives("blocked")
  /\ UNCHANGED <<mode, user, tree, ops, journal, pending, crashes, faults>>
\* The push goes through, is refused or fails, or goes through unheard.
Push ==
  /\ At("push")
  /\ \/ /\ IsPrefix(remote, local) /\ remote' = local
        /\ Gives("pushed") /\ UNCHANGED faults
     \/ /\ ~IsPrefix(remote, local)
        /\ Gives("push-pending") /\ UNCHANGED <<remote, faults>>
     \/ /\ Fault
        /\ remote' \in {remote} \union (IF IsPrefix(remote, local) THEN {local} ELSE {})
        /\ Gives("push-pending")
  /\ UNCHANGED <<mode, user, work, index, stopped, local, ops, journal, pending, crashes>>

-----------------------------------------------------------------------------
\* Others push to the remote: another document, or this one.
ForeignPush(c) ==
  /\ c \in Theirs \union {Tip(remote)}
  /\ foreign < MaxForeign /\ foreign' = foreign + 1
  /\ remote' = Append(remote, [by |-> Other, holds |-> c])
  /\ UNCHANGED <<mode, revision, work, index, stopped, local, ops, journal, pending, run,
                 saves, hands, crashes, faults>>
\* The user commits the document by hand, or squashes what was not pushed.
HandCommit ==
  /\ hands < MaxHands /\ hands' = hands + 1
  /\ ~stopped /\ index = Nothing
  /\ \/ work # Tip(local) /\ local' = Append(local, [by |-> Hand, holds |-> work])
     \/ Mine # <<>> /\ local' = Append(SubSeq(local, 1, Shared),
                                       [by |-> Hand, holds |-> Tip(local)])
  /\ UNCHANGED <<mode, revision, work, index, stopped, remote, ops, journal, pending, run,
                 saves, foreign, crashes, faults>>
\* And clears what a stopped rebase or an unfinished commit has left.
HandRepair ==
  /\ ~Running /\ (stopped \/ index # Nothing)
  /\ stopped' = FALSE /\ index' = Nothing
  /\ UNCHANGED <<mode, user, work, local, remote, ops, journal, pending, run, crashes, faults>>
Reconfigure ==
  /\ revision < MaxConfigs /\ revision' = revision + 1
  /\ UNCHANGED <<mode, tree, ops, journal, pending, run, saves, foreign, hands, crashes, faults>>

\* The process dies and starts: initialize queues what the journal has open,
\* in the order of creation.  (With nothing queued a restart changes nothing.)
\* Mutant: what was validating is not open.
OpenIfQueued(s) == s \in {"queued", "committing", "committed", "pushing", "push-pending"}
isNonTerminal(s) == s \notin (Ends \union {Lost, "failed", "blocked"})
Restart ==
  /\ pending # <<>> /\ crashes < MaxCrashes /\ crashes' = crashes + 1
  /\ LET open == {o \in DOMAIN journal : isNonTerminal(journal[o])}
     IN  \E q \in [1..Cardinality(open) -> open] :
           /\ \A i, j \in DOMAIN q : i < j => q[i] < q[j]
           /\ pending' = [i \in DOMAIN q |-> [op |-> q[i], state |-> journal[q[i]]]]
  /\ run' = Idle
  /\ UNCHANGED <<mode, user, tree, ops, journal, faults>>

Init ==
  /\ mode \in {"push", "commit"} /\ revision = 0
  /\ work = Untouched /\ index = Nothing /\ stopped = FALSE /\ local = <<>> /\ remote = <<>>
  /\ ops = <<>> /\ journal = <<>> /\ pending = <<>> /\ run = Idle
  /\ saves = 0 /\ foreign = 0 /\ hands = 0 /\ crashes = 0 /\ faults = 0
Runner == Begin \/ Check \/ Pull \/ Pulled \/ Hash \/ Add \/ MakeCommit \/ PrePush \/ Push \/ Record
Next ==
  \/ \E c \in Contents : Save(c) \/ ForeignPush(c)
  \/ \E o \in Saves : Retry(o)
  \/ Enqueue \/ EnqueueFails \/ Runner \/ StepFails \/ RecordFails
  \/ HandCommit \/ HandRepair \/ Reconfigure \/ Restart
Spec == Init /\ [][Next]_vars
\* Every await of the runner ends; how often the user retries is open.
FairSpec == Spec /\ WF_vars(Runner)

-----------------------------------------------------------------------------
TypeOK ==
  /\ mode \in {"push", "commit"} /\ revision \in 0..MaxConfigs
  /\ work \in Contents /\ index \in Contents \union {Nothing, "unmerged"} /\ stopped \in BOOLEAN
  /\ local \in Seq(Commit) /\ remote \in Seq(Commit)
  /\ ops \in Seq(Op) /\ Len(ops) = saves /\ saves <= MaxSaves
  /\ journal \in Seq(States) /\ Len(journal) <= Len(ops)
  /\ \A i \in DOMAIN pending : pending[i].op \in DOMAIN journal /\ pending[i].state \in States
  /\ \A i, j \in DOMAIN pending : pending[i].op = pending[j].op => i = j
  /\ run.at \in Steps /\ (Running => pending # <<>>)

\* A save recorded as pushed has reached the remote: some commit there holds
\* what was saved.  (HEAD is pushed as it is after the check of what it holds:
\* two commits by hand in between, one squashing, can take it away again.)
\* One recorded as committed has its commit on the branch.
RecordedIsThere ==
  \A o \in DOMAIN journal :
    /\ journal[o] = "pushed" /\ hands <= 1 =>
         ops[o].holds \in {Untouched} \union {remote[i].holds : i \in DOMAIN remote}
    /\ journal[o] = "committed-local" /\ hands = 0 => \E i \in DOMAIN local : local[i].by = o

\* A save is committed once, whatever is retried, replayed or pulled.
OneCommitEach ==
  \A h \in {local, remote} : \A i, j \in DOMAIN h :
    h[i].by = h[j].by /\ h[i].by \in Saves => i = j

\* At rest, when every save is done, the file is what HEAD holds, and nothing
\* of ours is left to push.
NothingLeftBehind ==
  /\ pending = <<>> /\ Len(journal) = Len(ops) /\ Len(ops) > 0 /\ hands = 0
  /\ \A o \in DOMAIN journal : journal[o] \in Ends
  => /\ work = Tip(local)
     /\ mode = "push" => Mine = <<>>

\* Every save the queue has accepted comes to rest, over crashes and faults.
AtRest(o) ==
  /\ o \in DOMAIN journal /\ journal[o] \in Ends \union Waits
  /\ \A i \in DOMAIN pending : pending[i].op # o
Settles == \A o \in Saves : o \in DOMAIN journal /\ journal[o] # Lost ~> AtRest(o)

\* Not so: the commit of a save holds what was saved.
CommitHoldsTheSave ==
  \A i \in DOMAIN local : local[i].by \in Saves => local[i].holds = ops[local[i].by].holds
\* Not so: at rest nothing is left staged, which would block every later save.
IndexIsClean == run = Idle => index = Nothing
=============================================================================
