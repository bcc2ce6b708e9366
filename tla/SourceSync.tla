----------------------------- MODULE SourceSync -----------------------------
(***************************************************************************)
(* One configured source of a workspace and the jobs that bring it into    *)
(* step with its remote: executePlannedAction of                           *)
(* workspace-sync-orchestrator.ts and the operations of                    *)
(* workspace-git-service.ts it calls.  WorkspaceJobs runs them one at a    *)
(* time; the user, other tools and the colleagues at the remote go on      *)
(* working between any two git commands.                                   *)
(*                                                                         *)
(* A branch is the set of commits it reaches, so that a revision is known  *)
(* by that set, and a history contains another if the sets do.             *)
(***************************************************************************)
EXTENDS Naturals

CONSTANTS MaxCommits, MaxJobs   \* bounds

ASSUME SourceAssumption == {MaxCommits, MaxJobs} \subseteq Nat

VARIABLES
  dest,      \* what is at the source's path: nothing, a repository, or other files
  url,       \* its remote.origin.url
  head,      \* the branch it is on, or HEAD when it is detached
  local,     \* its branches, and a detached HEAD
  tracking,  \* refs/remotes/origin/<configured ref>
  dirty,     \* uncommitted changes
  remotes,   \* external: the configured branch at the configured URL and at another
  commits,   \* how many commits have been made, anywhere
  tmp,       \* the temporary directory of a clone
  job,       \* the job being executed
  jobs       \* how many jobs there have been

user == <<dest, head, local, dirty>>
vars == <<dest, url, head, local, tracking, dirty, remotes, commits, tmp, job, jobs>>

Commits  == 0..MaxCommits       \* 0 is the root of every history
History  == SUBSET Commits
NoRef    == {}                  \* a ref that does not exist; no revision
Branches == {"main", "topic"}   \* main is the configured ref
Heads    == Branches \union {"HEAD"}
OnBranches(h) == [b \in Heads |-> IF b \in Branches THEN h ELSE NoRef]
Urls     == {"right", "other"}
Outcomes == {"none", "awaiting", "conflict", "failed", "cancelled", "cloned",
             "needs-inspection", "up-to-date", "updated", "forced"}

\* What inspectConfiguredSource answers, and the job: the operation it is at,
\* the step of it, the confirmations it has, what it expects, and (history)
\* what the remote has been since it started.
States     == {"missing", "no-repo", "wrong-remote", "detached", "dirty", "clean", "ahead",
               "behind", "diverged"}
Inspection == [state : States, rev : History, remote : History]
Nothing    == [state |-> "missing", rev |-> NoRef, remote |-> NoRef]
Ops   == {"none", "plan", "clone", "reconcile", "ff", "refresh", "force"}
Steps == {"idle", "look", "count", "known", "set-url", "confirm", "fetch", "merge",
          "recheck", "checkout", "prepare", "clone", "verify", "activate", "ended"}
Job   == [op : Ops, step : Steps, force : BOOLEAN, aborted : BOOLEAN, seen : Inspection,
          expected : Inspection, since : SUBSET History, outcome : Outcomes]

At(op, step) == job.op = op /\ job.step = step
Go(op, step) == job' = [job EXCEPT !.op = op, !.step = step]
Ends(o)      == job' = [job EXCEPT !.step = "ended", !.outcome = o, !.aborted = FALSE,
                                   !.seen = Nothing, !.expected = Nothing]
\* A throw, or an abort: the catch clauses of the service.
Throws       == Ends(IF job.aborted THEN "cancelled" ELSE "failed")

-----------------------------------------------------------------------------
\* execute: a job that has the user's confirmation starts with an inspection.
Begin(force) ==
  /\ job.step \in {"idle", "ended"}
  /\ jobs < MaxJobs
  /\ jobs' = jobs + 1
  /\ job' = [op |-> "plan", step |-> "look", force |-> force, aborted |-> FALSE,
             seen |-> Nothing, expected |-> Nothing, since |-> {remotes["right"]}, outcome |-> "none"]
  /\ UNCHANGED <<user, url, tracking, remotes, commits, tmp>>

\* inspectConfiguredSource, in two parts: what is at the path, and how its
\* HEAD stands to the tracking ref.  Any git command may fail; an error that
\* reads like a refused login is taken for a wrong remote, as is a repository
\* with settings of its own that git would run.
Sees(state, rev, remote) ==
  job' = [job EXCEPT !.step = "known", !.seen = [state |-> state, rev |-> rev, remote |-> remote]]
Unreadable == Throws \/ Sees("wrong-remote", NoRef, NoRef)
Found ==
  CASE dest = "none"  -> Sees("missing", NoRef, NoRef)
    [] dest = "other" -> Sees("no-repo", NoRef, NoRef)
    [] dest = "repo" /\ url # "right" -> Sees("wrong-remote", NoRef, NoRef)
    [] dest = "repo" /\ url = "right" /\ head = "HEAD" -> Sees("detached", local[head], NoRef)
    [] dest = "repo" /\ url = "right" /\ head # "HEAD" /\ dirty -> Sees("dirty", local[head], NoRef)
    [] OTHER -> job' = [job EXCEPT !.step = "count", !.seen.rev = local[head]]
Look ==
  /\ job.step = "look" /\ job.op # "reconcile"
  /\ Found \/ (dest # "none" /\ Unreadable)
  /\ UNCHANGED <<user, url, tracking, remotes, commits, tmp, jobs>>
Standing(h, t) ==
  CASE t = NoRef \/ h = t -> "clean"
    [] h # t /\ t \subseteq h -> "ahead"
    [] h # t /\ h \subseteq t -> "behind"
    [] OTHER -> "diverged"
Count ==
  /\ job.step = "count"
  /\ Sees(Standing(local[head], tracking), job.seen.rev, tracking) \/ Unreadable
  /\ UNCHANGED <<user, url, tracking, remotes, commits, tmp, jobs>>

\* executePlannedAction: blocked sources fail, a source ahead or diverged
\* needs the confirmation of force; the operation starts by inspecting again.
NeedsForce(i) == i.state \in {"ahead", "diverged"}
Plan ==
  /\ At("plan", "known")
  /\ CASE job.seen.state \in {"dirty", "detached", "no-repo"} -> Ends("failed")
       [] job.seen.state = "missing"      -> Go("clone", "look")
       [] job.seen.state = "wrong-remote" -> Go("reconcile", "look")
       [] job.seen.state \in {"clean", "behind"} -> Go("ff", "look")
       [] NeedsForce(job.seen) /\ ~job.force -> Ends("awaiting")
       [] NeedsForce(job.seen) /\ job.force  ->
            job' = [job EXCEPT !.op = "force", !.step = "look", !.expected = job.seen]
  /\ UNCHANGED <<user, url, tracking, remotes, commits, tmp, jobs>>

-----------------------------------------------------------------------------
\* Mutant: what looks in step is not fetched.
FetchIfBehind == IF job.seen.state = "clean" THEN Ends("up-to-date") ELSE Go("ff", "fetch")
\* fastForwardUpdate: inspect, fetch, inspect, merge --ff-only.
FetchAnyway == Go("ff", "fetch")
FastForward ==
  /\ At("ff", "known")
  /\ IF job.seen.state \in {"clean", "behind"}
     THEN IF job.aborted THEN Ends("cancelled") ELSE FetchAnyway
     ELSE Ends("conflict")
  /\ UNCHANGED <<user, url, tracking, remotes, commits, tmp, jobs>>
\* fetchRemote: the refspec is not forced, so a ref that would not be
\* fast-forwarded is refused; and the network, or the login, may fail.
Fetches(next) ==
  /\ \/ /\ tracking = NoRef \/ tracking \subseteq remotes[url]
        /\ tracking' = remotes[url]
        /\ next
     \/ Throws /\ UNCHANGED tracking
  /\ UNCHANGED <<user, url, remotes, commits, tmp, jobs>>
Fetch == At("ff", "fetch") /\ Fetches(Go("refresh", "look"))
Refreshed ==
  /\ At("refresh", "known")
  /\ CASE job.seen.state = "clean"  -> Ends("up-to-date")
       [] job.seen.state \in {"behind", "missing"} -> Go("refresh", "merge")
       [] OTHER -> Ends("conflict")
  /\ UNCHANGED <<user, url, tracking, remotes, commits, tmp, jobs>>
\* Mutant: a reset.
Resets(b)       == TRUE
\* git merge --ff-only: by now on whatever branch the user is, or on none.
FastForwards(b) == local[b] \subseteq tracking
MergeFastForwardOnly ==
  /\ At("refresh", "merge")
  /\ \/ /\ dest = "repo" /\ FastForwards(head)
        /\ local' = [local EXCEPT ![head] = tracking]
        /\ Ends("updated") \/ Throws      \* it cannot be read what HEAD is now
     \/ /\ dest = "repo" /\ tracking \subseteq local[head]
        /\ Ends("updated")
        /\ UNCHANGED local
     \/ Throws /\ UNCHANGED local
  /\ UNCHANGED <<dest, url, head, tracking, dirty, remotes, commits, tmp, jobs>>

\* reconcileExistingRemote: whatever its remote, a repository is given the
\* configured one and inspected again; the tracking ref stays as the other
\* remote left it.
Reconcile ==
  /\ At("reconcile", "look")
  /\ \/ dest = "repo" /\ Go("reconcile", "set-url")
     \/ dest # "repo" /\ Ends("conflict")
     \/ dest # "none" /\ Throws
  /\ UNCHANGED <<user, url, tracking, remotes, commits, tmp, jobs>>
SetUrl ==
  /\ At("reconcile", "set-url")
  /\ \/ url = "right" /\ Go("ff", "look") /\ UNCHANGED url
     \/ url # "right" /\ Go("reconcile", "confirm") /\ url' = "right"
     \/ Throws /\ url' \in {url, "right"}
  /\ UNCHANGED <<user, tracking, remotes, commits, tmp, jobs>>
\* Still a wrong remote, by the settings of the repository: a conflict.
Confirm ==
  /\ At("reconcile", "confirm")
  /\ Go("ff", "look") \/ Ends("conflict") \/ Throws
  /\ UNCHANGED <<user, url, tracking, remotes, commits, tmp, jobs>>

\* forceUpdate: HEAD and tracking ref must be those of the plan, before and,
\* the tracking ref, after the fetch.
AsExpected(i) == i.rev = job.expected.rev /\ i.remote = job.expected.remote
ForceUpdate ==
  /\ At("force", "known")
  /\ IF job.seen.state \notin {"missing", "no-repo", "wrong-remote"} /\ AsExpected(job.seen)
     THEN IF job.aborted THEN Ends("cancelled") ELSE Go("force", "fetch")
     ELSE Ends("conflict")
  /\ UNCHANGED <<user, url, tracking, remotes, commits, tmp, jobs>>
FetchForce == At("force", "fetch") /\ Fetches(Go("force", "recheck"))
\* Mutant: what the fetch brought is not looked at.
NeverMoved(t) == FALSE
Moved(t) == t # job.expected.remote
Recheck ==
  /\ At("force", "recheck")
  /\ IF Moved(tracking) THEN Ends("conflict") ELSE Go("force", "checkout")
  /\ UNCHANGED <<user, url, tracking, remotes, commits, tmp, jobs>>
\* git checkout --force -B main <the expected revision>; files git does not
\* track are left, so that the working copy may stay dirty.
ForceCheckout ==
  /\ At("force", "checkout")
  /\ \/ /\ dest = "repo"
        /\ local' = [local EXCEPT !["main"] = job.expected.remote]
        /\ head' = "main"
        /\ dirty' \in {FALSE, dirty}
        /\ Ends("forced") \/ Throws
     \/ Throws /\ UNCHANGED <<local, head, dirty>>
  /\ UNCHANGED <<dest, url, tracking, remotes, commits, tmp, jobs>>

-----------------------------------------------------------------------------
\* cloneMissingSource: into a directory beside the destination, verified,
\* renamed to it if nothing has appeared there.
Clone ==
  /\ At("clone", "known")
  /\ IF job.seen.state = "missing" THEN Go("clone", "prepare") ELSE Ends("conflict")
  /\ UNCHANGED <<user, url, tracking, remotes, commits, tmp, jobs>>
PrepareCloneActivation ==
  /\ At("clone", "prepare")
  /\ \/ Throws /\ UNCHANGED tmp
     \/ dest = "none" /\ job.aborted /\ Ends("cancelled") /\ UNCHANGED tmp
     \/ dest = "none" /\ ~job.aborted /\ Go("clone", "clone") /\ tmp' = NoRef
  /\ UNCHANGED <<user, url, tracking, remotes, commits, jobs>>
\* cleanupPath of the temporary directory, and what clone brings into it.
Cleaned == NoRef
Brought == remotes["right"]
CloneRepository ==
  /\ At("clone", "clone")
  /\ \/ tmp' = Brought /\ Go("clone", "verify")
     \/ tmp' = Cleaned /\ Throws
  /\ UNCHANGED <<user, url, tracking, remotes, commits, jobs>>
VerifyClonedRepository ==
  /\ At("clone", "verify")
  /\ \/ Throws /\ tmp' = Cleaned
     \/ job.aborted /\ Ends("cancelled") /\ tmp' = Cleaned
     \/ ~job.aborted /\ dest # "none" /\ Ends("conflict") /\ tmp' = Cleaned
     \/ ~job.aborted /\ dest = "none" /\ Go("clone", "activate") /\ UNCHANGED tmp
  /\ UNCHANGED <<user, url, tracking, remotes, commits, jobs>>
\* rename fails on a directory with files in it; after it the clone is there
\* whatever is answered.
Activate ==
  /\ At("clone", "activate")
  /\ \/ /\ dest = "none"
        /\ dest' = "repo" /\ url' = "right" /\ head' = "main" /\ dirty' = FALSE
        /\ local' = OnBranches(tmp)
        /\ tracking' = tmp
        /\ tmp' = NoRef
        /\ Ends(IF job.aborted THEN "needs-inspection" ELSE "cloned") \/ Throws
     \/ Throws /\ tmp' = Cleaned /\ UNCHANGED <<user, url, tracking>>
  /\ UNCHANGED <<remotes, commits, jobs>>

Sync == \/ Look \/ Count \/ Plan
        \/ FastForward \/ Fetch \/ Refreshed \/ MergeFastForwardOnly
        \/ Reconcile \/ SetUrl \/ Confirm
        \/ ForceUpdate \/ FetchForce \/ Recheck \/ ForceCheckout
        \/ Clone \/ PrepareCloneActivation \/ CloneRepository \/ VerifyClonedRepository \/ Activate

-----------------------------------------------------------------------------
\* The queue aborts the job; the process dies with it.
Abort ==
  /\ job.step \notin {"idle", "ended"} /\ ~job.aborted
  /\ job' = [job EXCEPT !.aborted = TRUE]
  /\ UNCHANGED <<user, url, tracking, remotes, commits, tmp, jobs>>
Crash ==
  /\ job.step \notin {"idle", "ended"}
  /\ Ends("failed")
  /\ UNCHANGED <<user, url, tracking, remotes, commits, tmp, jobs>>

\* External: the user, or another tool, in the working copy.  Commits are made
\* on a branch; a branch may be left for a detached HEAD, where it stands.
Appear ==
  /\ dest = "none"
  /\ dest' = "other"
  /\ UNCHANGED <<url, head, local, tracking, dirty, remotes, commits, tmp, job, jobs>>
Edit ==
  /\ dest = "repo" /\ ~dirty
  /\ dirty' = TRUE
  /\ UNCHANGED <<dest, url, head, local, tracking, remotes, commits, tmp, job, jobs>>
Commit ==
  /\ dest = "repo" /\ dirty /\ head \in Branches
  /\ commits < MaxCommits
  /\ commits' = commits + 1
  /\ local' = [local EXCEPT ![head] = @ \union {commits'}]
  /\ dirty' = FALSE
  /\ UNCHANGED <<dest, url, head, tracking, remotes, tmp, job, jobs>>
Switch ==
  /\ dest = "repo" /\ ~dirty
  /\ \E b \in Heads :
       /\ b # head /\ head' = b
       /\ local' = [local EXCEPT !["HEAD"] = IF b = "HEAD" THEN local[head] ELSE NoRef]
  /\ UNCHANGED <<dest, url, tracking, dirty, remotes, commits, tmp, job, jobs>>
UserFetch ==
  /\ dest = "repo"
  /\ tracking' = remotes[url]
  /\ UNCHANGED <<user, url, remotes, commits, tmp, job, jobs>>
\* External: the colleagues, and a history rewritten by one of them.
RemotePush ==
  /\ commits < MaxCommits
  /\ commits' = commits + 1
  /\ \E u \in Urls, back \in {{}} \union {{c} : c \in Commits \ {0}} :
       remotes' = [remotes EXCEPT ![u] = (@ \ back) \union {commits'}]
  /\ job' = [job EXCEPT !.since = @ \union {remotes'["right"]}]
  /\ UNCHANGED <<user, url, tracking, tmp, jobs>>

Idle == [op |-> "none", step |-> "idle", force |-> FALSE, aborted |-> FALSE, seen |-> Nothing,
         expected |-> Nothing, since |-> {}, outcome |-> "none"]
Init ==
  /\ dest \in {"none", "repo"} /\ url \in Urls
  /\ head = "main" /\ dirty = FALSE
  /\ tracking = IF dest = "repo" THEN {0} ELSE NoRef
  /\ local = OnBranches(tracking)
  /\ remotes = [u \in Urls |-> {0}]
  /\ commits = 0 /\ tmp = NoRef /\ job = Idle /\ jobs = 0

Next == \/ \E force \in BOOLEAN : Begin(force)
        \/ Sync \/ Abort \/ Crash
        \/ Appear \/ Edit \/ Commit \/ Switch \/ UserFetch \/ RemotePush
Spec == Init /\ [][Next]_vars

-----------------------------------------------------------------------------
TypeOK ==
  /\ dest \in {"none", "repo", "other"} /\ url \in Urls /\ head \in Heads
  /\ local \in [Heads -> History] /\ tracking \in History
  /\ dest = "repo" <=> tracking # NoRef
  /\ dirty \in BOOLEAN /\ remotes \in [Urls -> History]
  /\ commits \in Commits /\ tmp \in History
  /\ job \in Job /\ jobs \in 0..MaxJobs

\* Without the confirmation of force no job takes a commit off a branch, or
\* drops an uncommitted change, whatever happens between its commands
\* (executePlannedAction, fastForwardUpdate, reconcileExistingRemote).
LosesNothingUnasked ==
  [][Sync /\ ~job.force
       => (\A b \in Heads : local[b] \subseteq local'[b]) /\ (dirty => dirty')]_vars

\* A forced update leaves the branch where the remote has been since the job
\* started, never at a revision only an older fetch knows (forceUpdate).
ForcedIsCurrent ==
  [][ForceCheckout /\ job'.outcome = "forced" => local'["main"] \in job.since]_vars

\* A source reported as in step has everything its remote had at some time
\* since the job started (fastForwardUpdate, cloneMissingSource).
InStepIsTrue ==
  [][job.outcome = "none" /\ job'.outcome \in {"up-to-date", "updated", "cloned"}
       => \E h \in job.since : h \subseteq UNION {local'[b] : b \in Heads}]_vars

\* Not so: a forced update discards only what the inspection counted, no commit
\* and no change made since.
DiscardsOnlyWhatWasSeen ==
  [][ForceCheckout /\ job'.outcome = "forced"
       => local["main"] \subseteq local'["main"] \union job.expected.rev /\ (dirty => dirty')]_vars
=============================================================================
