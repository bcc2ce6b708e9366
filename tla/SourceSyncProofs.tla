-------------------------- MODULE SourceSyncProofs --------------------------
(***************************************************************************)
(* Proofs about SourceSync, for any bounds: its types, that no job loses   *)
(* work without the confirmation of force, that a forced update leaves     *)
(* the branch where the remote has been during the job, and that a source  *)
(* reported in step had all that its remote had at some time in the job.   *)
(***************************************************************************)
EXTENDS SourceSync, TLAPS

\* There is a branch to lose only in a repository, and the remotes have some
\* history.
PlacesInv ==
  /\ dest # "repo" => ~dirty /\ \A b \in Heads : local[b] = NoRef
  /\ \A u \in Urls : remotes[u] # NoRef
  /\ job.op = "clone" /\ job.step \in {"verify", "activate"} => tmp # NoRef

\* What a job at a step of the forced update has established: the confirmation,
\* the configured remote, and that the revision it goes to is one the remote
\* has had since the job started.
IsRepo(state) == state \notin {"missing", "no-repo", "wrong-remote"}
ForceInv ==
  /\ job.op = "force" => job.force
  /\ job.op # "none" => remotes["right"] \in job.since
  /\ job.step = "count" \/ (job.step = "known" /\ IsRepo(job.seen.state))
       => url = "right" /\ dest = "repo"
  /\ job.step = "fetch" => dest = "repo"
  /\ job.op = "force" /\ job.step \in {"fetch", "recheck", "checkout"} => url = "right"
  /\ job.op = "force" /\ job.step = "recheck" => tracking \in job.since
  /\ job.op = "force" /\ job.step = "checkout" => job.expected.remote \in job.since

IInv == TypeOK /\ PlacesInv /\ ForceInv

\* The histories, of which only these facts are used.
LEMMA Histories ==
  /\ NoRef \in History
  /\ \A h \in History : NoRef \subseteq h /\ (h \subseteq NoRef => h = NoRef)
  /\ {0} \in History /\ {0} # NoRef
BY SourceAssumption DEF SourceAssumption, History, NoRef, Commits
LEMMA Grown ==
  ASSUME NEW h \in History, NEW back, NEW c \in Commits
  PROVE  (h \ back) \union {c} \in History /\ (h \ back) \union {c} # NoRef
<1>1. (h \ back) \union {c} \subseteq Commits
  BY DEF History
<1>2. c \in (h \ back) \union {c}
  OBVIOUS
<1> QED
  BY <1>1, <1>2 DEF History, NoRef

\* The steps a job takes.
LEMMA Moves ==
  ASSUME job \in Job, NEW op \in Ops, NEW step \in Steps, Go(op, step)
  PROVE  /\ job' \in Job /\ job'.op = op /\ job'.step = step /\ job'.force = job.force
         /\ job'.since = job.since /\ job'.seen = job.seen /\ job'.expected = job.expected
         /\ job'.outcome = job.outcome
BY DEF Go, Job
LEMMA Stops ==
  ASSUME job \in Job, NEW o \in Outcomes, Ends(o)
  PROVE  /\ job' \in Job /\ job'.op = job.op /\ job'.step = "ended" /\ job'.force = job.force
         /\ job'.since = job.since /\ job'.outcome = o
<1>1. Nothing \in Inspection
  BY Histories DEF Nothing, Inspection, States
<1> QED
  BY <1>1 DEF Ends, Job, Steps
LEMMA Fails ==
  ASSUME job \in Job, Throws
  PROVE  \E o \in {"cancelled", "failed"} : Ends(o)
BY DEF Throws
LEMMA Sights ==
  ASSUME job \in Job, NEW rev \in History, NEW remote \in History,
         NEW state \in States, Sees(state, rev, remote)
  PROVE  /\ job' \in Job /\ job'.op = job.op /\ job'.step = "known" /\ job'.force = job.force
         /\ job'.since = job.since /\ job'.expected = job.expected
         /\ job'.seen.state = state /\ job'.outcome = job.outcome
BY ZenonT(90) DEF Sees, Job, Steps, Inspection

\* The types and the places, action by action.
LEMMA JobTyped ==
  ASSUME job \in Job
  PROVE  /\ job.op \in Ops /\ job.step \in Steps /\ job.force \in BOOLEAN
         /\ job.seen \in Inspection /\ job.expected \in Inspection
         /\ job.seen.rev \in History /\ job.seen.remote \in History
         /\ job.expected.remote \in History /\ job.since \subseteq History
         /\ job.seen.state \in States
BY DEF Job, Inspection

LEMMA InitIInv == Init => IInv
<1> SUFFICES ASSUME Init PROVE IInv
  OBVIOUS
<1>1. job \in Job /\ job.op = "none" /\ job.step = "idle"
  BY Histories DEF Init, Idle, Nothing, Job, Inspection, States, Ops, Steps, Outcomes
<1>2. TypeOK
  <2>1. 0 \in 0..MaxCommits /\ 0 \in 0..MaxJobs
    BY SourceAssumption DEF SourceAssumption
  <2>2. tracking \in History /\ (dest = "repo" <=> tracking # NoRef)
    BY Histories DEF Init
  <2>3. local \in [Heads -> History] /\ remotes \in [Urls -> History]
    BY <2>2, Histories DEF Init, OnBranches
  <2> QED
    BY <1>1, <2>1, <2>2, <2>3, Histories DEF Init, TypeOK, Heads, Branches, Commits
<1>3. PlacesInv /\ ForceInv
  BY <1>1, Histories DEF Init, PlacesInv, ForceInv, Urls, OnBranches, Heads
<1> QED
  BY <1>2, <1>3 DEF IInv

LEMMA BeginKeeps == ASSUME IInv, NEW force \in BOOLEAN, Begin(force) PROVE IInv'
<1> USE DEF IInv, Begin, user
<1>1. job' \in Job /\ job'.op = "plan" /\ job'.step = "look" /\ job'.since = {remotes["right"]}
  BY Histories DEF TypeOK, Urls, Nothing, Job, Inspection, States, Ops, Steps, Outcomes
<1>2. TypeOK'
  BY <1>1, SourceAssumption DEF TypeOK, SourceAssumption
<1>3. PlacesInv' /\ ForceInv'
  BY <1>1 DEF PlacesInv, ForceInv
<1> QED
  BY <1>2, <1>3

\* What the steps that look, decide or end leave alone keeps its types.
LEMMA JobOnly ==
  ASSUME IInv, job' \in Job, UNCHANGED <<user, url, tracking, remotes, commits, tmp, jobs>>
  PROVE  TypeOK'
BY DEF IInv, TypeOK, user

\* What an inspection may answer without having read how HEAD stands.
LEMMA Unread ==
  ASSUME job \in Job, Unreadable
  PROVE  /\ job' \in Job /\ job'.op = job.op /\ job'.force = job.force /\ job'.since = job.since
         /\ \/ job'.step = "known" /\ ~IsRepo(job'.seen.state) /\ job'.outcome = job.outcome
            \/ job'.step = "ended" /\ job'.outcome \in {"cancelled", "failed"}
<1>1. CASE Throws
  BY <1>1, Fails, Stops DEF Outcomes
<1>2. CASE Sees("wrong-remote", NoRef, NoRef)
  <2>1. NoRef \in History /\ "wrong-remote" \in States
    BY Histories DEF States
  <2> QED
    BY <1>2, <2>1, Sights DEF IsRepo
<1> QED
  BY <1>1, <1>2 DEF Unreadable
LEMMA Finds ==
  ASSUME IInv, Found
  PROVE  /\ job' \in Job /\ job'.op = job.op /\ job'.force = job.force /\ job'.since = job.since
         /\ job'.outcome = job.outcome
         /\ \/ /\ job'.step = "known" /\ job'.seen.state # "clean"
               /\ ~IsRepo(job'.seen.state) \/ (url = "right" /\ dest = "repo")
            \/ job'.step = "count" /\ url = "right" /\ dest = "repo" /\ head # "HEAD"
<1>1. local[head] \in History /\ NoRef \in History /\ job \in Job
  BY Histories DEF IInv, TypeOK
<1>2. CASE dest # "repo" \/ url # "right"
  <2>1. \E state \in {"missing", "no-repo", "wrong-remote"} : Sees(state, NoRef, NoRef)
    BY <1>2 DEF Found, IInv, TypeOK
  <2>2. {"missing", "no-repo", "wrong-remote"} \subseteq States
    BY DEF States
  <2> QED
    BY <1>1, <2>1, <2>2, Sights DEF IsRepo
<1>3. CASE dest = "repo" /\ url = "right" /\ (head = "HEAD" \/ dirty)
  <2>1. \E state \in {"detached", "dirty"} : Sees(state, local[head], NoRef)
    BY <1>3 DEF Found
  <2>2. {"detached", "dirty"} \subseteq States
    BY DEF States
  <2> QED
    BY <1>1, <1>3, <2>1, <2>2, Sights
<1>4. CASE dest = "repo" /\ url = "right" /\ head # "HEAD" /\ ~dirty
  <2>1. job' = [job EXCEPT !.step = "count", !.seen.rev = local[head]]
    BY <1>4 DEF Found
  <2> QED
    BY <1>1, <1>4, <2>1 DEF Job, Inspection, Steps
<1> QED
  BY <1>2, <1>3, <1>4
LEMMA Counts ==
  ASSUME IInv, Sees(Standing(local[head], tracking), job.seen.rev, tracking)
  PROVE  /\ job' \in Job /\ job'.op = job.op /\ job'.force = job.force /\ job'.since = job.since
         /\ job'.step = "known" /\ job'.outcome = job.outcome
         /\ job'.seen.state = Standing(local[head], tracking)
<1>1. Standing(local[head], tracking) \in States
  BY DEF Standing, States
<1>2. job \in Job /\ job.seen.rev \in History /\ tracking \in History
  BY JobTyped DEF IInv, TypeOK
<1> QED
  BY <1>1, <1>2, Sights

LEMMA InspectKeeps == ASSUME IInv, Look \/ Count PROVE IInv'
<1>1. UNCHANGED <<user, url, tracking, remotes, commits, tmp, jobs>> /\ job \in Job
  BY DEF Look, Count, IInv, TypeOK
<1>2. CASE Unreadable
  BY <1>1, <1>2, Unread, JobOnly DEF IInv, PlacesInv, ForceInv, user
<1>3. CASE Found
  BY <1>1, <1>3, Finds, JobOnly DEF IInv, PlacesInv, ForceInv, user
<1>4. CASE job.step = "count" /\ Sees(Standing(local[head], tracking), job.seen.rev, tracking)
  BY <1>1, <1>4, Counts, JobOnly DEF IInv, PlacesInv, ForceInv, user
<1> QED
  BY <1>2, <1>3, <1>4 DEF Look, Count

\* A job that ends, or is aborted, holds nothing it could break.
LEMMA EndKeeps ==
  ASSUME IInv, NEW o \in Outcomes, Ends(o),
         UNCHANGED <<user, url, tracking, remotes, commits, jobs>>,
         tmp' \in History
  PROVE  IInv'
<1>1. /\ job' \in Job /\ job'.step = "ended" /\ job'.op = job.op /\ job'.force = job.force
      /\ job'.since = job.since
  BY Stops DEF IInv, TypeOK
<1> QED
  BY <1>1 DEF IInv, TypeOK, PlacesInv, ForceInv, user
LEMMA GoKeeps ==
  ASSUME IInv, NEW op \in Ops, NEW step \in Steps, Go(op, step), op # "force", job.op # "none",
         op = "clone" => step \in {"look", "prepare", "clone"}, step \notin {"known", "count"},
         step = "fetch" => dest = "repo",
         UNCHANGED <<user, url, tracking, remotes, commits, jobs>>, tmp' \in History
  PROVE  IInv'
<1>1. /\ job' \in Job /\ job'.step = step /\ job'.op = op /\ job'.force = job.force
      /\ job'.since = job.since
  BY Moves DEF IInv, TypeOK
<1> QED
  BY <1>1 DEF IInv, TypeOK, PlacesInv, ForceInv, user

LEMMA Threw ==
  ASSUME IInv, Throws, UNCHANGED <<user, url, tracking, remotes, commits, jobs>>, tmp' \in History
  PROVE  IInv'
<1>1. PICK o \in {"cancelled", "failed"} : Ends(o)
  BY Fails DEF IInv, TypeOK
<1> QED
  BY <1>1, EndKeeps DEF Outcomes

LEMMA DecideKeeps ==
  ASSUME IInv, Plan \/ FastForward \/ Refreshed \/ Reconcile \/ Confirm PROVE IInv'
<1> USE DEF Ops, Steps, Outcomes
<1>0. tmp \in History /\ job.seen \in Inspection
  BY JobTyped DEF IInv, TypeOK
<1>1. CASE Plan
  <2>1. CASE \/ \E o \in {"failed", "awaiting"} : Ends(o)
             \/ \E op \in {"clone", "reconcile", "ff"} : Go(op, "look")
    BY <1>0, <1>1, <2>1, EndKeeps, GoKeeps DEF Plan, At
  <2>2. CASE NeedsForce(job.seen) /\ job.force
             /\ job' = [job EXCEPT !.op = "force", !.step = "look", !.expected = job.seen]
    <3>1. /\ job' \in Job /\ job'.op = "force" /\ job'.step = "look" /\ job'.force
          /\ job'.since = job.since
      BY ZenonT(90), <1>0, <2>2 DEF IInv, TypeOK, Job
    <3> QED
      BY <1>1, <3>1 DEF Plan, At, IInv, TypeOK, PlacesInv, ForceInv, user
  <2> QED
    BY <1>0, <1>1, <2>1, <2>2 DEF Plan, NeedsForce, Inspection, States
<1>2. CASE FastForward
  <2>1. CASE job.seen.state \in {"clean", "behind"}
    <3>1. dest = "repo"
      BY <1>2, <2>1 DEF FastForward, At, IInv, ForceInv, IsRepo
    <3> QED
      BY <1>0, <1>2, <2>1, <3>1, EndKeeps, GoKeeps DEF FastForward, FetchAnyway, At
  <2>2. CASE job.seen.state \notin {"clean", "behind"}
    BY <1>0, <1>2, <2>2, EndKeeps DEF FastForward
  <2> QED
    BY <2>1, <2>2
<1>3. CASE Refreshed
  BY <1>0, <1>3, EndKeeps, GoKeeps DEF Refreshed, At
<1>4. CASE Reconcile
  BY <1>0, <1>4, Threw, EndKeeps, GoKeeps DEF Reconcile, At
<1>5. CASE Confirm
  BY <1>0, <1>5, Threw, EndKeeps, GoKeeps DEF Confirm, At
<1> QED
  BY <1>1, <1>2, <1>3, <1>4, <1>5

LEMMA FetchKeeps == ASSUME IInv, Fetch \/ FetchForce PROVE IInv'
<1> USE DEF Ops, Steps, Outcomes
<1>1. /\ job \in Job /\ tmp \in History /\ url \in Urls
      /\ remotes[url] \in History /\ remotes[url] # NoRef
  BY DEF IInv, TypeOK, PlacesInv
<1>0. /\ UNCHANGED <<user, url, remotes, commits, tmp, jobs>>
      /\ dest = "repo"
  BY DEF Fetch, FetchForce, Fetches, At, IInv, ForceInv
<1>2. CASE Throws /\ UNCHANGED tracking
  BY <1>0, <1>1, <1>2, Fails, EndKeeps
<1>3. CASE /\ tracking \in {NoRef} \/ tracking \subseteq remotes[url]
           /\ tracking' = remotes[url]
           /\ At("ff", "fetch") /\ Go("refresh", "look")
  <2>1. /\ job' \in Job /\ job'.op = "refresh" /\ job'.step = "look" /\ job'.since = job.since
    BY <1>1, <1>3, Moves
  <2> QED
    BY <1>0, <1>1, <1>3, <2>1 DEF IInv, TypeOK, PlacesInv, ForceInv, At, user
<1>4. CASE /\ tracking' = remotes[url]
           /\ At("force", "fetch") /\ Go("force", "recheck")
  <2>1. /\ job' \in Job /\ job'.op = "force" /\ job'.step = "recheck" /\ job'.force = job.force
        /\ job'.since = job.since
    BY <1>1, <1>4, Moves
  <2> QED
    BY <1>0, <1>1, <1>4, <2>1 DEF IInv, TypeOK, PlacesInv, ForceInv, At, user
<1> QED
  BY <1>2, <1>3, <1>4 DEF Fetch, FetchForce, Fetches

LEMMA ForceKeeps == ASSUME IInv, ForceUpdate \/ Recheck \/ ForceCheckout PROVE IInv'
<1> USE DEF Ops, Steps, Outcomes
<1>1. /\ job \in Job /\ tmp \in History
      /\ job.expected.remote \in History
  BY JobTyped DEF IInv, TypeOK
<1>2. CASE \E o \in Outcomes : Ends(o) /\ UNCHANGED <<user, url, tracking, remotes, commits, tmp, jobs>>
  BY <1>1, <1>2, EndKeeps
<1>3. CASE ForceUpdate /\ IsRepo(job.seen.state) /\ Go("force", "fetch")
  <2>1. /\ job' \in Job /\ job'.op = "force" /\ job'.step = "fetch" /\ job'.force = job.force
        /\ job'.since = job.since
    BY <1>1, <1>3, Moves
  <2>2. /\ job.op = "force" /\ job.step = "known"
        /\ UNCHANGED <<user, url, tracking, remotes, commits, tmp, jobs>>
    BY <1>3 DEF ForceUpdate, At
  <2>3. url = "right" /\ dest = "repo" /\ job.force
    BY <1>3, <2>2 DEF IInv, ForceInv
  <2> QED
    BY <2>1, <2>2, <2>3 DEF IInv, TypeOK, PlacesInv, ForceInv, user
<1>4. CASE Recheck /\ ~Moved(tracking)
  <2>1. /\ job' \in Job /\ job'.op = "force" /\ job'.step = "checkout" /\ job'.force = job.force
        /\ job'.since = job.since /\ job'.expected = job.expected
    BY <1>1, <1>4, Moves DEF Recheck
  <2> QED
    BY <1>4, <2>1 DEF Recheck, Moved, At, IInv, TypeOK, PlacesInv, ForceInv, user
<1>5. CASE /\ ForceCheckout /\ dest = "repo"
           /\ local' = [local EXCEPT !["main"] = job.expected.remote]
           /\ head' = "main" /\ dirty' \in {FALSE, dirty}
  <2>1. \E o \in Outcomes : Ends(o)
    BY <1>1, <1>5, Fails DEF ForceCheckout
  <2>2. /\ job' \in Job /\ job'.op = job.op /\ job'.step = "ended" /\ job'.force = job.force
        /\ job'.since = job.since
    BY <1>1, <2>1, Stops
  <2> QED
    BY <1>1, <1>5, <2>2 DEF ForceCheckout, IInv, TypeOK, PlacesInv, ForceInv, Heads, Branches
<1> QED
  <2>1. CASE ForceUpdate
    <3>1. UNCHANGED <<user, url, tracking, remotes, commits, tmp, jobs>>
      BY <2>1 DEF ForceUpdate
    <3>2. \/ \E o \in Outcomes : Ends(o)
          \/ IsRepo(job.seen.state) /\ Go("force", "fetch")
      BY <2>1 DEF ForceUpdate, IsRepo
    <3> QED
      BY <1>2, <1>3, <2>1, <3>1, <3>2
  <2>2. CASE Recheck
    BY <1>2, <1>4, <2>2 DEF Recheck
  <2>3. CASE ForceCheckout
    <3>1. ASSUME Throws, UNCHANGED <<local, head, dirty>> PROVE IInv'
      BY <1>1, <1>2, <2>3, <3>1, Fails DEF ForceCheckout, user
    <3> QED
      BY <1>5, <2>3, <3>1 DEF ForceCheckout
  <2> QED
    BY <2>1, <2>2, <2>3

LEMMA MergeKeeps == ASSUME IInv, MergeFastForwardOnly \/ SetUrl PROVE IInv'
<1> USE DEF Ops, Steps, Outcomes
<1>1. job \in Job /\ tmp \in History
  BY DEF IInv, TypeOK
<1>2. CASE MergeFastForwardOnly
  <2>1. \E o \in Outcomes : Ends(o)
    BY <1>1, <1>2, Fails DEF MergeFastForwardOnly
  <2>2. /\ job' \in Job /\ job'.op = job.op /\ job'.step = "ended" /\ job'.force = job.force
        /\ job'.since = job.since
    BY <1>1, <2>1, Stops
  <2>3. /\ UNCHANGED <<dest, url, head, tracking, dirty, remotes, commits, tmp, jobs>>
        /\ local' = local \/ (dest = "repo" /\ local' = [local EXCEPT ![head] = tracking])
    BY <1>2 DEF MergeFastForwardOnly
  <2> QED
    BY <2>2, <2>3 DEF IInv, TypeOK, PlacesInv, ForceInv
<1>3. CASE SetUrl
  <2>1. job.op = "reconcile" /\ url' \in {url, "right"}
        /\ UNCHANGED <<user, tracking, remotes, commits, tmp, jobs>>
    BY <1>3 DEF SetUrl, At
  <2>2. /\ job' \in Job /\ job'.step \in {"look", "confirm", "ended"}
        /\ job'.op \in {"ff", "reconcile"} /\ job'.force = job.force /\ job'.since = job.since
    <3>1. CASE Throws
      BY <1>1, <2>1, <3>1, Fails, Stops
    <3>2. CASE Go("ff", "look") \/ Go("reconcile", "confirm")
      BY <1>1, <3>2, Moves
    <3> QED
      BY <1>3, <3>1, <3>2 DEF SetUrl
  <2> QED
    BY <2>1, <2>2 DEF IInv, TypeOK, PlacesInv, ForceInv, Urls, user
<1> QED
  BY <1>2, <1>3

LEMMA CloneKeeps ==
  ASSUME IInv, Clone \/ PrepareCloneActivation \/ CloneRepository \/ VerifyClonedRepository
  PROVE  IInv'
<1> USE DEF Ops, Steps, Outcomes
<1>1. /\ job \in Job /\ tmp \in History /\ Cleaned \in History
      /\ NoRef \in History /\ remotes["right"] \in History /\ remotes["right"] # NoRef
  BY Histories DEF IInv, TypeOK, PlacesInv, Cleaned, Urls
<1>2. CASE /\ \E o \in Outcomes : Ends(o)
           /\ tmp' \in {tmp, Cleaned}
           /\ UNCHANGED <<user, url, tracking, remotes, commits, jobs>>
  BY <1>1, <1>2, EndKeeps
<1>3. CASE Clone
  BY <1>1, <1>3, EndKeeps, GoKeeps DEF Clone, At
<1>4. CASE PrepareCloneActivation
  <2>1. CASE Go("clone", "clone") /\ tmp' = NoRef
    BY <1>1, <1>4, <2>1, GoKeeps DEF PrepareCloneActivation, At
  <2> QED
    BY <1>1, <1>2, <1>4, <2>1, Fails DEF PrepareCloneActivation
<1>5. CASE CloneRepository
  <2>1. CASE tmp' = Brought /\ Go("clone", "verify")
    <3>1. /\ job.op = "clone" /\ tmp' = remotes["right"]
          /\ UNCHANGED <<user, url, tracking, remotes, commits, jobs>>
      BY <1>5, <2>1 DEF CloneRepository, At, Brought
    <3>2. /\ job' \in Job /\ job'.op = "clone" /\ job'.step = "verify" /\ job'.force = job.force
          /\ job'.since = job.since
      BY <1>1, <2>1, Moves
    <3> QED
      BY <1>1, <3>1, <3>2 DEF IInv, TypeOK, PlacesInv, ForceInv, user
  <2> QED
    BY <1>1, <1>2, <1>5, <2>1, Fails DEF CloneRepository
<1>6. CASE VerifyClonedRepository
  <2>1. CASE Go("clone", "activate") /\ UNCHANGED tmp
    <3>1. /\ job.op = "clone" /\ job.step = "verify"
          /\ UNCHANGED <<user, url, tracking, remotes, commits, jobs>>
      BY <1>6 DEF VerifyClonedRepository, At
    <3>2. /\ job' \in Job /\ job'.op = "clone" /\ job'.step = "activate" /\ job'.force = job.force
          /\ job'.since = job.since
      BY <1>1, <2>1, Moves
    <3> QED
      BY <1>1, <2>1, <3>1, <3>2 DEF IInv, TypeOK, PlacesInv, ForceInv, user
  <2> QED
    BY <1>1, <1>2, <1>6, <2>1, Fails DEF VerifyClonedRepository
<1> QED
  BY <1>3, <1>4, <1>5, <1>6

LEMMA ActivateKeeps == ASSUME IInv, Activate PROVE IInv'
<1> USE DEF Ops, Steps, Outcomes
<1>1. /\ job \in Job /\ tmp \in History /\ NoRef \in History
      /\ job.op = "clone" /\ job.step = "activate" /\ tmp # NoRef
  BY Histories DEF IInv, TypeOK, PlacesInv, Activate, At
<1>2. CASE Throws /\ tmp' = Cleaned /\ UNCHANGED <<user, url, tracking>>
  BY <1>1, <1>2, Threw DEF Activate, Cleaned
<1>3. CASE /\ dest' = "repo" /\ url' = "right" /\ head' = "main" /\ dirty' = FALSE
           /\ local' = OnBranches(tmp) /\ tracking' = tmp /\ tmp' = NoRef
           /\ Ends(IF job.aborted THEN "needs-inspection" ELSE "cloned") \/ Throws
  <2>1. /\ dest' = "repo" /\ url' = "right" /\ head' = "main" /\ dirty' = FALSE
        /\ local' \in [Heads -> History] /\ tracking' = tmp /\ tmp' = NoRef
        /\ UNCHANGED <<remotes, commits, jobs>>
        /\ \E o \in Outcomes : Ends(o)
    BY <1>1, <1>3, Fails DEF Activate, OnBranches
  <2>2. /\ job' \in Job /\ job'.op = "clone" /\ job'.step = "ended" /\ job'.since = job.since
    BY <1>1, <2>1, Stops
  <2> QED
    BY <1>1, <2>1, <2>2 DEF IInv, TypeOK, PlacesInv, ForceInv, Urls, Heads, Branches
<1> QED
  BY <1>2, <1>3 DEF Activate

LEMMA OthersKeep ==
  ASSUME IInv, Abort \/ Crash \/ Appear \/ Edit \/ Commit \/ Switch \/ UserFetch \/ RemotePush
  PROVE  IInv'
<1> USE DEF IInv, TypeOK, PlacesInv, ForceInv
<1>1. CASE Abort
  <2>1. /\ job' \in Job /\ job'.op = job.op /\ job'.step = job.step /\ job'.force = job.force
        /\ job'.since = job.since /\ job'.seen = job.seen /\ job'.expected = job.expected
    BY <1>1 DEF Abort, Job
  <2> QED
    BY <1>1, <2>1 DEF Abort, user
<1>2. CASE Crash
  <2>1. /\ Ends("failed")
        /\ UNCHANGED <<user, url, tracking, remotes, commits, tmp, jobs>>
    BY <1>2 DEF Crash
  <2> QED
    BY <2>1, EndKeeps DEF Outcomes
<1>3. CASE Appear \/ Edit \/ Switch \/ UserFetch
  <2>1. CASE Appear
    BY <2>1 DEF Appear
  <2>2. CASE Edit
    BY <2>2 DEF Edit
  <2>3. CASE Switch
    <3>1. NoRef \in History /\ local[head] \in History /\ "HEAD" \in Heads
      BY Histories DEF Heads
    <3> QED
      BY <2>3, <3>1 DEF Switch
  <2>4. CASE UserFetch
    <3>1. remotes[url] \in History /\ remotes[url] # NoRef
      OBVIOUS
    <3> QED
      BY <2>4, <3>1 DEF UserFetch, user
  <2> QED
    BY <1>3, <2>1, <2>2, <2>3, <2>4
<1>4. CASE Commit
  <2>1. commits' \in Commits
    BY <1>4, SourceAssumption DEF Commit, Commits, SourceAssumption
  <2>2. local[head] \union {commits'} \in History
    BY <2>1 DEF History
  <2> QED
    BY <1>4, <2>1, <2>2 DEF Commit, Heads
<1>5. CASE RemotePush
  <2>1. commits' \in Commits
    BY <1>5, SourceAssumption DEF RemotePush, Commits, SourceAssumption
  <2>2. PICK u \in Urls, back \in {{}} \union {{c} : c \in Commits \ {0}} :
          remotes' = [remotes EXCEPT ![u] = (@ \ back) \union {commits'}]
    BY <1>5 DEF RemotePush
  <2>3. (remotes[u] \ back) \union {commits'} \in History /\ (remotes[u] \ back) \union {commits'} # NoRef
    <3>1. remotes[u] \in History
      BY <2>2
    <3> QED
      BY <2>1, <3>1, Grown
  <2>4. remotes' \in [Urls -> History] /\ \A v \in Urls : remotes'[v] # NoRef
    BY <2>2, <2>3
  <2>5. /\ job' \in Job /\ job'.op = job.op /\ job'.step = job.step /\ job'.force = job.force
        /\ job'.seen = job.seen /\ job'.expected = job.expected
        /\ job'.since = job.since \union {remotes'["right"]}
    <3>1. job' = [job EXCEPT !.since = @ \union {remotes'["right"]}]
      BY <1>5 DEF RemotePush
    <3>2. remotes'["right"] \in History
      BY <2>4 DEF Urls
    <3> QED
      BY <3>1, <3>2 DEF Job
  <2> QED
    BY <1>5, <2>1, <2>4, <2>5 DEF RemotePush, user
<1> QED
  BY <1>1, <1>2, <1>3, <1>4, <1>5

LEMMA NextIInv == IInv /\ [Next]_vars => IInv'
<1> SUFFICES ASSUME IInv, [Next]_vars PROVE IInv'
  OBVIOUS
<1>1. CASE UNCHANGED vars
  BY <1>1 DEF vars, IInv, TypeOK, PlacesInv, ForceInv, user
<1> QED
  BY <1>1, BeginKeeps, InspectKeeps, DecideKeeps, FetchKeeps, MergeKeeps, ForceKeeps, CloneKeeps,
     ActivateKeeps, OthersKeep DEF Next, Sync

LEMMA Invariance == Spec => []IInv
<1> QED
  BY InitIInv, NextIInv, PTL DEF Spec

\* Every variable stays within its type, and the tracking ref exists exactly
\* in a repository.
THEOREM TypeCorrect == Spec => []TypeOK
<1>1. IInv => TypeOK
  BY DEF IInv
<1> QED
  BY <1>1, Invariance, PTL

\* A job without the confirmation of force takes no commit off a branch and
\* drops no uncommitted change, at any interleaving with the user's work.
THEOREM NothingLost == Spec => LosesNothingUnasked
<1>1. ASSUME IInv, Sync, ~job.force
      PROVE  (\A b \in Heads : local[b] \subseteq local'[b]) /\ (dirty => dirty')
  <2>1. CASE UNCHANGED <<local, dirty>>
    BY <2>1
  <2>2. CASE MergeFastForwardOnly
    <3>1. local \in [Heads -> History] /\ head \in Heads
      BY <1>1 DEF IInv, TypeOK
    <3>2. UNCHANGED dirty /\ (local' = local \/ (/\ local[head] \subseteq tracking
                                                  /\ local' = [local EXCEPT ![head] = tracking]))
      BY <2>2 DEF MergeFastForwardOnly, FastForwards
    <3> QED
      BY <3>1, <3>2
  <2>3. CASE Activate
    <3>1. CASE UNCHANGED user
      BY <2>1, <3>1 DEF user
    <3>2. CASE dest = "none" /\ local' = OnBranches(tmp)
      <4>1. ~dirty /\ tmp \in History /\ \A b \in Heads : local[b] = NoRef
        BY <1>1, <3>2 DEF IInv, TypeOK, PlacesInv
      <4>2. local' \in [Heads -> History]
        BY <3>2, <4>1, Histories DEF OnBranches
      <4> QED
        BY <4>1, <4>2, Histories
    <3> QED
      BY <2>3, <3>1, <3>2 DEF Activate
  <2>4. CASE ForceCheckout
    BY <1>1, <2>4 DEF ForceCheckout, At, IInv, ForceInv
  <2> QED
    BY <1>1, <2>1, <2>2, <2>3, <2>4
       DEF Sync, user, Look, Count, Plan, FastForward, Fetch, FetchForce, Fetches, Refreshed,
           Reconcile, SetUrl, Confirm, ForceUpdate, Recheck, Clone, PrepareCloneActivation,
           CloneRepository, VerifyClonedRepository
<1>2. IInv /\ [Next]_vars
        => [Sync /\ ~job.force
              => (\A b \in Heads : local[b] \subseteq local'[b]) /\ (dirty => dirty')]_vars
  BY <1>1
<1> QED
  BY <1>2, Invariance, PTL DEF Spec, LosesNothingUnasked

\* A forced update leaves the branch at a revision the remote has had since
\* the job started.
THEOREM ForcedWhereTheRemoteWas == Spec => ForcedIsCurrent
<1>1. ASSUME IInv, ForceCheckout, job'.outcome = "forced"
      PROVE  local'["main"] \in job.since
  <2>1. job.expected.remote \in job.since
    BY <1>1 DEF ForceCheckout, At, IInv, ForceInv
  <2>2. local' = [local EXCEPT !["main"] = job.expected.remote]
    <3>1. ~Throws
      BY <1>1, Fails, Stops DEF IInv, TypeOK, Outcomes
    <3> QED
      BY <1>1, <3>1 DEF ForceCheckout
  <2> QED
    <3>1. local \in [Heads -> History] /\ "main" \in Heads
      BY <1>1 DEF IInv, TypeOK, Heads, Branches
    <3> QED
      BY <2>1, <2>2, <3>1
<1>2. IInv /\ [Next]_vars
        => [ForceCheckout /\ job'.outcome = "forced" => local'["main"] \in job.since]_vars
  BY <1>1
<1> QED
  BY <1>2, Invariance, PTL DEF Spec, ForcedIsCurrent

-----------------------------------------------------------------------------
\* What a job that will report the source as in step has established: the
\* branch is compared with what this job has fetched, or the user since, and a
\* HEAD that has been detached meanwhile is where a branch is.
InStep == \E h \in job.since : h \subseteq UNION {local[b] : b \in Branches}
StepInv ==
  /\ At("ff", "fetch") => url = "right"
  /\ job.op = "refresh" => url = "right" /\ tracking \in job.since
  /\ At("refresh", "known") /\ job.seen.state = "clean" => InStep
  /\ job.step = "count" => \E b \in Branches : local[head] \subseteq local[b]
  /\ job.op = "clone" /\ job.step \in {"verify", "activate"} => tmp \in job.since

\* A step that only takes the job on, or ends it, within its operation or to
\* another than refresh.
LEMMA JobStep ==
  ASSUME IInv, StepInv, UNCHANGED <<url, tracking, local>>, job'.since = job.since,
         job'.op = "refresh" => job.op = "refresh",
         At("ff", "fetch")' => url = "right",
         ~At("refresh", "known")', job'.step # "count",
         job'.op # "clone" \/ job'.step \notin {"verify", "activate"}
  PROVE  StepInv'
BY DEF StepInv

LEMMA EndStep ==
  ASSUME IInv, StepInv, UNCHANGED <<url, tracking, local>>, NEW o \in Outcomes, Ends(o)
  PROVE  StepInv'
<1>1. job'.op = job.op /\ job'.step = "ended" /\ job'.since = job.since
  BY Stops DEF IInv, TypeOK
<1> QED BY <1>1, JobStep DEF At

LEMMA ThrewStep == ASSUME IInv, StepInv, UNCHANGED <<url, tracking, local>>, Throws PROVE StepInv'
<1>1. PICK o \in {"cancelled", "failed"} : Ends(o)
  BY Fails DEF IInv, TypeOK
<1> QED BY <1>1, EndStep DEF Outcomes

LEMMA GoStep ==
  ASSUME IInv, StepInv, UNCHANGED <<url, tracking, local>>,
         NEW op \in Ops, NEW step \in Steps, Go(op, step),
         op = "refresh" => job.op = "refresh",
         op = "ff" /\ step = "fetch" => url = "right",
         step \notin {"known", "count"}, op # "clone" \/ step \notin {"verify", "activate"}
  PROVE  StepInv'
<1>1. job'.op = op /\ job'.step = step /\ job'.since = job.since
  BY Moves DEF IInv, TypeOK
<1> QED BY <1>1, JobStep DEF At

LEMMA LookStep == ASSUME IInv, StepInv, Look \/ Count PROVE StepInv'
<1>1. UNCHANGED <<user, url, tracking>> /\ job \in Job
  BY DEF Look, Count, IInv, TypeOK
<1>2. CASE Unreadable
  <2>1. ~At("refresh", "known")' \/ job'.seen.state # "clean"
    BY <1>1, <1>2, Unread DEF At, IsRepo
  <2> QED BY <1>1, <1>2, <2>1, Unread DEF StepInv, At, user
<1>3. CASE Found
  <2>1. job'.step = "count" => \E b \in Branches : local[head] \subseteq local[b]
    BY <1>3, Finds DEF IInv, TypeOK, Heads
  <2> QED BY <1>1, <1>3, <2>1, Finds DEF StepInv, At, user
<1>4. CASE job.step = "count" /\ Sees(Standing(local[head], tracking), job.seen.rev, tracking)
  <2>1. /\ job'.op = job.op /\ job'.step = "known" /\ job'.since = job.since
        /\ job'.seen.state = Standing(local[head], tracking)
    BY <1>4, Counts
  <2>2. tracking # NoRef
    BY <1>4 DEF IInv, TypeOK, ForceInv
  <2>3. job'.seen.state = "clean" => local[head] = tracking
    BY <2>1, <2>2 DEF Standing
  <2>4. PICK b \in Branches : local[head] \subseteq local[b]
    BY <1>4 DEF StepInv
  <2>5. local[b] \subseteq UNION {local[c] : c \in Branches}
    OBVIOUS
  <2>6. job.op = "refresh" /\ job'.seen.state = "clean" => InStep'
    <3>1. SUFFICES ASSUME job.op = "refresh", job'.seen.state = "clean" PROVE InStep'
      OBVIOUS
    <3>2. tracking \in job.since /\ tracking \subseteq UNION {local[c] : c \in Branches}
      BY <2>3, <2>4, <2>5, <3>1 DEF StepInv
    <3>3. job'.since = job.since /\ local' = local
      BY <1>1, <2>1 DEF user
    <3> QED BY <3>2, <3>3 DEF InStep
  <2> QED BY <1>1, <2>1, <2>6 DEF StepInv, At, user
<1> QED BY <1>2, <1>3, <1>4 DEF Look, Count

LEMMA DecideStep ==
  ASSUME IInv, StepInv, Plan \/ FastForward \/ Refreshed \/ Reconcile \/ SetUrl \/ Confirm
  PROVE  StepInv'
<1> USE DEF Ops, Steps, Outcomes
<1>1. CASE Plan
  <2>1. UNCHANGED <<url, tracking, local>> /\ job.op = "plan" /\ job \in Job
    BY <1>1 DEF Plan, At, user, IInv, TypeOK
  <2>2. CASE \/ \E o \in {"failed", "awaiting"} : Ends(o)
             \/ \E op \in {"clone", "reconcile", "ff"} : Go(op, "look")
    BY <2>1, <2>2, EndStep, GoStep
  <2>3. CASE job' = [job EXCEPT !.op = "force", !.step = "look", !.expected = job.seen]
    <3>1. job'.op = "force" /\ job'.step = "look" /\ job'.since = job.since
      BY <2>1, <2>3 DEF Job
    <3> QED BY <2>1, <3>1, JobStep DEF At
  <2>4. job.seen.state \in States
    BY <2>1, JobTyped
  <2> QED BY <1>1, <2>2, <2>3, <2>4 DEF Plan, NeedsForce, States
<1>2. CASE FastForward
  <2>1. UNCHANGED <<url, tracking, local>> /\ job.op = "ff" /\ job.step = "known"
    BY <1>2 DEF FastForward, At, user
  <2>2. job.seen.state \in {"clean", "behind"} => url = "right"
    BY <2>1 DEF IInv, ForceInv, IsRepo
  <2> QED BY <1>2, <2>1, <2>2, EndStep, GoStep DEF FastForward, FetchAnyway
<1>3. CASE Refreshed
  BY <1>3, EndStep, GoStep DEF Refreshed, At, user
<1>4. CASE Reconcile
  BY <1>4, ThrewStep, EndStep, GoStep DEF Reconcile, At, user
<1>5. CASE SetUrl
  <2>1. /\ job'.op \in {"ff", "reconcile"} /\ job'.step \in {"look", "confirm", "ended"}
    <3>1. CASE Throws
      BY <1>5, <3>1, Fails, Stops DEF SetUrl, At, IInv, TypeOK
    <3>2. CASE Go("ff", "look") \/ Go("reconcile", "confirm")
      BY <3>2, Moves DEF IInv, TypeOK
    <3> QED BY <1>5, <3>1, <3>2 DEF SetUrl
  <2> QED BY <2>1 DEF StepInv, At
<1>6. CASE Confirm
  BY <1>6, ThrewStep, EndStep, GoStep DEF Confirm, At, user
<1> QED BY <1>1, <1>2, <1>3, <1>4, <1>5, <1>6

LEMMA FetchStep == ASSUME IInv, StepInv, Fetch \/ FetchForce PROVE StepInv'
<1> USE DEF Ops, Steps, Outcomes
<1>0. UNCHANGED <<url, local, remotes>> /\ job \in Job /\ job.op # "refresh"
  BY DEF Fetch, FetchForce, Fetches, At, user, IInv, TypeOK
<1>1. CASE Throws /\ UNCHANGED tracking
  BY <1>0, <1>1, Fails, EndStep
<1>2. CASE At("ff", "fetch") /\ Go("refresh", "look") /\ tracking' = remotes[url]
  <2>1. job'.op = "refresh" /\ job'.step = "look" /\ job'.since = job.since
    BY <1>0, <1>2, Moves
  <2>2. url = "right" /\ remotes["right"] \in job.since
    BY <1>2 DEF At, StepInv, IInv, ForceInv
  <2> QED BY <1>0, <1>2, <2>1, <2>2 DEF StepInv, At
<1>3. CASE At("force", "fetch") /\ Go("force", "recheck")
  <2>1. job'.op = "force" /\ job'.step = "recheck"
    BY <1>0, <1>3, Moves
  <2> QED BY <2>1 DEF StepInv, At
<1> QED BY <1>1, <1>2, <1>3 DEF Fetch, FetchForce, Fetches

LEMMA ForceStep ==
  ASSUME IInv, StepInv, ForceUpdate \/ Recheck \/ ForceCheckout \/ MergeFastForwardOnly PROVE StepInv'
<1> USE DEF Ops, Steps, Outcomes
<1>0. job \in Job
  BY DEF IInv, TypeOK
<1>1. CASE ForceUpdate \/ Recheck
  BY <1>1, EndStep, GoStep DEF ForceUpdate, Recheck, user
<1>2. CASE ForceCheckout \/ MergeFastForwardOnly
  <2>1. /\ UNCHANGED <<url, tracking>>
        /\ \E o \in Outcomes : Ends(o)
    BY <1>0, <1>2, Fails DEF ForceCheckout, MergeFastForwardOnly
  <2>2. job'.op = job.op /\ job'.step = "ended" /\ job'.since = job.since
    BY <1>0, <2>1, Stops
  <2> QED BY <2>1, <2>2 DEF StepInv, At
<1> QED BY <1>1, <1>2

LEMMA CloneStep ==
  ASSUME IInv, StepInv,
         \/ Clone \/ PrepareCloneActivation \/ CloneRepository \/ VerifyClonedRepository \/ Activate
  PROVE  StepInv'
<1> USE DEF Ops, Steps, Outcomes
<1>1. job \in Job /\ job.op = "clone" /\ remotes["right"] \in job.since
  BY DEF Clone, PrepareCloneActivation, CloneRepository, VerifyClonedRepository, Activate, At,
         IInv, TypeOK, ForceInv
<1>2. CASE \E o \in Outcomes : Ends(o)
  <2>1. job'.op = "clone" /\ job'.step = "ended"
    BY <1>1, <1>2, Stops
  <2> QED BY <2>1 DEF StepInv, At
<1>3. CASE \E step \in {"prepare", "clone"} : Go("clone", step)
  <2>1. job'.op = "clone" /\ job'.step \in {"prepare", "clone"}
    BY <1>1, <1>3, Moves
  <2> QED BY <2>1 DEF StepInv, At
<1>4. CASE Go("clone", "verify") /\ tmp' = Brought
  <2>1. job'.op = "clone" /\ job'.step = "verify" /\ job'.since = job.since
    BY <1>1, <1>4, Moves
  <2> QED BY <1>1, <1>4, <2>1 DEF StepInv, At, Brought
<1>5. CASE At("clone", "verify") /\ Go("clone", "activate") /\ UNCHANGED tmp
  <2>1. job'.op = "clone" /\ job'.step = "activate" /\ job'.since = job.since
    BY <1>1, <1>5, Moves
  <2> QED BY <1>1, <1>5, <2>1 DEF StepInv, At
<1> QED BY <1>1, <1>2, <1>3, <1>4, <1>5, Fails
        DEF Clone, PrepareCloneActivation, CloneRepository, VerifyClonedRepository, Activate

\* Work goes on in the working copy and at the remote: the branches and what
\* the remote has been only grow.
LEMMA OthersStep ==
  ASSUME IInv, StepInv, Abort \/ Crash \/ Appear \/ Edit \/ Commit \/ Switch \/ UserFetch \/ RemotePush
  PROVE  StepInv'
<1>0. job \in Job /\ local \in [Heads -> History] /\ head \in Heads /\ Heads = Branches \union {"HEAD"}
      /\ "HEAD" \notin Branches
  BY DEF IInv, TypeOK, Heads, Branches
<1>1. CASE Abort
  <2>1. /\ job'.op = job.op /\ job'.step = job.step /\ job'.since = job.since /\ job'.seen = job.seen
        /\ UNCHANGED <<user, url, tracking, tmp>>
    BY <1>0, <1>1 DEF Abort, Job
  <2> QED BY <2>1 DEF StepInv, At, InStep, user
<1>2. CASE Crash
  BY <1>2, EndStep DEF Crash, user, Outcomes
<1>3. CASE Appear \/ Edit
  <2>1. UNCHANGED <<url, tracking, tmp, head, local, job>>
    BY <1>3 DEF Appear, Edit
  <2> QED BY <2>1 DEF StepInv, At, InStep
<1>7. CASE Switch
  <2>1. PICK b \in Heads : /\ head' = b
                           /\ local' = [local EXCEPT !["HEAD"] = IF b = "HEAD" THEN local[head] ELSE NoRef]
    BY <1>7 DEF Switch
  <2>2. \A c \in Branches : local'[c] = local[c]
    BY <1>0, <2>1
  <2>3. UNCHANGED <<url, tracking, tmp, job>>
    BY <1>7 DEF Switch
  <2>4. InStep => InStep'
    BY <2>2, <2>3 DEF InStep
  <2>5. job.step = "count" => \E c \in Branches : local'[head'] \subseteq local'[c]
    <3>1. CASE b = "HEAD"
      BY <1>0, <2>1, <2>2, <3>1 DEF StepInv
    <3>2. CASE b # "HEAD"
      BY <1>0, <2>1, <3>2
    <3> QED BY <3>1, <3>2
  <2> QED BY <2>3, <2>4, <2>5 DEF StepInv, At
<1>4. CASE Commit
  <2>1. UNCHANGED <<url, tracking, tmp, head, job>> /\ \A b \in Branches : local[b] \subseteq local'[b]
    BY <1>0, <1>4 DEF Commit
  <2>2. InStep => InStep'
    BY <2>1 DEF InStep
  <2>3. head' \in Branches
    BY <1>4, <2>1 DEF Commit
  <2> QED BY <2>1, <2>2, <2>3 DEF StepInv, At
<1>5. CASE UserFetch
  <2>1. UNCHANGED <<url, tmp, head, local, job>> /\ tracking' = remotes[url]
    BY <1>5 DEF UserFetch, user
  <2>2. job.op = "refresh" => remotes["right"] \in job.since
    BY DEF IInv, ForceInv
  <2>3. InStep => InStep'
    BY <2>1 DEF InStep
  <2> QED BY <2>1, <2>2, <2>3 DEF StepInv, At
<1>6. CASE RemotePush
  <2>1. /\ job'.op = job.op /\ job'.step = job.step /\ job.since \subseteq job'.since
        /\ job'.seen = job.seen
    <3>1. job' = [job EXCEPT !.since = @ \union {remotes'["right"]}]
      BY <1>6 DEF RemotePush
    <3> QED BY <1>0, <3>1 DEF Job
  <2>2. UNCHANGED <<url, tracking, tmp, head, local>>
    BY <1>6 DEF RemotePush, user
  <2>3. InStep => InStep'
    BY <2>1, <2>2 DEF InStep
  <2> QED BY <2>1, <2>2, <2>3 DEF StepInv, At
<1> QED BY <1>1, <1>2, <1>3, <1>4, <1>5, <1>6, <1>7

LEMMA NextStepInv == IInv /\ StepInv /\ [Next]_vars => StepInv'
<1> SUFFICES ASSUME IInv, StepInv, [Next]_vars PROVE StepInv'
  OBVIOUS
<1>1. CASE \E force \in BOOLEAN : Begin(force)
  <2>1. job'.op = "plan" /\ job'.step = "look"
    BY <1>1 DEF Begin
  <2> QED BY <2>1 DEF StepInv, At
<1>2. CASE UNCHANGED vars
  BY <1>2 DEF vars, StepInv, At, InStep
<1> QED
  BY <1>1, <1>2, LookStep, DecideStep, FetchStep, ForceStep, CloneStep, OthersStep DEF Next, Sync

\* A source reported as up to date, updated or cloned has all that its remote
\* had at some time since the job started, however long the inspection and the
\* fetch are ago and whatever was committed, switched or fetched in between.
THEOREM InStepWithTheRemote == Spec => InStepIsTrue
<1>1. Init => StepInv
  BY DEF Init, Idle, StepInv, At
<1>2. ASSUME IInv, StepInv, [Next]_vars, job.outcome = "none",
             job'.outcome \in {"up-to-date", "updated", "cloned"}
      PROVE  \E h \in job.since : h \subseteq UNION {local'[b] : b \in Heads}
  <2>0. job \in Job /\ local \in [Heads -> History] /\ head \in Heads
        /\ job.step \in Steps /\ job.seen \in Inspection
    BY <1>2, JobTyped DEF IInv, TypeOK
  <2>1. ASSUME Throws PROVE FALSE
    BY <1>2, <2>0, <2>1, Fails, Stops DEF Outcomes
  <2>2. ASSUME NEW op \in Ops, NEW step \in Steps, Go(op, step) PROVE FALSE
    BY <1>2, <2>0, <2>2, Moves
  <2>3. ASSUME NEW o \in Outcomes, Ends(o) PROVE job'.outcome = o
    BY <2>0, <2>3, Stops
  <2>4. CASE Refreshed
    <3>1. job.seen.state = "clean"
      BY <1>2, <2>2, <2>3, <2>4 DEF Refreshed, Ops, Steps, Outcomes
    <3>2. PICK h \in job.since : h \subseteq UNION {local[b] : b \in Branches}
      BY <1>2, <2>4, <3>1 DEF Refreshed, At, StepInv, InStep
    <3>3. local' = local /\ Branches \subseteq Heads
      BY <2>4 DEF Refreshed, user, Heads
    <3> QED BY <3>2, <3>3
  <2>5. CASE MergeFastForwardOnly
    <3>1. tracking \in job.since
      BY <1>2, <2>5 DEF MergeFastForwardOnly, At, StepInv
    <3>2. tracking \subseteq local'[head]
      BY <2>0, <2>1, <2>5 DEF MergeFastForwardOnly
    <3> QED BY <2>0, <3>1, <3>2
  <2>6. CASE Activate
    <3>1. tmp \in job.since
      BY <1>2, <2>6 DEF Activate, At, StepInv
    <3>2. local' = OnBranches(tmp) /\ "main" \in Heads /\ "main" \in Branches
      BY <2>1, <2>6 DEF Activate, Heads, Branches
    <3>3. local'["main"] = tmp
      BY <3>2 DEF OnBranches
    <3> QED BY <3>1, <3>2, <3>3
  <2>7. CASE Plan \/ FastForward \/ Reconcile \/ SetUrl \/ Confirm \/ ForceUpdate \/ Recheck \/ Clone
             \/ PrepareCloneActivation \/ CloneRepository \/ VerifyClonedRepository
    <3>1. CASE Plan
      <4>1. ~\E o \in {"failed", "awaiting"} : Ends(o)
        BY <1>2, <2>3 DEF Outcomes
      <4>2. ~\E op \in {"clone", "reconcile", "ff"} : Go(op, "look")
        BY <2>2 DEF Ops, Steps
      <4>3. job' # [job EXCEPT !.op = "force", !.step = "look", !.expected = job.seen]
        BY <1>2, <2>0 DEF Job
      <4> QED BY <2>0, <3>1, <4>1, <4>2, <4>3 DEF Plan, NeedsForce, Inspection, States
    <3>2. CASE ~Plan
      BY <1>2, <2>1, <2>2, <2>3, <2>7, <3>2
         DEF FastForward, FetchAnyway, Reconcile, SetUrl, Confirm, ForceUpdate, Recheck, Clone,
             PrepareCloneActivation, CloneRepository, VerifyClonedRepository, Ops, Steps, Outcomes
    <3> QED BY <3>1, <3>2
  <2>8. CASE Fetch \/ FetchForce \/ ForceCheckout \/ Crash
    BY <1>2, <2>1, <2>2, <2>3, <2>8
       DEF Fetch, FetchForce, Fetches, ForceCheckout, Crash, Ops, Steps, Outcomes
  <2>9. CASE Look \/ Count
    <3>1. job'.outcome \in {job.outcome, "cancelled", "failed"}
      BY <1>2, <2>0, <2>9, Unread, Finds, Counts DEF Look, Count
    <3> QED BY <1>2, <3>1
  <2>12. CASE Abort \/ RemotePush
    BY <1>2, <2>0, <2>12 DEF Abort, RemotePush, Job
  <2>10. CASE \E force \in BOOLEAN : Begin(force)
    BY <1>2, <2>10 DEF Begin
  <2>11. CASE UNCHANGED job
    BY <1>2, <2>11
  <2> QED BY <1>2, <2>4, <2>5, <2>6, <2>7, <2>8, <2>9, <2>10, <2>11, <2>12
          DEF Next, Sync, Appear, Edit, Commit, Switch, UserFetch, vars
<1>3. IInv /\ StepInv /\ [Next]_vars
        => [job.outcome = "none" /\ job'.outcome \in {"up-to-date", "updated", "cloned"}
              => \E h \in job.since : h \subseteq UNION {local'[b] : b \in Heads}]_vars
  BY <1>2
<1> QED
  BY <1>1, <1>3, NextStepInv, Invariance, PTL DEF Spec, InStepIsTrue
=============================================================================
