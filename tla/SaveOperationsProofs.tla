------------------------ MODULE SaveOperationsProofs ------------------------
(***************************************************************************)
(* Every state of SaveOperations is well typed, and a save is committed    *)
(* once, however often it is retried, replayed after a restart, rebased or *)
(* pushed, whatever others push and the user commits or squashes by hand.  *)
(*                                                                         *)
(* A commit is made when the branch has none of the operation; but between *)
(* that look and the commit lie a pull and the user's commits.  What the   *)
(* pull brings is new to the branch only if it is not a save's: every save *)
(* the remote has was pushed from here, and lies in what both have.        *)
(*                                                                         *)
(* And what is recorded of a save is so: a save recorded as pushed is in   *)
(* the remote, one recorded as committed on the branch, and when all have  *)
(* come to an end the document is what HEAD has, with nothing left to push.*)
(***************************************************************************)
EXTENDS SaveOperations, FiniteSetTheorems, SequenceTheorems, WellFoundedInduction, TLAPS

\* What the model leaves implicit in TypeOK.
Entry == [op : Saves, state : States]
Place == [at : Steps, fresh : BOOLEAN, todo : Seq(States)]
QueueInv ==
  /\ pending \in Seq(Entry)
  /\ run \in Place
  /\ run.at = "record" => run.todo # <<>>

\* The branch has a save once.
CommittedOnce ==
  \A i, j \in DOMAIN local : local[i].by = local[j].by /\ local[i].by \in Saves => i = j

\* The saves of the remote lie in what it has in common with the branch.
PublishedIsShared ==
  \A i \in DOMAIN remote : remote[i].by \in Saves =>
    i \in DOMAIN local /\ \A j \in 1..i : local[j] = remote[j]

\* From the look for an earlier commit until the commit is made.
ToCommit  == \/ run.at \in {"pull", "pulled"} /\ run.fresh
             \/ run.at \in {"hash", "add", "commit"}
NoneYet   == ToCommit => pending # <<>> /\ \A i \in DOMAIN local : local[i].by # o1

CommitInv == CommittedOnce /\ PublishedIsShared /\ NoneYet
IInv      == TypeOK /\ QueueInv /\ CommitInv

-----------------------------------------------------------------------------
(* Shared is the length of the longest common prefix.                      *)

\* A bounded, nonempty set of naturals has a greatest element.
LEMMA Greatest ==
  ASSUME NEW T \in SUBSET Nat, T # {}, NEW bound \in Nat, \A n \in T : n <= bound
  PROVE  \E m \in T : \A n \in T : n <= m
<1> DEFINE R == {p \in Nat \X Nat : p[1] < p[2]}
           D == {bound - n : n \in T}
<1>1. IsWellFoundedOn(R, Nat)
  <2>1. R = OpToRel(<, Nat)
    BY Zenon DEF OpToRel
  <2> QED BY <2>1, NatLessThanWellFounded
<1>2. \A n \in T : bound - n \in Nat
  OBVIOUS
<1>3. D \in SUBSET Nat /\ D # {}
  BY <1>2
<1>4. PICK d \in D : \A e \in D : <<e, d>> \notin R
  <2> HIDE DEF D, R
  <2> QED BY <1>1, <1>3, WFMin
<1>5. PICK m \in T : d = bound - m
  BY <1>4
<1>6. ASSUME NEW n \in T PROVE n <= m
  <2>1. bound - n \in D /\ d \in D
    BY <1>4
  <2>2. <<bound - n, d>> \notin R /\ bound - n \in Nat /\ d \in Nat
    BY <1>2, <1>3, <1>4, <2>1
  <2>3. ~(bound - n < d)
    BY <2>2
  <2> QED BY <1>5, <2>3
<1> QED BY <1>6

\* Two sequences agree on their first n elements.
Agree(s, t, n) == n <= Len(s) /\ n <= Len(t) /\ \A i \in 1..n : s[i] = t[i]

LEMMA PrefixIsAgreement ==
  ASSUME NEW S, NEW s \in Seq(S), NEW t \in Seq(S), NEW n \in 0..Len(s)
  PROVE  /\ Len(SubSeq(s, 1, n)) = n
         /\ IsPrefix(SubSeq(s, 1, n), s)
         /\ IsPrefix(SubSeq(s, 1, n), t) <=> Agree(s, t, n)
<1> DEFINE u == SubSeq(s, 1, n)
<1>1. u \in Seq(S) /\ Len(u) = n /\ \A i \in 1..n : u[i] = s[i]
  BY SubSeqProperties
<1>2. SubSeq(u, 1, n) = u
  BY <1>1, SubSeqFull
<1>3. IsPrefix(u, s)
  BY <1>1, <1>2 DEF IsPrefix
<1>4. ASSUME n <= Len(t)
      PROVE  SubSeq(t, 1, n) = u <=> \A i \in 1..n : s[i] = t[i]
  <2>1. /\ SubSeq(t, 1, n) \in Seq(S) /\ Len(SubSeq(t, 1, n)) = n
        /\ \A i \in 1..n : SubSeq(t, 1, n)[i] = t[i]
    BY <1>4, SubSeqProperties
  <2>2. (\A i \in 1..n : s[i] = t[i]) => SubSeq(t, 1, n) = u
    BY <1>1, <2>1, SeqEqual
  <2> QED BY <1>1, <2>1, <2>2
<1> QED BY <1>1, <1>2, <1>3, <1>4 DEF IsPrefix, Agree

LEMMA LongestAgreement ==
  ASSUME NEW S, NEW s \in Seq(S), NEW t \in Seq(S),
         NEW k, k = Len(LongestCommonPrefix({s, t}))
  PROVE  k \in Nat /\ Agree(s, t, k) /\ \A n \in Nat : Agree(s, t, n) => n <= k
<1> DEFINE P == CommonPrefixes({s, t})
           T == {n \in Nat : Agree(s, t, n)}
<1>1. ASSUME NEW p \in P PROVE Len(p) \in T
  <2>1. PICK u \in {s, t} : \E l \in 0..Len(u) : p = SubSeq(u, 1, l)
    BY DEF CommonPrefixes, Prefixes
  <2>2. IsPrefix(p, s) /\ IsPrefix(p, t)
    BY DEF CommonPrefixes
  <2>3. CASE u = s
    BY <2>1, <2>2, <2>3, PrefixIsAgreement
  <2>4. CASE u = t
    <3>1. \E l \in 0..Len(t) : Len(p) = l /\ Agree(t, s, l)
      BY <2>1, <2>2, <2>4, PrefixIsAgreement
    <3> QED BY <2>1, <3>1 DEF Agree
  <2> QED BY <2>1, <2>3, <2>4
<1>2. ASSUME NEW n \in T PROVE SubSeq(s, 1, n) \in P /\ Len(SubSeq(s, 1, n)) = n
  <2>1. n \in 0..Len(s) /\ Agree(s, t, n)
    BY DEF Agree
  <2>2. /\ Len(SubSeq(s, 1, n)) = n
        /\ IsPrefix(SubSeq(s, 1, n), s) /\ IsPrefix(SubSeq(s, 1, n), t)
    BY <2>1, PrefixIsAgreement
  <2> QED BY <2>1, <2>2 DEF CommonPrefixes, Prefixes
<1>3. PICK m \in T : \A n \in T : n <= m
  <2>1. T \in SUBSET Nat /\ Len(s) \in Nat /\ \A n \in T : n <= Len(s)
    BY DEF Agree
  <2>2. 0 \in T
    BY DEF Agree
  <2> HIDE DEF T
  <2> QED BY <2>1, <2>2, Greatest
<1>4. \E p \in P : \A q \in P : Len(q) <= Len(p)
  <2>1. SubSeq(s, 1, m) \in P /\ Len(SubSeq(s, 1, m)) = m
    BY <1>2
  <2>2. \A q \in P : Len(q) <= m
    BY <1>1, <1>3
  <2> QED BY <2>1, <2>2
<1>5. LongestCommonPrefix({s, t}) \in P
      /\ \A q \in P : Len(q) <= Len(LongestCommonPrefix({s, t}))
  BY <1>4 DEF LongestCommonPrefix
<1>6. k \in T /\ \A n \in T : n <= k
  BY <1>1, <1>2, <1>5
<1> QED BY <1>6

\* What the branch and the remote have in common, and that it is all of it.
LEMMA WhatIsShared ==
  ASSUME local \in Seq(Commit), remote \in Seq(Commit)
  PROVE  /\ Shared \in Nat /\ Shared <= Len(local) /\ Shared <= Len(remote)
         /\ \A i \in 1..Shared : local[i] = remote[i]
         /\ \A n \in DOMAIN remote :
              n \in DOMAIN local /\ (\A i \in 1..n : local[i] = remote[i]) => n <= Shared
<1>1. Shared \in Nat /\ Agree(local, remote, Shared)
      /\ \A n \in Nat : Agree(local, remote, n) => n <= Shared
  BY LongestAgreement DEF Shared
<1> QED BY <1>1 DEF Agree

-----------------------------------------------------------------------------
(* What the steps of the queue and of the executor do to types and places.  *)

TreeOK ==
  /\ work \in Contents /\ index \in Contents \union {Nothing, "unmerged"} /\ stopped \in BOOLEAN
  /\ local \in Seq(Commit) /\ remote \in Seq(Commit)

LEMMA Ranges ==
  ASSUME TypeOK
  PROVE  /\ Len(ops) \in 0..MaxSaves /\ Len(journal) \in 0..MaxSaves
         /\ DOMAIN journal \subseteq Saves /\ DOMAIN journal = 1..Len(journal)
         /\ MaxSaves \in Nat /\ saves \in Nat
         /\ Hand \notin Saves /\ Other \notin Saves /\ Saves \subseteq 0..Other
         /\ Hand \in 0..Other /\ Other \in 0..Other
BY SMTT(90), SaveAssumption DEF TypeOK, Saves, Hand, Other, SaveAssumption

LEMMA TipType ==
  ASSUME NEW h \in Seq(Commit)
  PROVE  Tip(h) \in Contents
<1>1. CASE h = <<>>
  BY <1>1 DEF Tip, Contents
<1>2. CASE h # <<>>
  <2>1. Len(h) \in DOMAIN h
    BY <1>2
  <2>2. h[Len(h)] \in Commit
    BY <2>1
  <2> QED BY <1>2, <2>2 DEF Tip, Last, Commit
<1> QED BY <1>1, <1>2

LEMMA Joined ==
  ASSUME NEW s \in Seq(States), NEW t \in Seq(States), t # <<>>
  PROVE  s \o t \in Seq(States) /\ s \o t # <<>>
BY ConcatProperties, ConcatEmptySeq

LEMMA GivesPlace ==
  ASSUME run \in Place, NEW outcome \in Ends \union Waits, Gives(outcome)
  PROVE  /\ run' \in Place /\ run'.at = "record" /\ run'.todo # <<>>
<1>1. Records(outcome) \in Seq(States) /\ Records(outcome) # <<>>
  <2> DEFINE W(s) == IF Resuming THEN <<>> ELSE s
  <2>1. /\ <<outcome>> \in Seq(States) /\ <<outcome>> # <<>>
        /\ <<"pushing", outcome>> \in Seq(States) /\ <<"pushing", outcome>> # <<>>
        /\ W(<<"committing">>) \in Seq(States) /\ W(<<"committing", "committed">>) \in Seq(States)
    <3>1. {outcome, "pushing", "committing", "committed"} \subseteq States
      BY DEF States
    <3> HIDE DEF States
    <3> QED BY <3>1
  <2>2. Records(outcome) \in {<<outcome>>, W(<<"committing">>) \o <<outcome>>,
                             W(<<"committing", "committed">>) \o <<outcome>>,
                             W(<<"committing", "committed">>) \o <<"pushing", outcome>>}
    BY Zenon DEF Records
  <2> HIDE DEF W
  <2> QED BY <2>1, <2>2, Joined
<1> QED BY <1>1 DEF Gives, Place, Steps

LEMMA GoesPlace ==
  ASSUME run \in Place, NEW step \in Steps, Goes(step)
  PROVE  run' \in Place /\ run'.at = step /\ run'.fresh = run.fresh
BY DEF Goes, Place

\* A job put at the end of the queue.
LEMMA QueuedLast ==
  ASSUME pending \in Seq(Entry), NEW o \in Saves, NEW s \in States, pending' = Queued(o, s),
         \A i \in DOMAIN pending : pending[i].op # o
  PROVE  /\ pending' \in Seq(Entry) /\ pending' # <<>>
         /\ pending # <<>> => pending'[1] = pending[1]
         /\ \A i \in DOMAIN pending' :
              (i \in DOMAIN pending /\ pending'[i] = pending[i]) \/ pending'[i] = [op |-> o, state |-> s]
         /\ (\A i, j \in DOMAIN pending : pending[i].op = pending[j].op => i = j)
              => \A i, j \in DOMAIN pending' : pending'[i].op = pending'[j].op => i = j
<1> DEFINE e == [op |-> o, state |-> s]
<1>1. e \in Entry /\ e.op = o
  BY DEF Entry
<1>2. /\ pending' \in Seq(Entry) /\ pending' # <<>> /\ Len(pending') = Len(pending) + 1
      /\ \A i \in 1..Len(pending) : pending'[i] = pending[i]
      /\ pending'[Len(pending) + 1] = e
  <2> HIDE DEF e
  <2> QED BY <1>1, AppendProperties DEF Queued, e
<1>3. \A i \in DOMAIN pending' : i \in DOMAIN pending \/ i = Len(pending) + 1
  BY <1>2
<1>4. DOMAIN pending = 1..Len(pending) /\ (pending # <<>> => 1 \in 1..Len(pending))
  OBVIOUS
<1> HIDE DEF e
<1> QED BY <1>1, <1>2, <1>3, <1>4 DEF e

\* A step of the executor leaves the queue alone.
LEMMA ExecutorTypes ==
  ASSUME TypeOK, QueueInv, Running, UNCHANGED <<mode, user, ops, journal, pending>>,
         TreeOK', run' \in Place, run'.at = "record" => run'.todo # <<>>
  PROVE  TypeOK' /\ QueueInv'
BY DEF TypeOK, QueueInv, TreeOK, user, Place

\* The histories stay, and the operation whose commit is to be made.
LEMMA HistoriesStay ==
  ASSUME CommitInv, UNCHANGED <<local, remote>>,
         ToCommit' => ToCommit /\ (pending # <<>> => pending' # <<>> /\ pending'[1].op = pending[1].op)
  PROVE  CommitInv'
BY DEF CommitInv, CommittedOnce, PublishedIsShared, NoneYet, o1

-----------------------------------------------------------------------------
(* The queue.                                                              *)

LEMMA SaveKeeps ==
  ASSUME IInv, NEW c \in Contents, Save(c)
  PROVE  IInv'
<1>1. ops' \in Seq(Op) /\ Len(ops') = Len(ops) + 1
  <2>1. [holds |-> c, revision |-> 0] \in Op
    BY SaveAssumption DEF Op, Save, Contents
  <2> QED BY <2>1, AppendProperties DEF Save, IInv, TypeOK
<1>2. TypeOK'
  <2>1. work' \in Contents /\ Len(ops') = saves' /\ saves' <= MaxSaves /\ Len(journal') <= Len(ops')
    BY SMTT(90), <1>1, Ranges DEF Save, IInv, TypeOK
  <2>2. UNCHANGED <<mode, revision, index, stopped, local, remote, journal, pending, run>>
    BY DEF Save, git
  <2> QED BY <1>1, <2>1, <2>2 DEF IInv, TypeOK, Running, Idle
<1>3. QueueInv'
  BY DEF Save, IInv, QueueInv
<1> QED BY <1>2, <1>3, HistoriesStay DEF Save, IInv, git, ToCommit

LEMMA EnqueueKeeps ==
  ASSUME IInv, Enqueue
  PROVE  IInv'
<1>1. /\ journal' \in Seq(States) /\ Len(journal') = Len(journal) + 1
      /\ DOMAIN journal' = 1..Len(journal') /\ Len(journal') \in Saves
      /\ DOMAIN journal \subseteq DOMAIN journal' /\ Len(journal') \notin DOMAIN journal
      /\ Len(journal') \in DOMAIN ops /\ Len(journal') <= Len(ops)
  <2>1. "queued" \in States
    BY DEF States
  <2>2. journal' \in Seq(States) /\ Len(journal') = Len(journal) + 1
    BY <2>1, AppendProperties DEF Enqueue, IInv, TypeOK
  <2>3. Len(journal) \in Nat /\ Len(ops) \in Nat /\ Len(journal) < Len(ops) /\ Len(ops) <= MaxSaves
    BY Ranges DEF Enqueue, IInv, TypeOK
  <2> QED BY SMTT(90), <2>2, <2>3, Ranges DEF IInv, TypeOK, Saves
<1>2. ops' \in Seq(Op) /\ Len(ops') = Len(ops)
  <2> DEFINE k == Len(journal')
             e == [ops[k] EXCEPT !.revision = revision]
  <2>1. e \in Op
    <3>1. ops[k] \in Op /\ revision \in 0..MaxConfigs
      BY <1>1 DEF IInv, TypeOK
    <3> QED BY <3>1 DEF Op
  <2>2. ops' = [ops EXCEPT ![k] = e]
    BY DEF Enqueue
  <2> HIDE DEF e, k
  <2>3. k \in 1..Len(ops)
    BY <1>1 DEF k, IInv, TypeOK
  <2> QED BY <2>1, <2>2, <2>3, ExceptSeq DEF IInv, TypeOK
<1>3. \A i \in DOMAIN pending : pending[i].op # Len(journal')
  BY <1>1 DEF IInv, TypeOK
<1>4. /\ pending' \in Seq(Entry) /\ pending' # <<>>
      /\ pending # <<>> => pending'[1] = pending[1]
      /\ \A i \in DOMAIN pending' : pending'[i].op \in DOMAIN journal' /\ pending'[i].state \in States
      /\ \A i, j \in DOMAIN pending' : pending'[i].op = pending'[j].op => i = j
  <2>1. "queued" \in States /\ pending' = Queued(Len(journal'), "queued")
    BY DEF States, Enqueue
  <2>2. \A i \in DOMAIN pending : pending[i].op \in DOMAIN journal' /\ pending[i].state \in States
    BY <1>1 DEF IInv, TypeOK
  <2>3. pending \in Seq(Entry)
        /\ \A i, j \in DOMAIN pending : pending[i].op = pending[j].op => i = j
    BY DEF IInv, TypeOK, QueueInv
  <2>4. /\ pending' \in Seq(Entry) /\ pending' # <<>>
        /\ pending # <<>> => pending'[1] = pending[1]
        /\ \A i \in DOMAIN pending' :
             (i \in DOMAIN pending /\ pending'[i] = pending[i])
             \/ pending'[i] = [op |-> Len(journal'), state |-> "queued"]
        /\ \A i, j \in DOMAIN pending' : pending'[i].op = pending'[j].op => i = j
    BY <1>1, <1>3, <2>1, <2>3, QueuedLast
  <2> QED BY <1>1, <2>1, <2>2, <2>4
<1>5. TypeOK'
  BY <1>1, <1>2, <1>4 DEF Enqueue, IInv, TypeOK, user, tree
<1>6. QueueInv'
  BY <1>4 DEF Enqueue, IInv, QueueInv
<1> QED BY <1>4, <1>5, <1>6, HistoriesStay DEF Enqueue, IInv, tree, ToCommit

\* A save whose enqueue has failed is in the journal's place, and not queued.
LEMMA LostOne ==
  ASSUME IInv, EnqueueFails
  PROVE  /\ journal' \in Seq(States) /\ Len(journal') = Len(journal) + 1
         /\ Len(journal') <= Len(ops)
         /\ \A o \in DOMAIN journal : o \in DOMAIN journal' /\ journal'[o] = journal[o]
         /\ \A o \in DOMAIN journal' : o \in DOMAIN journal \/ journal'[o] = Lost
<1>1. Lost \in States /\ journal' = Append(journal, Lost) /\ journal \in Seq(States)
  BY DEF States, EnqueueFails, IInv, TypeOK
<1>2. /\ journal' \in Seq(States) /\ Len(journal') = Len(journal) + 1
      /\ \A o \in 1..Len(journal) : journal'[o] = journal[o]
      /\ journal'[Len(journal) + 1] = Lost
  BY <1>1, AppendProperties
<1>3. /\ DOMAIN journal' = 1..Len(journal') /\ DOMAIN journal = 1..Len(journal)
      /\ Len(journal) \in Nat /\ Len(ops) \in Nat /\ Len(journal) < Len(ops)
  BY <1>1, <1>2, Ranges DEF EnqueueFails, IInv, TypeOK
<1>4. \A o \in 1..(Len(journal) + 1) : o \in 1..Len(journal) \/ o = Len(journal) + 1
  BY <1>3
<1>5. Len(journal') <= Len(ops)
  BY <1>2, <1>3
<1> QED BY <1>2, <1>3, <1>4, <1>5

LEMMA EnqueueFailsKeeps ==
  ASSUME IInv, EnqueueFails
  PROVE  IInv'
<1>1. UNCHANGED <<mode, revision, work, index, stopped, local, remote, ops, pending, run, saves>>
  BY DEF EnqueueFails, user, tree
<1>2. TypeOK'
  BY <1>1, LostOne DEF IInv, TypeOK, Running, Idle
<1>3. QueueInv'
  BY <1>1 DEF IInv, QueueInv
<1> QED BY <1>1, <1>2, <1>3, HistoriesStay DEF IInv, ToCommit

LEMMA RetryKeeps ==
  ASSUME IInv, NEW o \in Saves, Retry(o)
  PROVE  IInv'
<1>1. /\ pending' \in Seq(Entry) /\ pending' # <<>>
      /\ pending # <<>> => pending'[1] = pending[1]
      /\ \A i \in DOMAIN pending' : pending'[i].op \in DOMAIN journal /\ pending'[i].state \in States
      /\ \A i, j \in DOMAIN pending' : pending'[i].op = pending'[j].op => i = j
  <2>1. journal[o] \in States /\ o \in DOMAIN journal /\ pending' = Queued(o, journal[o])
        /\ \A i \in DOMAIN pending : pending[i].op # o
    BY DEF Retry, AlreadyPending, IInv, TypeOK
  <2>2. \A i \in DOMAIN pending : pending[i].op \in DOMAIN journal /\ pending[i].state \in States
    BY DEF IInv, TypeOK
  <2>3. pending \in Seq(Entry)
        /\ \A i, j \in DOMAIN pending : pending[i].op = pending[j].op => i = j
    BY DEF IInv, TypeOK, QueueInv
  <2>4. /\ pending' \in Seq(Entry) /\ pending' # <<>>
        /\ pending # <<>> => pending'[1] = pending[1]
        /\ \A i \in DOMAIN pending' :
             (i \in DOMAIN pending /\ pending'[i] = pending[i])
             \/ pending'[i] = [op |-> o, state |-> journal[o]]
        /\ \A i, j \in DOMAIN pending' : pending'[i].op = pending'[j].op => i = j
    BY <2>1, <2>3, QueuedLast
  <2> QED BY <2>1, <2>2, <2>4
<1>2. TypeOK'
  BY <1>1 DEF Retry, IInv, TypeOK, user, tree
<1>3. QueueInv'
  BY <1>1 DEF Retry, IInv, QueueInv
<1> QED BY <1>1, <1>2, <1>3, HistoriesStay DEF Retry, IInv, tree, ToCommit

LEMMA BeginKeeps ==
  ASSUME IInv, Begin
  PROVE  IInv'
<1>1. pending # <<>> /\ 1 \in DOMAIN pending /\ o1 \in DOMAIN journal
  <2>1. pending # <<>> /\ 1 \in DOMAIN pending
    BY DEF Begin, IInv, QueueInv
  <2> QED BY <2>1 DEF IInv, TypeOK, o1
<1>2. journal' \in Seq(States) /\ Len(journal') = Len(journal) /\ DOMAIN journal' = DOMAIN journal
  <2>1. "validating" \in States
    BY DEF States
  <2> QED BY <1>1, <2>1, ExceptSeq DEF Begin, IInv, TypeOK
<1>3. run' \in Place /\ run'.at = "check"
  BY GoesPlace DEF Begin, IInv, QueueInv, Steps
<1>4. TypeOK'
  BY <1>1, <1>2, <1>3 DEF Begin, IInv, TypeOK, user, tree, Place
<1>5. QueueInv'
  BY <1>3 DEF Begin, IInv, QueueInv
<1> QED BY <1>3, <1>4, <1>5, HistoriesStay DEF Begin, IInv, tree, ToCommit

LEMMA HeadAndTail ==
  ASSUME NEW S, NEW s \in Seq(S), s # <<>>
  PROVE  Head(s) \in S /\ Tail(s) \in Seq(S) /\ (Len(s) # 1 => Tail(s) # <<>>)
<1>1. Head(s) \in S /\ Tail(s) \in Seq(S) /\ Len(Tail(s)) = Len(s) - 1 /\ Len(s) \in Nat
  BY HeadTailProperties
<1>2. Tail(s) = <<>> => Len(Tail(s)) = 0
  BY Zenon, <1>1, EmptySeq
<1> QED BY <1>1, <1>2

\* The queue's turn over the first of its operations ends, or goes on.
LEMMA RecordKeeps ==
  ASSUME IInv, Record
  PROVE  IInv'
<1>1. pending # <<>> /\ 1 \in DOMAIN pending /\ o1 \in DOMAIN journal
  <2>1. pending # <<>> /\ 1 \in DOMAIN pending
    BY DEF Record, At, IInv, TypeOK, QueueInv
  <2> QED BY <2>1 DEF IInv, TypeOK, o1
<1>2. run \in Place /\ run.at = "record" /\ run.todo \in Seq(States) /\ run.todo # <<>>
  BY DEF Record, At, IInv, QueueInv, Place
<1>3. /\ Head(run.todo) \in States /\ Tail(run.todo) \in Seq(States)
      /\ Len(run.todo) # 1 => Tail(run.todo) # <<>>
  BY <1>2, HeadAndTail
<1>4. journal' \in Seq(States) /\ Len(journal') = Len(journal) /\ DOMAIN journal' = DOMAIN journal
  <2>1. journal \in Seq(States) /\ o1 \in 1..Len(journal)
        /\ journal' = [journal EXCEPT ![o1] = Head(run.todo)]
    BY <1>1 DEF Record, IInv, TypeOK
  <2> QED BY <1>3, <2>1, ExceptSeq
<1>5. UNCHANGED <<mode, revision, work, index, stopped, local, remote, ops, saves>>
  BY DEF Record, user, tree
<1>6. CASE Len(run.todo) = 1
  <2>1. run' = Idle /\ pending' = Tail(pending)
    BY <1>6 DEF Record
  <2>2. /\ pending' \in Seq(Entry) /\ Len(pending') = Len(pending) - 1
        /\ \A i \in 1..Len(pending') : pending'[i] = pending[i + 1]
    BY <1>1, <2>1, HeadTailProperties DEF IInv, QueueInv
  <2>3. \A i \in DOMAIN pending' : i + 1 \in DOMAIN pending /\ pending'[i] = pending[i + 1]
    BY <2>2 DEF IInv, QueueInv
  <2>4. /\ \A i \in DOMAIN pending' : pending'[i].op \in DOMAIN journal' /\ pending'[i].state \in States
        /\ \A i, j \in DOMAIN pending' : pending'[i].op = pending'[j].op => i = j
    <3>1. DOMAIN pending' = 1..Len(pending') /\ Len(pending') \in Nat
      BY <2>2
    <3>2. ASSUME NEW i \in DOMAIN pending', NEW j \in DOMAIN pending', pending'[i].op = pending'[j].op
          PROVE  i = j
      <4>1. i + 1 = j + 1
        BY <2>3, <3>2 DEF IInv, TypeOK
      <4> QED BY <3>1, <4>1
    <3> QED BY <1>4, <2>3, <3>2 DEF IInv, TypeOK
  <2>5. run' \in Place /\ run'.at = "idle" /\ ~Running' /\ run'.at \in Steps
    BY <2>1 DEF Idle, Place, Steps, Running
  <2>6. TypeOK'
    BY <1>4, <1>5, <2>4, <2>5 DEF IInv, TypeOK
  <2>7. QueueInv'
    BY <2>2, <2>5 DEF QueueInv
  <2> QED BY <1>5, <2>5, <2>6, <2>7, HistoriesStay DEF IInv, ToCommit
<1>7. CASE Len(run.todo) # 1
  <2>1. run' = [run EXCEPT !.todo = Tail(@)] /\ pending' = pending
    BY <1>7 DEF Record
  <2>2. run' \in Place /\ run'.at = "record" /\ run'.todo # <<>> /\ run'.at \in Steps
    BY <1>2, <1>3, <1>7, <2>1 DEF Place, Steps
  <2>3. TypeOK'
    BY <1>1, <1>4, <1>5, <2>1, <2>2 DEF IInv, TypeOK
  <2>4. QueueInv'
    BY <2>1, <2>2 DEF IInv, QueueInv
  <2> QED BY <1>5, <2>2, <2>3, <2>4, HistoriesStay DEF IInv, ToCommit
<1> QED BY <1>6, <1>7

LEMMA RecordFailsKeeps ==
  ASSUME IInv, RecordFails
  PROVE  IInv'
<1>1. run' \in Place /\ run'.at = "idle" /\ ~Running' /\ run'.at \in Steps
  BY DEF RecordFails, Idle, Place, Steps, Running
<1>2. TypeOK' /\ QueueInv'
  BY <1>1 DEF RecordFails, IInv, TypeOK, QueueInv, user, tree
<1> QED BY <1>1, <1>2, HistoriesStay DEF RecordFails, IInv, tree, ToCommit

\* What a restart queues again is what the journal has open, each once.
LEMMA RestartKeeps ==
  ASSUME IInv, Restart
  PROVE  IInv'
<1> DEFINE open == {o \in DOMAIN journal : isNonTerminal(journal[o])}
<1>1. Cardinality(open) \in Nat
  <2>1. open \in SUBSET (1..Len(journal)) /\ Len(journal) \in Int
    BY Ranges DEF IInv, TypeOK
  <2>2. IsFiniteSet(1..Len(journal))
    BY <2>1, FS_Interval
  <2> HIDE DEF open
  <2>3. IsFiniteSet(open)
    BY <2>1, <2>2, FS_Subset
  <2> QED BY <2>3, FS_CardinalityType
<1>2. PICK q \in [1..Cardinality(open) -> open] :
        /\ \A i, j \in DOMAIN q : i < j => q[i] < q[j]
        /\ pending' = [i \in DOMAIN q |-> [op |-> q[i], state |-> journal[q[i]]]]
  BY DEF Restart
<1> HIDE DEF open
<1>3. \A i \in DOMAIN q : q[i] \in DOMAIN journal /\ q[i] \in Saves /\ journal[q[i]] \in States
  BY <1>2, Ranges DEF open, IInv, TypeOK
<1>4. /\ pending' \in Seq(Entry) /\ DOMAIN pending' = 1..Cardinality(open)
      /\ \A i \in DOMAIN pending' : pending'[i].op = q[i] /\ pending'[i].state = journal[q[i]]
  <2>1. \A i \in 1..Cardinality(open) : [op |-> q[i], state |-> journal[q[i]]] \in Entry
    BY <1>2, <1>3 DEF Entry
  <2>2. pending' = [i \in 1..Cardinality(open) |-> [op |-> q[i], state |-> journal[q[i]]]]
    BY <1>2
  <2> QED BY <1>1, <2>1, <2>2, IsASeq
<1>5. \A i, j \in DOMAIN pending' : pending'[i].op = pending'[j].op => i = j
  <2> SUFFICES ASSUME NEW i \in DOMAIN pending', NEW j \in DOMAIN pending', q[i] = q[j]
               PROVE  i = j
    BY <1>4
  <2>1. q[i] \in Nat /\ i \in Nat /\ j \in Nat
    BY <1>2, <1>3, <1>4 DEF Saves
  <2>2. ~(i < j) /\ ~(j < i)
    BY <1>2, <1>4, <2>1
  <2> QED BY <2>1, <2>2
<1>6. run' \in Place /\ run'.at = "idle" /\ ~Running' /\ run'.at \in Steps
  BY DEF Restart, Idle, Place, Steps, Running
<1>7. TypeOK'
  <2>1. UNCHANGED <<mode, revision, work, index, stopped, local, remote, ops, journal, saves>>
    BY DEF Restart, user, tree
  <2>2. \A i \in DOMAIN pending' : pending'[i].op \in DOMAIN journal /\ pending'[i].state \in States
    BY <1>2, <1>3, <1>4
  <2> QED BY <1>5, <1>6, <2>1, <2>2 DEF IInv, TypeOK
<1>8. QueueInv'
  BY <1>4, <1>6 DEF QueueInv
<1> QED BY <1>6, <1>7, <1>8, HistoriesStay DEF Restart, IInv, tree, ToCommit

-----------------------------------------------------------------------------
(* What others and the user do to the histories.                            *)

\* The remote has a save once, at the place where the branch has it.
LEMMA PublishedPlace ==
  ASSUME IInv, NEW i \in DOMAIN remote, remote[i].by \in Saves
  PROVE  i \in DOMAIN local /\ local[i] = remote[i] /\ i <= Shared
         /\ \A k \in DOMAIN local : local[k].by = remote[i].by => k = i
<1>1. i \in DOMAIN local /\ \A j \in 1..i : local[j] = remote[j]
  BY DEF IInv, CommitInv, PublishedIsShared
<1>2. i \in Nat /\ i \in 1..i
  BY DEF IInv, TypeOK
<1>3. i <= Shared
  BY <1>1, WhatIsShared DEF IInv, TypeOK
<1> QED BY <1>1, <1>2, <1>3 DEF IInv, CommitInv, CommittedOnce

\* A commit on top of the branch: of nobody's save, or of one it has not.
LEMMA CommitOnTop ==
  ASSUME IInv, NEW c \in Commit, local' = Append(local, c), UNCHANGED remote,
         c.by \in Saves => \A i \in DOMAIN local : local[i].by # c.by
  PROVE  /\ local' \in Seq(Commit) /\ CommittedOnce' /\ PublishedIsShared'
         /\ \A i \in DOMAIN local' : \/ i \in DOMAIN local /\ local'[i] = local[i]
                                     \/ i = Len(local') /\ local'[i] = c
<1>1. /\ local' \in Seq(Commit) /\ DOMAIN local' = 1..(Len(local) + 1)
      /\ DOMAIN local = 1..Len(local) /\ Len(local) \in Nat
      /\ \A i \in DOMAIN local : local'[i] = local[i]
      /\ local'[Len(local) + 1] = c
  BY AppendProperties DEF IInv, TypeOK
<1>2. \A i \in DOMAIN local' : i \in DOMAIN local \/ i = Len(local) + 1
  BY <1>1
<1>3. CommittedOnce'
  BY <1>1, <1>2 DEF IInv, CommitInv, CommittedOnce
<1>4. PublishedIsShared'
  <2> SUFFICES ASSUME NEW i \in DOMAIN remote, remote[i].by \in Saves
               PROVE  i \in DOMAIN local' /\ \A j \in 1..i : local'[j] = remote[j]
    BY DEF PublishedIsShared
  <2>1. i \in DOMAIN local /\ \A j \in 1..i : local[j] = remote[j]
    BY DEF IInv, CommitInv, PublishedIsShared
  <2>2. i \in 1..Len(local) /\ \A j \in 1..i : j \in 1..Len(local)
    BY <1>1, <2>1
  <2> QED BY <1>1, <2>1, <2>2
<1>5. Len(local') = Len(local) + 1
  BY <1>1
<1> QED BY <1>1, <1>2, <1>3, <1>4, <1>5

\* The branch becomes the remote's.
LEMMA BranchIsRemote ==
  ASSUME IInv, local' = remote, UNCHANGED remote
  PROVE  /\ local' \in Seq(Commit) /\ CommittedOnce' /\ PublishedIsShared'
         /\ \A i \in DOMAIN local' : local'[i].by \in Saves =>
              \E k \in DOMAIN local : local[k].by = local'[i].by
<1>1. CommittedOnce'
  <2> SUFFICES ASSUME NEW i \in DOMAIN remote, NEW j \in DOMAIN remote,
                      remote[i].by = remote[j].by, remote[i].by \in Saves
               PROVE  i = j
    BY DEF CommittedOnce
  <2> QED BY PublishedPlace
<1>2. PublishedIsShared'
  <2>1. remote \in Seq(Commit)
    BY DEF IInv, TypeOK
  <2>2. \A i \in DOMAIN remote : \A j \in 1..i : local'[j] = remote[j]
    OBVIOUS
  <2> QED BY <2>1, <2>2 DEF PublishedIsShared
<1> QED BY <1>1, <1>2, PublishedPlace DEF IInv, TypeOK

\* What is only local of the branch.
LEMMA WhatIsMine ==
  ASSUME IInv
  PROVE  /\ Mine \in Seq(Commit) /\ Len(Mine) = Len(local) - Shared
         /\ Len(local) \in Nat /\ Shared \in 0..Len(local)
         /\ \A i \in 1..Len(Mine) : Shared + i \in DOMAIN local /\ Mine[i] = local[Shared + i]
<1>1. Shared \in Nat /\ Shared <= Len(local) /\ Len(local) \in Nat /\ local \in Seq(Commit)
  BY WhatIsShared DEF IInv, TypeOK
<1> DEFINE s == Shared
<1> HIDE DEF s
<1>2. s \in Nat /\ s <= Len(local) /\ s = Shared
  BY <1>1 DEF s
<1>3. /\ SubSeq(local, s + 1, Len(local)) \in Seq(Commit)
      /\ Len(SubSeq(local, s + 1, Len(local))) = Len(local) - s
      /\ \A i \in 1..(Len(local) - s) : SubSeq(local, s + 1, Len(local))[i] = local[s + i]
  <2>1. \A i \in (s + 1)..Len(local) : local[i] \in Commit
    BY <1>1, <1>2
  <2>2. \A i \in 1..(Len(local) - s) : s + 1 + i - 1 = s + i
    BY <1>1, <1>2
  <2>3. s + 1 \in Int /\ Len(local) \in Int
    BY <1>1, <1>2
  <2>4. /\ SubSeq(local, s + 1, Len(local)) \in Seq(Commit)
        /\ Len(SubSeq(local, s + 1, Len(local))) =
             IF s + 1 <= Len(local) THEN Len(local) - (s + 1) + 1 ELSE 0
        /\ \A i \in 1..(Len(local) - (s + 1) + 1) :
             SubSeq(local, s + 1, Len(local))[i] = local[s + 1 + i - 1]
    BY SMTT(90), <2>1, <2>3, SubSeqProperties
  <2> QED BY <1>1, <1>2, <2>2, <2>4
<1> QED BY <1>1, <1>2, <1>3 DEF Mine

\* What is only local, on top of the remote's: where each commit is from.
FromMine(i) == Shared + (i - Len(remote))
LEMMA RebasedPlaces ==
  ASSUME IInv, local' = remote \o Mine
  PROVE  /\ local' \in Seq(Commit) /\ remote \in Seq(Commit)
         /\ Len(local') = Len(remote) + Len(Mine) /\ Len(remote) \in Nat /\ Len(Mine) \in Nat
         /\ \A i \in 1..Len(local') :
              local'[i] = IF i <= Len(remote) THEN remote[i] ELSE Mine[i - Len(remote)]
         /\ \A i \in DOMAIN local' :
              \/ i \in DOMAIN remote /\ local'[i] = remote[i]
              \/ /\ i > Len(remote) /\ FromMine(i) \in DOMAIN local /\ FromMine(i) > Shared
                 /\ local'[i] = local[FromMine(i)]
<1>1. /\ local' \in Seq(Commit) /\ remote \in Seq(Commit)
      /\ Len(local') = Len(remote) + Len(Mine) /\ Len(remote) \in Nat /\ Len(Mine) \in Nat
      /\ \A i \in 1..Len(local') :
           local'[i] = IF i <= Len(remote) THEN remote[i] ELSE Mine[i - Len(remote)]
  BY WhatIsMine, ConcatProperties DEF IInv, TypeOK
<1>2. \A i \in DOMAIN local' :
        \/ i \in DOMAIN remote /\ local'[i] = remote[i]
        \/ /\ i > Len(remote) /\ FromMine(i) \in DOMAIN local /\ FromMine(i) > Shared
           /\ local'[i] = local[FromMine(i)]
  <2> SUFFICES ASSUME NEW i \in 1..Len(local'), ~(i <= Len(remote))
               PROVE  FromMine(i) \in DOMAIN local /\ FromMine(i) > Shared /\ local'[i] = local[FromMine(i)]
    BY <1>1
  <2>1. i - Len(remote) \in 1..Len(Mine)
    BY <1>1
  <2> DEFINE m == i - Len(remote)
  <2> HIDE DEF m
  <2>2. Shared + m \in DOMAIN local /\ Mine[m] = local[Shared + m] /\ m > 0 /\ Shared \in Nat
        /\ m \in Nat
    BY SMTT(90), <1>1, <2>1, WhatIsMine DEF m
  <2>3. local'[i] = Mine[m]
    BY <1>1 DEF m
  <2>4. Shared + m > Shared
    BY <2>2
  <2> QED BY <2>2, <2>3, <2>4 DEF m, FromMine
<1> QED BY <1>1, <1>2

LEMMA BranchIsRebased ==
  ASSUME IInv, local' = remote \o Mine, UNCHANGED remote
  PROVE  /\ local' \in Seq(Commit) /\ CommittedOnce' /\ PublishedIsShared'
         /\ \A i \in DOMAIN local' : local'[i].by \in Saves =>
              \E k \in DOMAIN local : local[k].by = local'[i].by
<1>1. /\ local' \in Seq(Commit) /\ remote \in Seq(Commit)
      /\ Len(local') = Len(remote) + Len(Mine) /\ Len(remote) \in Nat /\ Len(Mine) \in Nat
      /\ \A i \in 1..Len(local') :
           local'[i] = IF i <= Len(remote) THEN remote[i] ELSE Mine[i - Len(remote)]
  BY RebasedPlaces
<1>2. \A i \in DOMAIN local' :
        \/ i \in DOMAIN remote /\ local'[i] = remote[i]
        \/ i > Len(remote) /\ FromMine(i) \in DOMAIN local /\ FromMine(i) > Shared /\ local'[i] = local[FromMine(i)]
  BY RebasedPlaces
<1>3. CommittedOnce'
  <2>0. \A i \in DOMAIN local' : i \in Nat
    BY <1>1
  <2> SUFFICES ASSUME NEW i \in DOMAIN local', NEW j \in DOMAIN local',
                      local'[i].by = local'[j].by, local'[i].by \in Saves
               PROVE  i = j
    BY DEF CommittedOnce
  <2>1. CASE i \in DOMAIN remote /\ local'[i] = remote[i] /\ j \in DOMAIN remote /\ local'[j] = remote[j]
    BY <2>1, PublishedPlace
  <2>2. ASSUME NEW k \in DOMAIN local', NEW l \in DOMAIN local', local'[k].by = local'[l].by,
               local'[k].by \in Saves,
               k \in DOMAIN remote, local'[k] = remote[k],
               FromMine(l) \in DOMAIN local, FromMine(l) > Shared, local'[l] = local[FromMine(l)]
        PROVE  FALSE
    <3>1. FromMine(l) = k /\ k <= Shared
      BY <2>2, PublishedPlace
    <3> QED BY SMTT(90), <2>2, <3>1, WhatIsMine DEF IInv, TypeOK
  <2>3. CASE /\ FromMine(i) \in DOMAIN local /\ local'[i] = local[FromMine(i)]
             /\ FromMine(j) \in DOMAIN local /\ local'[j] = local[FromMine(j)]
    <3>1. FromMine(i) = FromMine(j)
      BY <2>3 DEF IInv, CommitInv, CommittedOnce
    <3> QED BY SMTT(90), <1>1, <2>0, <3>1, WhatIsMine DEF FromMine
  <2> QED BY <1>2, <2>1, <2>2, <2>3
<1>4. PublishedIsShared'
  <2> SUFFICES ASSUME NEW i \in 1..Len(remote)
               PROVE  i \in 1..Len(local') /\ \A j \in 1..i : local'[j] = remote[j]
    BY <1>1 DEF PublishedIsShared
  <2> QED BY <1>1
<1>5. ASSUME NEW i \in DOMAIN local', local'[i].by \in Saves
      PROVE  \E k \in DOMAIN local : local[k].by = local'[i].by
  BY <1>2, <1>5, PublishedPlace
<1> QED BY <1>1, <1>3, <1>4, <1>5

\* The branch up to what is shared, with one commit on top.
LEMMA BranchIsSquashed ==
  ASSUME IInv, NEW c \in Commit, c.by \notin Saves, UNCHANGED remote,
         local' = Append(SubSeq(local, 1, Shared), c)
  PROVE  /\ local' \in Seq(Commit) /\ CommittedOnce' /\ PublishedIsShared'
         /\ \A i \in DOMAIN local' : \/ i \in DOMAIN local /\ local'[i] = local[i]
                                     \/ i = Len(local') /\ local'[i] = c
<1> DEFINE s == Shared
           b == SubSeq(local, 1, s)
<1>1. s \in 0..Len(local) /\ Len(local) \in Nat /\ local \in Seq(Commit)
  BY WhatIsMine DEF IInv, TypeOK
<1> HIDE DEF s
<1>2. b \in Seq(Commit) /\ Len(b) = s /\ \A i \in 1..s : b[i] = local[i] /\ i \in DOMAIN local
  <2>1. \A i \in 1..s : local[i] \in Commit /\ i \in DOMAIN local /\ 1 + i - 1 = i
    BY <1>1
  <2>2. /\ b \in Seq(Commit) /\ Len(b) = IF 1 <= s THEN s - 1 + 1 ELSE 0
        /\ \A i \in 1..(s - 1 + 1) : b[i] = local[1 + i - 1]
    BY <1>1, <2>1, SubSeqProperties
  <2> QED BY <1>1, <2>1, <2>2
<1> HIDE DEF b
<1>3. /\ local' \in Seq(Commit) /\ DOMAIN local' = 1..(s + 1) /\ s \in Nat
      /\ \A i \in 1..s : local'[i] = local[i] /\ i \in DOMAIN local
      /\ local'[s + 1] = c
  <2>1. local' = Append(b, c)
    BY DEF b, s
  <2>2. /\ local' \in Seq(Commit) /\ Len(local') = Len(b) + 1
        /\ \A i \in 1..Len(b) : local'[i] = b[i]
        /\ local'[Len(b) + 1] = c
    <3>1. b \in Seq(Commit) /\ c \in Commit
      BY <1>2
    <3>2. /\ Append(b, c) \in Seq(Commit) /\ Len(Append(b, c)) = Len(b) + 1
          /\ \A i \in 1..Len(b) : Append(b, c)[i] = b[i]
          /\ Append(b, c)[Len(b) + 1] = c
      BY <3>1, AppendProperties
    <3> QED BY <2>1, <3>2
  <2>3. DOMAIN local' = 1..Len(local') /\ s \in Nat
    BY <1>1, <2>2
  <2> QED BY <1>2, <2>2, <2>3
<1>4. \A i \in DOMAIN local' : i \in 1..s \/ i = s + 1
  BY <1>3
<1>5. CommittedOnce'
  BY <1>3, <1>4 DEF IInv, CommitInv, CommittedOnce
<1>6. PublishedIsShared'
  <2> SUFFICES ASSUME NEW i \in DOMAIN remote, remote[i].by \in Saves
               PROVE  i \in DOMAIN local' /\ \A j \in 1..i : local'[j] = remote[j]
    BY DEF PublishedIsShared
  <2>1. i \in DOMAIN local /\ i <= s /\ \A j \in 1..i : local[j] = remote[j]
    BY PublishedPlace DEF s, IInv, CommitInv, PublishedIsShared
  <2>2. i \in 1..s /\ \A j \in 1..i : j \in 1..s
    BY SMTT(90), <1>1, <1>3, <2>1
  <2> QED BY <1>3, <2>1, <2>2
<1>7. Len(local') = s + 1
  BY <1>3
<1> QED BY <1>3, <1>4, <1>5, <1>6, <1>7

LEMMA FirstOperation ==
  ASSUME IInv, pending # <<>>
  PROVE  /\ 1 \in DOMAIN pending /\ o1 \in DOMAIN journal /\ o1 \in Saves
         /\ o1 # Hand /\ o1 # Other
<1>1. 1 \in DOMAIN pending
  BY DEF IInv, QueueInv
<1>2. o1 \in DOMAIN journal
  BY <1>1 DEF IInv, TypeOK, o1
<1> QED BY <1>1, <1>2, Ranges DEF IInv

\* The queue stands while the branch gets commits that are not its operation's.
LEMMA OthersCommit ==
  ASSUME IInv, UNCHANGED <<mode, revision, saves, work, ops, journal, pending, run>>, TreeOK',
         CommittedOnce', PublishedIsShared',
         \A i \in DOMAIN local' : \/ local'[i].by \notin Saves
                                  \/ \E k \in DOMAIN local : local[k].by = local'[i].by
  PROVE  IInv'
<1>1. TypeOK' /\ QueueInv'
  BY DEF IInv, TypeOK, QueueInv, TreeOK, Running, Idle
<1>2. NoneYet'
  <2>1. o1' = o1 /\ (ToCommit' <=> ToCommit)
    BY DEF o1, ToCommit
  <2>2. ToCommit => pending # <<>> /\ o1 \in Saves /\ \A i \in DOMAIN local : local[i].by # o1
    BY FirstOperation DEF IInv, CommitInv, NoneYet
  <2> QED BY <2>1, <2>2 DEF NoneYet
<1> QED BY <1>1, <1>2 DEF IInv, CommitInv

LEMMA ForeignPushKeeps ==
  ASSUME IInv, NEW c \in Contents, ForeignPush(c)
  PROVE  IInv'
<1> DEFINE e == [by |-> Other, holds |-> c]
<1>1. e \in Commit /\ e.by \notin Saves
  BY Ranges DEF Commit, IInv
<1>2. /\ remote' = Append(remote, e)
      /\ UNCHANGED <<mode, revision, work, index, stopped, local, ops, journal, pending, run, saves>>
  BY DEF ForeignPush
<1> HIDE DEF e
<1>3. /\ remote' \in Seq(Commit) /\ DOMAIN remote' = 1..(Len(remote) + 1)
      /\ Len(remote) \in Nat /\ DOMAIN remote = 1..Len(remote)
      /\ \A i \in DOMAIN remote : remote'[i] = remote[i]
      /\ remote'[Len(remote) + 1] = e
  BY <1>1, <1>2, AppendProperties DEF IInv, TypeOK
<1>4. TreeOK'
  BY <1>2, <1>3 DEF TreeOK, IInv, TypeOK
<1>5. CommittedOnce'
  BY <1>2 DEF IInv, CommitInv, CommittedOnce
<1>6. PublishedIsShared'
  <2> SUFFICES ASSUME NEW i \in DOMAIN remote', remote'[i].by \in Saves
               PROVE  i \in DOMAIN local /\ \A j \in 1..i : local[j] = remote'[j]
    BY <1>2 DEF PublishedIsShared
  <2>1. i \in DOMAIN remote
    BY <1>1, <1>3
  <2>2. i \in DOMAIN local /\ \A j \in 1..i : local[j] = remote[j]
    BY <1>3, <2>1 DEF IInv, CommitInv, PublishedIsShared
  <2>3. \A j \in 1..i : j \in DOMAIN remote
    BY <1>3, <2>1
  <2> QED BY <1>3, <2>2, <2>3
<1> QED BY <1>2, <1>4, <1>5, <1>6, OthersCommit

LEMMA HandCommitKeeps ==
  ASSUME IInv, HandCommit
  PROVE  IInv'
<1>1. UNCHANGED <<mode, revision, work, index, stopped, remote, ops, journal, pending, run, saves>>
  BY DEF HandCommit
<1>2. PICK h \in Contents :
        LET c == [by |-> Hand, holds |-> h]
        IN  local' = Append(local, c) \/ local' = Append(SubSeq(local, 1, Shared), c)
  BY TipType DEF HandCommit, IInv, TypeOK
<1> DEFINE c == [by |-> Hand, holds |-> h]
<1>3. c \in Commit /\ c.by \notin Saves
  BY Ranges DEF Commit, IInv
<1>4. local' = Append(local, c) \/ local' = Append(SubSeq(local, 1, Shared), c)
  BY <1>2
<1> HIDE DEF c
<1>5. /\ local' \in Seq(Commit) /\ CommittedOnce' /\ PublishedIsShared'
      /\ \A i \in DOMAIN local' : \/ i \in DOMAIN local /\ local'[i] = local[i]
                                  \/ i = Len(local') /\ local'[i] = c
  BY <1>1, <1>3, <1>4, CommitOnTop, BranchIsSquashed
<1>6. TreeOK'
  BY <1>1, <1>5 DEF TreeOK, IInv, TypeOK
<1> QED BY <1>1, <1>3, <1>5, <1>6, OthersCommit

LEMMA HandRepairKeeps ==
  ASSUME IInv, HandRepair
  PROVE  IInv'
<1>1. UNCHANGED <<mode, revision, work, local, remote, ops, journal, pending, run, saves>>
  BY DEF HandRepair, user
<1>2. TreeOK'
  BY <1>1 DEF HandRepair, TreeOK, IInv, TypeOK
<1>3. CommittedOnce' /\ PublishedIsShared'
  BY <1>1 DEF IInv, CommitInv, CommittedOnce, PublishedIsShared
<1> QED BY <1>1, <1>2, <1>3, OthersCommit

LEMMA ReconfigureKeeps ==
  ASSUME IInv, Reconfigure
  PROVE  IInv'
<1>1. /\ UNCHANGED <<mode, work, index, stopped, local, remote, ops, journal, pending, run, saves>>
      /\ revision' \in 0..MaxConfigs
  BY SaveAssumption DEF Reconfigure, tree, IInv, TypeOK
<1>2. TypeOK' /\ QueueInv'
  BY <1>1 DEF IInv, TypeOK, QueueInv, Running, Idle
<1> QED BY <1>1, <1>2, HistoriesStay DEF IInv, ToCommit

-----------------------------------------------------------------------------
(* The executor.                                                           *)

\* A step that only looks: it may set out for a commit only where there is none.
LEMMA LookKeeps ==
  ASSUME IInv, Running, UNCHANGED <<mode, user, tree, ops, journal, pending>>,
         run' \in Place, run'.at = "record" => run'.todo # <<>>,
         ToCommit' => ToCommit \/ ~Committed
  PROVE  IInv'
<1>1. UNCHANGED <<work, index, stopped, local, remote>>
  BY DEF tree
<1>2. TreeOK'
  BY <1>1 DEF TreeOK, IInv, TypeOK
<1>3. TypeOK' /\ QueueInv'
  BY <1>2, ExecutorTypes DEF IInv
<1>4. pending # <<>> /\ o1' = o1
  BY DEF o1, IInv, TypeOK
<1>5. NoneYet'
  BY <1>1, <1>4 DEF IInv, CommitInv, NoneYet, Committed
<1> QED BY <1>1, <1>3, <1>5 DEF IInv, CommitInv, CommittedOnce, PublishedIsShared

\* A step of the executor on the branch, the remote or the tree.
LEMMA WorkKeeps ==
  ASSUME IInv, Running, UNCHANGED <<mode, user, ops, journal, pending>>, TreeOK',
         run' \in Place, run'.at = "record" => run'.todo # <<>>,
         CommittedOnce', PublishedIsShared', NoneYet'
  PROVE  IInv'
BY ExecutorTypes DEF IInv, CommitInv

LEMMA NotToCommit ==
  ASSUME run'.at \in {"record", "push", "prepush"} \/ (run'.at = "pull" /\ ~run'.fresh)
  PROVE  ~ToCommit'
BY DEF ToCommit

LEMMA CheckKeeps ==
  ASSUME IInv, Check
  PROVE  IInv'
<1>1. \/ \E outcome \in Ends \union Waits : Gives(outcome)
      \/ PullThen(FALSE)
      \/ ~Committed /\ (PullThen(TRUE) \/ Goes("hash"))
  BY DEF Check, Ends, Waits
<1>2. Running /\ UNCHANGED <<mode, user, tree, ops, journal, pending>> /\ run \in Place
  BY DEF Check, At, IInv, QueueInv
<1>3. ASSUME NEW outcome \in Ends \union Waits, Gives(outcome) PROVE IInv'
  BY <1>2, <1>3, GivesPlace, NotToCommit, LookKeeps
<1>4. ASSUME NEW fresh \in BOOLEAN, PullThen(fresh), fresh => ~Committed PROVE IInv'
  <2>1. run' \in Place /\ run'.at = "pull" /\ run'.fresh = fresh
    BY <1>2, <1>4 DEF PullThen, Place, Steps
  <2>2. ToCommit' => ~Committed
    BY <1>4, <2>1 DEF ToCommit
  <2> QED BY <1>2, <2>1, <2>2, LookKeeps
<1>5. CASE ~Committed /\ Goes("hash")
  <2>1. run' \in Place /\ run'.at = "hash"
    BY <1>2, <1>5, GoesPlace DEF Steps
  <2> QED BY <1>2, <1>5, <2>1, LookKeeps
<1> QED BY <1>1, <1>3, <1>4, <1>5

LEMMA StepFailsKeeps ==
  ASSUME IInv, StepFails
  PROVE  IInv'
<1>1. Running /\ UNCHANGED <<mode, user, tree, ops, journal, pending>> /\ run \in Place
  BY DEF StepFails, Running, Idle, IInv, QueueInv
<1>2. PICK outcome \in {"failed", "push-pending"} : Gives(outcome)
  BY DEF StepFails
<1>3. outcome \in Ends \union Waits
  BY DEF Waits
<1> QED BY <1>1, <1>2, <1>3, GivesPlace, NotToCommit, LookKeeps

\* The other steps that only look go on, or give an outcome.
LEMMA LooksKeep ==
  ASSUME IInv, Pulled \/ Hash \/ PrePush
  PROVE  IInv'
<1>1. Running /\ UNCHANGED <<mode, user, tree, ops, journal, pending>> /\ run \in Place
  BY DEF Pulled, Hash, PrePush, At, IInv, QueueInv
<1>2. \/ Gives("blocked") \/ Goes("prepush") \/ Goes("push")
      \/ Goes("hash") /\ ToCommit
      \/ Goes("add") /\ ToCommit
  BY DEF Pulled, Hash, PrePush, At, ToCommit
<1>3. CASE Gives("blocked")
  <2>1. "blocked" \in Ends \union Waits
    BY DEF Waits
  <2> QED BY <1>1, <1>3, <2>1, GivesPlace, NotToCommit, LookKeeps
<1>4. CASE Goes("prepush") \/ Goes("push")
  <2>1. run' \in Place /\ run'.at \in {"push", "prepush"}
    BY <1>1, <1>4, GoesPlace DEF Steps
  <2> QED BY <1>1, <2>1, NotToCommit, LookKeeps
<1>5. CASE ToCommit /\ (Goes("hash") \/ Goes("add"))
  <2>1. run' \in Place /\ run'.at \in {"hash", "add"}
    BY <1>1, <1>5, GoesPlace DEF Steps
  <2> QED BY <1>1, <1>5, <2>1, LookKeeps
<1> QED BY <1>2, <1>3, <1>4, <1>5

LEMMA AddKeeps ==
  ASSUME IInv, Add
  PROVE  IInv'
<1>1. /\ Running /\ run \in Place /\ ToCommit
      /\ UNCHANGED <<mode, user, work, stopped, local, remote, ops, journal, pending>>
  BY DEF Add, At, ToCommit, IInv, QueueInv
<1>2. TreeOK'
  BY <1>1 DEF Add, TreeOK, IInv, TypeOK
<1>3. /\ run' \in Place /\ run'.at \in {"commit", "record"}
      /\ run'.at = "record" => run'.todo # <<>>
  <2>1. Goes("commit") \/ Gives("blocked") \/ Gives("failed")
    BY DEF Add
  <2>2. {"blocked", "failed"} \subseteq Ends \union Waits /\ "commit" \in Steps
    BY DEF Waits, Steps
  <2> QED BY <1>1, <2>1, <2>2, GivesPlace, GoesPlace
<1>4. NoneYet'
  BY <1>1 DEF IInv, CommitInv, NoneYet, o1
<1> QED BY <1>1, <1>2, <1>3, <1>4, WorkKeeps DEF IInv, CommitInv, CommittedOnce, PublishedIsShared

\* The commit of the operation, which the branch does not have yet.
LEMMA MakeCommitKeeps ==
  ASSUME IInv, MakeCommit
  PROVE  IInv'
<1>1. /\ Running /\ run \in Place /\ ToCommit /\ pending # <<>>
      /\ UNCHANGED <<mode, user, work, stopped, remote, ops, journal, pending>>
      /\ \A i \in DOMAIN local : local[i].by # o1
  BY DEF MakeCommit, At, ToCommit, IInv, QueueInv, CommitInv, NoneYet
<1>2. /\ run' \in Place /\ run'.at \in {"prepush", "record"}
      /\ run'.at = "record" => run'.todo # <<>>
  <2>1. Gives("committed-local") \/ Gives("failed") \/ Gives("blocked") \/ Goes("prepush")
    BY DEF MakeCommit
  <2>2. {"committed-local", "failed", "blocked"} \subseteq Ends \union Waits /\ "prepush" \in Steps
    BY DEF Ends, Waits, Steps
  <2> QED BY <1>1, <2>1, <2>2, GivesPlace, GoesPlace
<1>3. NoneYet'
  BY <1>2, NotToCommit DEF NoneYet
<1>4. CASE UNCHANGED <<local, index>>
  BY <1>1, <1>2, <1>3, <1>4, WorkKeeps
     DEF TreeOK, IInv, TypeOK, CommitInv, CommittedOnce, PublishedIsShared
<1>5. CASE local' = Append(local, [by |-> o1, holds |-> work]) /\ index' = Nothing
  <2> DEFINE c == [by |-> o1, holds |-> work]
  <2>1. c \in Commit /\ c.by = o1
    BY <1>1, FirstOperation, Ranges DEF Commit, IInv, TypeOK
  <2>2. local' = Append(local, c)
    BY <1>5
  <2> HIDE DEF c
  <2>3. local' \in Seq(Commit) /\ CommittedOnce' /\ PublishedIsShared'
    BY <1>1, <2>1, <2>2, CommitOnTop
  <2>4. TreeOK'
    BY <1>1, <1>5, <2>3 DEF TreeOK, IInv, TypeOK
  <2> QED BY <1>1, <1>2, <1>3, <2>3, <2>4, WorkKeeps
<1> QED BY <1>4, <1>5 DEF MakeCommit, Commits

LEMMA PushKeeps ==
  ASSUME IInv, Push
  PROVE  IInv'
<1>1. /\ Running /\ run \in Place
      /\ UNCHANGED <<mode, user, work, index, stopped, local, ops, journal, pending>>
      /\ remote' \in {remote, local}
  BY DEF Push, At, IInv, QueueInv
<1>2. run' \in Place /\ run'.at = "record" /\ run'.todo # <<>>
  <2>1. Gives("pushed") \/ Gives("push-pending")
    BY DEF Push
  <2>2. {"pushed", "push-pending"} \subseteq Ends \union Waits
    BY DEF Ends, Waits
  <2> QED BY <1>1, <2>1, <2>2, GivesPlace
<1>3. NoneYet'
  BY <1>2, NotToCommit DEF NoneYet
<1>4. TreeOK' /\ CommittedOnce'
  BY <1>1 DEF TreeOK, IInv, TypeOK, CommitInv, CommittedOnce
<1>5. PublishedIsShared'
  <2>1. CASE remote' = remote
    BY <1>1, <2>1 DEF IInv, CommitInv, PublishedIsShared
  <2>2. CASE remote' = local
    BY <1>1, <2>2 DEF PublishedIsShared
  <2> QED BY <1>1, <2>1, <2>2
<1> QED BY <1>1, <1>2, <1>3, <1>4, <1>5, WorkKeeps

\* The branch after a pull: every save in it was in it before.
LEMMA RebaseKeeps ==
  ASSUME IInv, Rebase, UNCHANGED remote
  PROVE  /\ TreeOK' /\ CommittedOnce' /\ PublishedIsShared'
         /\ \A i \in DOMAIN local' : local'[i].by \in Saves =>
              \E k \in DOMAIN local : local[k].by = local'[i].by
<1>1. local' \in {local, remote, remote \o Mine}
  BY DEF Rebase
<1>2. /\ local' \in Seq(Commit) /\ CommittedOnce' /\ PublishedIsShared'
      /\ \A i \in DOMAIN local' : local'[i].by \in Saves =>
           \E k \in DOMAIN local : local[k].by = local'[i].by
  <2>1. CASE local' = local
    BY <2>1 DEF IInv, TypeOK, CommitInv, CommittedOnce, PublishedIsShared
  <2>2. CASE local' = remote
    BY <2>2, BranchIsRemote
  <2>3. CASE local' = remote \o Mine
    BY <2>3, BranchIsRebased
  <2> QED BY <1>1, <2>1, <2>2, <2>3
<1>3. /\ work' \in {work, Tip(remote)} /\ index' \in {index, "unmerged"}
      /\ stopped' \in {stopped, TRUE}
  BY DEF Rebase
<1>4. Tip(remote) \in Contents
  BY TipType DEF IInv, TypeOK
<1> QED BY <1>2, <1>3, <1>4 DEF TreeOK, IInv, TypeOK

LEMMA PullKeeps ==
  ASSUME IInv, Pull
  PROVE  IInv'
<1>1. /\ Running /\ run \in Place /\ run.at = "pull" /\ pending # <<>>
      /\ UNCHANGED <<mode, user, ops, journal, pending>>
  BY DEF Pull, At, IInv, TypeOK, QueueInv
<1>2. Gives("blocked") \/ Gives("push-pending") \/ Gives("failed") \/ Goes("pulled")
  BY DEF Pull, Rebase
<1>3. /\ run' \in Place /\ run'.at \in {"record", "pulled"}
      /\ run'.at = "record" => run'.todo # <<>>
      /\ run'.at = "pulled" => run'.fresh = run.fresh
  <2>1. {"blocked", "push-pending", "failed"} \subseteq Ends \union Waits /\ "pulled" \in Steps
    BY DEF Waits, Steps
  <2> QED BY <1>1, <1>2, <2>1, GivesPlace, GoesPlace
<1>4. ToCommit' => ToCommit
  BY <1>1, <1>3 DEF ToCommit
<1>5. CASE UNCHANGED tree
  BY <1>1, <1>3, <1>4, <1>5, LookKeeps
<1>6. CASE Rebase /\ UNCHANGED remote
  <2>1. /\ TreeOK' /\ CommittedOnce' /\ PublishedIsShared'
        /\ \A i \in DOMAIN local' : local'[i].by \in Saves =>
             \E k \in DOMAIN local : local[k].by = local'[i].by
    BY <1>6, RebaseKeeps
  <2>2. NoneYet'
    <3>1. o1' = o1 /\ o1 \in Saves
      BY <1>1, FirstOperation DEF o1
    <3>2. ToCommit => \A i \in DOMAIN local : local[i].by # o1
      BY DEF IInv, CommitInv, NoneYet
    <3> QED BY <1>1, <1>4, <2>1, <3>1, <3>2 DEF NoneYet
  <2> QED BY <1>1, <1>3, <2>1, <2>2, WorkKeeps
<1> QED BY <1>5, <1>6 DEF Pull

-----------------------------------------------------------------------------
LEMMA InitIInv == Init => IInv
<1> SUFFICES ASSUME Init PROVE IInv
  OBVIOUS
<1>1. mode \in {"push", "commit"} /\ revision = 0 /\ work = Untouched /\ index = Nothing
      /\ stopped = FALSE /\ local = <<>> /\ remote = <<>> /\ ops = <<>> /\ journal = <<>>
      /\ pending = <<>> /\ run = Idle /\ saves = 0
  BY DEF Init
<1>2. <<>> \in Seq(Commit) /\ <<>> \in Seq(Op) /\ <<>> \in Seq(States) /\ <<>> \in Seq(Entry)
      /\ Len(<<>>) = 0 /\ DOMAIN <<>> = {}
  OBVIOUS
<1>3. run \in Place /\ run.at = "idle" /\ ~Running /\ "idle" \in Steps
  BY <1>1, <1>2 DEF Idle, Place, Steps, Running
<1>4. TypeOK
  <2>1. MaxSaves \in Nat /\ MaxConfigs \in Nat
    BY SaveAssumption
  <2>2. revision \in 0..MaxConfigs /\ saves <= MaxSaves /\ work \in Contents
        /\ index \in Contents \union {Nothing, "unmerged"}
    BY <1>1, <2>1 DEF Contents
  <2>3. Len(ops) = saves /\ Len(journal) <= Len(ops)
    BY <1>1
  <2>4. ops \in Seq(Op) /\ journal \in Seq(States) /\ local \in Seq(Commit) /\ remote \in Seq(Commit)
    BY <1>1, <1>2
  <2>5. DOMAIN pending = {}
    BY <1>1, <1>2
  <2>6. mode \in {"push", "commit"} /\ stopped \in BOOLEAN
    BY <1>1
  <2> QED BY Zenon, <1>3, <2>2, <2>3, <2>4, <2>5, <2>6 DEF TypeOK
<1>5. QueueInv
  BY <1>1, <1>2, <1>3 DEF QueueInv
<1>6. CommitInv
  BY <1>1, <1>3 DEF CommitInv, CommittedOnce, PublishedIsShared, NoneYet, ToCommit
<1> QED BY <1>4, <1>5, <1>6 DEF IInv

LEMMA StepIInv == IInv /\ [Next]_vars => IInv'
<1> SUFFICES ASSUME IInv, [Next]_vars PROVE IInv'
  OBVIOUS
<1>1. ASSUME NEW c \in Contents, Save(c) \/ ForeignPush(c) PROVE IInv'
  BY <1>1, SaveKeeps, ForeignPushKeeps
<1>2. ASSUME NEW o \in Saves, Retry(o) PROVE IInv'
  BY <1>2, RetryKeeps
<1>3. CASE Enqueue \/ EnqueueFails \/ Record \/ RecordFails \/ Restart \/ Begin
  BY <1>3, EnqueueKeeps, EnqueueFailsKeeps, RecordKeeps, RecordFailsKeeps, RestartKeeps, BeginKeeps
<1>4. CASE Check \/ StepFails \/ Pull \/ Pulled \/ Hash \/ Add \/ MakeCommit \/ PrePush \/ Push
  BY <1>4, CheckKeeps, StepFailsKeeps, PullKeeps, LooksKeep, AddKeeps, MakeCommitKeeps, PushKeeps
<1>5. CASE HandCommit \/ HandRepair \/ Reconfigure
  BY <1>5, HandCommitKeeps, HandRepairKeeps, ReconfigureKeeps
<1>6. CASE UNCHANGED vars
  <2>1. UNCHANGED <<mode, revision, work, index, stopped, local, remote, ops, journal, pending,
                    run, saves>>
    BY <1>6 DEF vars
  <2>2. TypeOK' /\ QueueInv'
    BY <2>1 DEF IInv, TypeOK, QueueInv, Running, Idle
  <2> QED BY <2>1, <2>2, HistoriesStay DEF IInv, ToCommit
<1> QED BY <1>1, <1>2, <1>3, <1>4, <1>5, <1>6 DEF Next, Runner

\* For any number of saves, commits, crashes and faults.
THEOREM Invariant == Spec => []IInv
  BY InitIInv, StepIInv, PTL DEF Spec

\* Every variable keeps its type: in particular no operation is queued twice,
\* whatever a retry or a restart does.
THEOREM TypeCorrect == Spec => []TypeOK
<1>1. IInv => TypeOK
  BY DEF IInv
<1> QED BY <1>1, Invariant, PTL

\* A save is committed once, on the branch as on the remote, whatever is
\* retried, replayed after a restart, rebased, pushed unheard or done by hand
\* (execute, getExistingOperationCommit, pullBeforeFreshCommit).
THEOREM SavesCommitOnce == Spec => []OneCommitEach
<1>1. IInv => OneCommitEach
  <2> SUFFICES ASSUME IInv, NEW i \in DOMAIN remote, NEW j \in DOMAIN remote,
                      remote[i].by = remote[j].by, remote[i].by \in Saves
               PROVE  i = j
    BY DEF IInv, CommitInv, CommittedOnce, OneCommitEach
  <2> QED BY PublishedPlace
<1> QED BY <1>1, Invariant, PTL

-----------------------------------------------------------------------------
(* What an operation that has come to an end says of the repository.        *)
(* An outcome is recorded in several steps; from the first of them on it is *)
(* the operation's result.  What was true when the executor gave it stays   *)
(* true: the branch and the remote move together only by a pull, which      *)
(* keeps what is there, and the document changes only with another save.    *)

Result(o, e) ==
  \/ o \in DOMAIN journal /\ journal[o] = e
  \/ run.at = "record" /\ pending # <<>> /\ o1 = o /\ Last(run.todo) = e

In(h, c)  == c = Untouched \/ \E i \in DOMAIN h : h[i].holds = c
Has(h, o) == \E i \in DOMAIN h : h[i].by = o

Fulfilled(o, e) ==
  /\ e = "pushed" /\ hands <= 1 => In(remote, ops[o].holds)
  /\ e = "committed-local" => mode = "commit" /\ (hands = 0 => Has(local, o))
  /\ mode = "push" /\ Has(local, o) => Has(remote, o)
  /\ o = Len(ops) /\ hands = 0 => work = Tip(local)
ResultInv == \A o \in Saves, e \in Ends : Result(o, e) => Fulfilled(o, e)

\* The last of what is recorded is the outcome; nothing before it is an end.
Concludes(s, outcome) ==
  /\ s # <<>> /\ Last(s) = outcome
  /\ \A i \in DOMAIN s : i # Len(s) => s[i] \notin Ends

\* What is queued has not ended, and where the runner stands with the first.
TurnInv ==
  /\ \A i \in DOMAIN pending : journal[pending[i].op] \notin Ends
  /\ run.at = "record" => Concludes(run.todo, Last(run.todo))
  /\ run.at = "pull" => mode = "push"
  /\ run.at = "push" /\ hands = 0 => HeadHolds
  /\ run.at = "push" /\ hands <= 1 => In(local, ops[o1].holds)

\* Where the commits of the branch come from.
OriginInv ==
  /\ \A i \in DOMAIN local : local[i].by \in Saves => local[i].by \in DOMAIN journal
  /\ hands = 0 => ~Has(local, Hand) /\ ~Has(remote, Hand)
  /\ \A i \in DOMAIN local : local[i].by = Other =>
       i \in DOMAIN remote /\ \A j \in 1..i : local[j] = remote[j]

\* The document is the last save, or what HEAD has.
WorkInv == hands = 0 /\ Len(ops) > 0 => work \in {ops[Len(ops)].holds, Tip(local)}

EndInv == hands \in Nat /\ TurnInv /\ OriginInv /\ WorkInv /\ ResultInv

LEMMA TipIsIn ==
  ASSUME NEW h \in Seq(Commit)
  PROVE  In(h, Tip(h))
<1>1. h # <<>> => Len(h) \in DOMAIN h
  OBVIOUS
<1> QED BY <1>1 DEF In, Tip, Last

LEMMA TipOnTop ==
  ASSUME NEW h \in Seq(Commit), NEW c \in Commit
  PROVE  /\ Tip(Append(h, c)) = c.holds
         /\ In(Append(h, c), c.holds)
         /\ \A d : In(h, d) => In(Append(h, c), d)
         /\ \A o : Has(Append(h, c), o) <=> Has(h, o) \/ c.by = o
<1> DEFINE g == Append(h, c)
<1>1. /\ g \in Seq(Commit) /\ Len(g) = Len(h) + 1 /\ g # <<>>
      /\ \A i \in 1..Len(h) : g[i] = h[i]
      /\ g[Len(h) + 1] = c
      /\ DOMAIN g = 1..(Len(h) + 1) /\ DOMAIN h = 1..Len(h) /\ Len(h) \in Nat
  BY AppendProperties
<1> HIDE DEF g
<1>2. \A i \in DOMAIN g : i \in DOMAIN h \/ i = Len(h) + 1
  BY <1>1
<1>3. Len(h) + 1 \in DOMAIN g /\ \A i \in DOMAIN h : i \in DOMAIN g /\ g[i] = h[i]
  BY <1>1
<1>4. Tip(g) = c.holds
  BY <1>1 DEF Tip, Last
<1>5. In(g, c.holds) /\ (\A d : In(h, d) => In(g, d))
  BY <1>1, <1>3 DEF In
<1>6. \A o : Has(g, o) <=> Has(h, o) \/ c.by = o
  BY <1>1, <1>2, <1>3 DEF Has
<1> QED BY <1>4, <1>5, <1>6 DEF g

LEMMA ConcludesAfter ==
  ASSUME NEW s \in Seq(States), NEW t \in Seq(States), NEW outcome,
         \A i \in DOMAIN s : s[i] \notin Ends, Concludes(t, outcome)
  PROVE  Concludes(s \o t, outcome)
<1>1. /\ s \o t \in Seq(States) /\ Len(s \o t) = Len(s) + Len(t)
      /\ Len(s) \in Nat /\ Len(t) \in Nat /\ Len(t) # 0
      /\ \A i \in 1..(Len(s) + Len(t)) :
           (s \o t)[i] = IF i <= Len(s) THEN s[i] ELSE t[i - Len(s)]
  BY ConcatProperties, EmptySeq DEF Concludes
<1>2. (s \o t)[Len(s) + Len(t)] = t[Len(t)]
  BY <1>1
<1>3. ASSUME NEW i \in 1..(Len(s) + Len(t)), i # Len(s) + Len(t)
      PROVE  (s \o t)[i] \notin Ends
  <2>1. CASE i <= Len(s)
    BY <1>1, <2>1
  <2>2. CASE ~(i <= Len(s))
    <3>1. i - Len(s) \in 1..Len(t) /\ i - Len(s) # Len(t)
      BY <1>1, <1>3, <2>2
    <3>2. (s \o t)[i] = t[i - Len(s)]
      BY <1>1, <2>2
    <3>3. DOMAIN t = 1..Len(t)
      OBVIOUS
    <3> QED BY <3>1, <3>2, <3>3 DEF Concludes
  <2> QED BY <2>1, <2>2
<1> QED BY <1>1, <1>2, <1>3, EmptySeq DEF Concludes, Last

LEMMA GivesResult ==
  ASSUME run \in Place, NEW outcome \in Ends \union Waits, Gives(outcome)
  PROVE  Concludes(run'.todo, outcome)
<1> DEFINE W(s) == IF Resuming THEN <<>> ELSE s
<1>1. run'.todo = Records(outcome)
  BY DEF Gives, Place
<1>2. Records(outcome) \in {<<outcome>>, W(<<"committing">>) \o <<outcome>>,
                           W(<<"committing", "committed">>) \o <<outcome>>,
                           W(<<"committing", "committed">>) \o <<"pushing", outcome>>}
  BY Zenon DEF Records
<1>3. "committing" \notin Ends /\ "committed" \notin Ends /\ "pushing" \notin Ends
  BY DEF Ends
<1>4. /\ {outcome, "pushing", "committing", "committed"} \subseteq States
  BY DEF States
<1> HIDE DEF Ends, States
<1>5. /\ <<outcome>> \in Seq(States) /\ <<"pushing", outcome>> \in Seq(States)
      /\ Concludes(<<outcome>>, outcome) /\ Concludes(<<"pushing", outcome>>, outcome)
  BY <1>3, <1>4 DEF Concludes, Last
<1>6. /\ W(<<"committing">>) \in Seq(States) /\ W(<<"committing", "committed">>) \in Seq(States)
      /\ \A i \in DOMAIN W(<<"committing">>) : W(<<"committing">>)[i] \notin Ends
      /\ \A i \in DOMAIN W(<<"committing", "committed">>) :
           W(<<"committing", "committed">>)[i] \notin Ends
  BY <1>3, <1>4
<1> HIDE DEF W
<1> QED BY <1>1, <1>2, <1>5, <1>6, ConcludesAfter

\* An operation with a result is in the journal; one the executor is at has none.
LEMMA ResultsOf ==
  ASSUME IInv, TurnInv
  PROVE  /\ \A o, e : Result(o, e) => o \in DOMAIN journal
         /\ pending # <<>> /\ run.at # "record" => \A e \in Ends : ~Result(o1, e)
<1>1. pending # <<>> => o1 \in DOMAIN journal /\ journal[o1] \notin Ends
  BY FirstOperation DEF TurnInv, o1
<1> QED BY <1>1 DEF Result

\* What a step does to the results when it leaves the queue alone.
LEMMA ResultsKeep ==
  ASSUME IInv, ResultInv, UNCHANGED <<ops, journal, pending>>,
         \A o \in Saves, e \in Ends : Result(o, e) /\ Fulfilled(o, e) => Fulfilled(o, e)',
         \/ UNCHANGED run
         \/ run'.at # "record"
         \/ \E outcome \in Ends \union Waits :
              /\ Gives(outcome)
              /\ \A o \in Saves : pending # <<>> /\ o = o1 /\ outcome \in Ends => Fulfilled(o, outcome)'
  PROVE  ResultInv'
<1> SUFFICES ASSUME NEW o \in Saves, NEW e \in Ends, Result(o, e)' PROVE Fulfilled(o, e)'
  BY DEF ResultInv
<1>1. o1' = o1
  BY DEF o1
<1>2. CASE Result(o, e)
  BY <1>2 DEF ResultInv
<1>3. CASE ~Result(o, e)
  <2>1. run'.at = "record" /\ pending # <<>> /\ o1 = o /\ Last(run'.todo) = e /\ ~UNCHANGED run
    BY <1>1, <1>3 DEF Result
  <2>2. PICK outcome \in Ends \union Waits :
          /\ Gives(outcome)
          /\ pending # <<>> /\ o = o1 /\ outcome \in Ends => Fulfilled(o, outcome)'
    BY <2>1
  <2>3. outcome = e
    BY <2>1, <2>2, GivesResult DEF IInv, QueueInv, Concludes
  <2> QED BY <2>1, <2>2, <2>3
<1> QED BY <1>2, <1>3

-----------------------------------------------------------------------------
(* The queue's steps give no results.                                       *)

LEMMA QueueEnds ==
  ASSUME IInv, EndInv, UNCHANGED <<mode, local, remote, hands>>,
         \A o \in DOMAIN journal : o \in DOMAIN journal' /\ ops'[o].holds = ops[o].holds,
         (UNCHANGED work /\ Len(ops') = Len(ops)) \/ Len(ops') > Len(ops),
         \A o \in Saves, e \in Ends : Result(o, e)' => Result(o, e),
         TurnInv', WorkInv'
  PROVE  EndInv'
<1>1. OriginInv'
  BY DEF EndInv, OriginInv, Has
<1>2. ResultInv'
  <2> SUFFICES ASSUME NEW o \in Saves, NEW e \in Ends, Result(o, e)' PROVE Fulfilled(o, e)'
    BY DEF ResultInv
  <2>1. Result(o, e) /\ Fulfilled(o, e)
    BY DEF EndInv, ResultInv
  <2>2. o \in DOMAIN journal /\ ops'[o].holds = ops[o].holds
    BY <2>1, ResultsOf DEF EndInv
  <2>3. Len(ops') > Len(ops) => o # Len(ops')
    BY <2>2 DEF IInv, TypeOK
  <2> QED BY <2>1, <2>2, <2>3 DEF Fulfilled, In, Has, Tip
<1> QED BY <1>1, <1>2 DEF EndInv

\* The runner stands while operations are added after the first.
LEMMA TurnStands ==
  ASSUME IInv, TurnInv, UNCHANGED <<mode, local, hands, run>>,
         pending # <<>> => pending' # <<>> /\ pending'[1] = pending[1],
         \A o \in DOMAIN journal : ops'[o].holds = ops[o].holds,
         \A i \in DOMAIN pending' : journal'[pending'[i].op] \notin Ends
  PROVE  TurnInv'
<1>1. Running => pending # <<>>
  BY DEF IInv, TypeOK
<1>2. pending # <<>> => o1' = o1 /\ ops'[o1].holds = ops[o1].holds
  BY FirstOperation DEF o1
<1>3. run.at # "idle" => Running
  BY DEF Running, Idle
<1> QED BY <1>1, <1>2, <1>3 DEF TurnInv, HeadHolds, In, Tip

LEMMA ResultsStand ==
  ASSUME IInv, UNCHANGED run,
         pending # <<>> => pending' # <<>> /\ pending'[1] = pending[1],
         \A o \in DOMAIN journal' : (o \in DOMAIN journal /\ journal'[o] = journal[o]) \/ journal'[o] \notin Ends
  PROVE  \A o \in Saves, e \in Ends : Result(o, e)' => Result(o, e)
<1>1. run.at = "record" => pending # <<>>
  BY DEF IInv, TypeOK, Running, Idle
<1> QED BY <1>1 DEF Result, o1

LEMMA SaveEnds ==
  ASSUME IInv, EndInv, NEW c \in Contents, Save(c)
  PROVE  EndInv'
<1>1. /\ UNCHANGED <<mode, local, remote, hands, journal, pending, run>> /\ work' = c
      /\ ops' = Append(ops, [holds |-> c, revision |-> 0])
  BY DEF Save, git
<1>2. /\ Len(ops') = Len(ops) + 1 /\ Len(ops) \in Nat /\ ops'[Len(ops')].holds = c
      /\ \A o \in DOMAIN ops : ops'[o] = ops[o]
  <2>1. [holds |-> c, revision |-> 0] \in Op
    BY SaveAssumption DEF Op
  <2> QED BY <1>1, <2>1, AppendProperties DEF IInv, TypeOK
<1>3. \A o \in DOMAIN journal : ops'[o].holds = ops[o].holds
  BY <1>2 DEF IInv, TypeOK
<1>4. TurnInv'
  BY <1>1, <1>3, TurnStands DEF EndInv, TurnInv
<1>5. WorkInv'
  BY <1>1, <1>2 DEF WorkInv
<1>6. \A o \in Saves, e \in Ends : Result(o, e)' => Result(o, e)
  BY <1>1, ResultsStand
<1>7. Len(ops') > Len(ops)
  BY <1>2
<1>8. \A o \in DOMAIN journal : o \in DOMAIN journal' /\ ops'[o].holds = ops[o].holds
  BY <1>1, <1>3
<1> QED BY <1>1, <1>4, <1>5, <1>6, <1>7, <1>8, QueueEnds

LEMMA EnqueueEnds ==
  ASSUME IInv, IInv', EndInv, Enqueue
  PROVE  EndInv'
<1> DEFINE k == Len(journal')
<1>1. /\ UNCHANGED <<mode, local, remote, hands, work, run>>
      /\ journal' = Append(journal, "queued")
      /\ ops' = [ops EXCEPT ![k].revision = revision]
      /\ pending' = Queued(k, "queued")
  BY DEF Enqueue, user, tree
<1>2. /\ k = Len(journal) + 1 /\ journal'[k] = "queued" /\ k \in Saves /\ k \notin DOMAIN journal
      /\ DOMAIN journal' = 1..k /\ DOMAIN journal = 1..Len(journal)
      /\ \A o \in DOMAIN journal : journal'[o] = journal[o]
      /\ "queued" \in States /\ "queued" \notin Ends
  <2>1. "queued" \in States /\ "queued" \notin Ends
    BY DEF States, Ends
  <2>2. k = Len(journal) + 1 /\ journal'[k] = "queued" /\ journal' \in Seq(States)
        /\ \A o \in 1..Len(journal) : journal'[o] = journal[o]
    BY <1>1, <2>1, AppendProperties DEF IInv, TypeOK
  <2>3. k \in Saves
    BY SMTT(90), <2>2, Ranges DEF Enqueue, IInv, TypeOK, Saves
  <2>4. DOMAIN journal' = 1..k /\ DOMAIN journal = 1..Len(journal) /\ Len(journal) \in Nat
    BY <2>2, Ranges DEF IInv, TypeOK
  <2> HIDE DEF k
  <2>5. k \notin DOMAIN journal
    BY <2>2, <2>4 DEF k
  <2> QED BY <2>1, <2>2, <2>3, <2>4, <2>5 DEF k
<1>3. Len(ops') = Len(ops) /\ \A o \in DOMAIN ops : ops'[o].holds = ops[o].holds
  <2>1. \A o \in DOMAIN ops : ops[o] \in Op
    BY SMTT(90) DEF IInv, TypeOK
  <2>2. ops \in Seq(Op) /\ ops' \in Seq(Op)
    BY DEF IInv, TypeOK
  <2> HIDE DEF k
  <2>3. DOMAIN ops' = DOMAIN ops /\ \A o \in DOMAIN ops : ops'[o].holds = ops[o].holds
    BY <1>1, <2>1 DEF Op
  <2> QED BY <2>2, <2>3
<1>4. \A i \in DOMAIN pending : pending[i].op # k
  BY <1>2 DEF IInv, TypeOK
<1>5. /\ pending' # <<>> /\ (pending # <<>> => pending'[1] = pending[1])
      /\ \A i \in DOMAIN pending' : (i \in DOMAIN pending /\ pending'[i] = pending[i])
                                    \/ pending'[i].op = k
  <2> DEFINE e == [op |-> k, state |-> "queued"]
  <2> HIDE DEF k
  <2>1. pending \in Seq(Entry) /\ k \in Saves /\ "queued" \in States
        /\ \A i \in DOMAIN pending : pending[i].op # k
    BY <1>2, <1>4 DEF IInv, QueueInv
  <2>2. /\ pending' # <<>> /\ (pending # <<>> => pending'[1] = pending[1])
        /\ \A i \in DOMAIN pending' : (i \in DOMAIN pending /\ pending'[i] = pending[i])
                                      \/ pending'[i] = e
    BY <1>1, <2>1, QueuedLast
  <2>3. e.op = k
    OBVIOUS
  <2> HIDE DEF e
  <2> QED BY <2>2, <2>3
<1>6. \A i \in DOMAIN pending' : journal'[pending'[i].op] \notin Ends
  <2>1. \A i \in DOMAIN pending : pending[i].op \in DOMAIN journal /\ journal[pending[i].op] \notin Ends
    BY DEF IInv, TypeOK, EndInv, TurnInv
  <2> QED BY <1>2, <1>5, <2>1
<1>7. \A o \in DOMAIN journal : o \in DOMAIN ops /\ o \in DOMAIN journal'
  BY SMTT(90), <1>2 DEF IInv, TypeOK
<1>8. TurnInv'
  BY <1>1, <1>3, <1>5, <1>6, <1>7, TurnStands DEF EndInv
<1>9. WorkInv'
  <2>1. Len(ops) > 0 => Len(ops) \in DOMAIN ops
    BY SMTT(90) DEF IInv, TypeOK
  <2> QED BY ZenonT(90), <1>1, <1>3, <2>1 DEF EndInv, WorkInv, Tip
<1>10. \A o \in Saves, e \in Ends : Result(o, e)' => Result(o, e)
  <2>1. \A o \in DOMAIN journal' : (o \in DOMAIN journal /\ journal'[o] = journal[o]) \/ journal'[o] \notin Ends
    BY <1>2
  <2> QED BY <1>1, <1>5, <2>1, ResultsStand
<1> HIDE DEF k
<1> QED BY <1>1, <1>3, <1>7, <1>8, <1>9, <1>10, QueueEnds

LEMMA EnqueueFailsEnds ==
  ASSUME IInv, EndInv, EnqueueFails
  PROVE  EndInv'
<1>1. UNCHANGED <<mode, local, remote, hands, work, ops, pending, run>>
  BY DEF EnqueueFails, user, tree
<1>2. Lost \notin Ends
  BY DEF Lost, Ends
<1>3. \A i \in DOMAIN pending' : journal'[pending'[i].op] \notin Ends
  BY <1>1, LostOne DEF IInv, TypeOK, EndInv, TurnInv
<1>4. TurnInv'
  BY <1>1, <1>3, TurnStands DEF EndInv
<1>5. WorkInv'
  BY <1>1 DEF EndInv, WorkInv, Tip
<1>6. \A o \in Saves, e \in Ends : Result(o, e)' => Result(o, e)
  <2>1. \A o \in DOMAIN journal' : (o \in DOMAIN journal /\ journal'[o] = journal[o]) \/ journal'[o] \notin Ends
    BY <1>2, LostOne
  <2> QED BY <1>1, <2>1, ResultsStand
<1>7. \A o \in DOMAIN journal : o \in DOMAIN journal' /\ ops'[o].holds = ops[o].holds
  BY <1>1, LostOne
<1> QED BY <1>1, <1>4, <1>5, <1>6, <1>7, QueueEnds

LEMMA RetryEnds ==
  ASSUME IInv, EndInv, NEW o \in Saves, Retry(o)
  PROVE  EndInv'
<1>1. /\ UNCHANGED <<mode, local, remote, hands, work, ops, journal, run>>
      /\ pending' = Queued(o, journal[o]) /\ o \in DOMAIN journal /\ journal[o] \in States
      /\ journal[o] \notin Ends /\ \A i \in DOMAIN pending : pending[i].op # o
  BY DEF Retry, AlreadyPending, IInv, TypeOK, user, tree, Waits, Ends
<1>2. /\ pending' # <<>> /\ (pending # <<>> => pending'[1] = pending[1])
      /\ \A i \in DOMAIN pending' : (i \in DOMAIN pending /\ pending'[i] = pending[i])
                                    \/ pending'[i].op = o
  BY <1>1, QueuedLast DEF IInv, QueueInv
<1>3. TurnInv'
  BY <1>1, <1>2, TurnStands DEF EndInv, TurnInv
<1>4. WorkInv'
  BY <1>1 DEF EndInv, WorkInv, Tip
<1>5. \A i \in Saves, e \in Ends : Result(i, e)' => Result(i, e)
  BY <1>1, <1>2, ResultsStand
<1> QED BY <1>1, <1>3, <1>4, <1>5, QueueEnds

LEMMA BeginEnds ==
  ASSUME IInv, EndInv, Begin
  PROVE  EndInv'
<1>1. /\ UNCHANGED <<mode, local, remote, hands, work, ops, pending>> /\ pending # <<>>
      /\ journal' = [journal EXCEPT ![o1] = "validating"]
      /\ run' = [run EXCEPT !.at = "check"] /\ run \in Place
  BY DEF Begin, Goes, user, tree, IInv, QueueInv
<1>2. DOMAIN journal' = DOMAIN journal /\ \A o \in DOMAIN journal :
        journal'[o] = journal[o] \/ journal'[o] = "validating"
  BY <1>1, FirstOperation
<1>3. "validating" \notin Ends /\ run'.at = "check"
  BY <1>1 DEF Ends, Place
<1>4. \A i \in DOMAIN pending : journal'[pending[i].op] \notin Ends
  BY <1>2, <1>3 DEF EndInv, TurnInv, IInv, TypeOK
<1>5. TurnInv'
  BY <1>1, <1>3, <1>4 DEF TurnInv
<1>6. WorkInv'
  BY <1>1 DEF EndInv, WorkInv, Tip
<1>7. \A o \in Saves, e \in Ends : Result(o, e)' => Result(o, e)
  BY <1>2, <1>3 DEF Result
<1> QED BY <1>1, <1>2, <1>5, <1>6, <1>7, QueueEnds

LEMMA ConcludesTail ==
  ASSUME NEW s \in Seq(States), NEW outcome, Concludes(s, outcome)
  PROVE  IF Len(s) = 1 THEN Head(s) = outcome
         ELSE Head(s) \notin Ends /\ Concludes(Tail(s), outcome)
<1>1. Len(s) \in Nat /\ Len(s) # 0 /\ DOMAIN s = 1..Len(s) /\ Head(s) = s[1]
  BY EmptySeq DEF Concludes
<1>2. s[Len(s)] = outcome
  BY DEF Concludes, Last
<1>3. ASSUME Len(s) # 1 PROVE Head(s) \notin Ends /\ Concludes(Tail(s), outcome)
  <2>1. /\ Tail(s) \in Seq(States) /\ Len(Tail(s)) = Len(s) - 1 /\ DOMAIN Tail(s) = 1..(Len(s) - 1)
        /\ \A i \in 1..(Len(s) - 1) : Tail(s)[i] = s[i + 1]
    BY <1>1, HeadTailProperties, EmptySeq
  <2>2. 1 \in DOMAIN s /\ 1 # Len(s) /\ Len(s) - 1 \in 1..(Len(s) - 1) /\ Len(s) - 1 # 0
    BY <1>1, <1>3
  <2>3. Tail(s)[Len(s) - 1] = outcome
    BY <1>1, <1>2, <2>1, <2>2
  <2>4. Tail(s) # <<>>
    <3>1. Len(Tail(s)) # 0
      BY <2>1, <2>2
    <3> QED BY Zenon, <3>1, EmptySeq
  <2>5. ASSUME NEW i \in 1..(Len(s) - 1), i # Len(s) - 1
        PROVE  i + 1 \in DOMAIN s /\ i + 1 # Len(s)
    <3> DEFINE n == Len(s)
    <3>1. n \in Nat /\ i \in 1..(n - 1) /\ i # n - 1
      BY ZenonT(90), <1>1, <2>5
    <3> HIDE DEF n
    <3>2. i + 1 \in 1..n /\ i + 1 # n
      BY <3>1
    <3>3. DOMAIN s = 1..n
      BY <1>1 DEF n
    <3> QED BY ZenonT(90), <3>2, <3>3 DEF n
  <2> QED BY <2>1, <2>2, <2>3, <2>4, <2>5, <1>1 DEF Concludes, Last
<1> QED BY <1>1, <1>2, <1>3

LEMMA RecordEnds ==
  ASSUME IInv, IInv', EndInv, Record
  PROVE  EndInv'
<1>1. /\ UNCHANGED <<mode, local, remote, hands, work, ops>>
      /\ run \in Place /\ run.at = "record" /\ run.todo \in Seq(States) /\ pending # <<>>
      /\ journal' = [journal EXCEPT ![o1] = Head(run.todo)]
  BY DEF Record, At, user, tree, IInv, QueueInv, TypeOK, Place
<1>2. /\ 1 \in DOMAIN pending /\ o1 \in DOMAIN journal /\ DOMAIN journal' = DOMAIN journal
      /\ journal'[o1] = Head(run.todo) /\ \A o \in DOMAIN journal : o # o1 => journal'[o] = journal[o]
  BY <1>1, FirstOperation
<1>3. Concludes(run.todo, Last(run.todo))
  BY <1>1 DEF EndInv, TurnInv
<1>4. \A i \in DOMAIN pending : /\ pending[i].op \in DOMAIN journal /\ journal[pending[i].op] \notin Ends
                                /\ i # 1 => pending[i].op # o1
  BY <1>2 DEF EndInv, TurnInv, IInv, TypeOK, o1
<1>5. CASE Len(run.todo) = 1
  <2>1. run' = Idle /\ pending' = Tail(pending) /\ Head(run.todo) = Last(run.todo)
    BY <1>1, <1>3, <1>5, ConcludesTail DEF Record
  <2>2. \A i \in DOMAIN pending' : i + 1 \in DOMAIN pending /\ i + 1 # 1 /\ pending'[i] = pending[i + 1]
    <3>1. pending \in Seq(Entry) /\ pending' \in Seq(Entry) /\ Len(pending') = Len(pending) - 1
          /\ \A i \in 1..Len(pending') : pending'[i] = pending[i + 1]
      BY <1>1, <2>1, HeadTailProperties DEF IInv, QueueInv
    <3> QED BY <3>1
  <2>3. run'.at = "idle"
    BY <2>1 DEF Idle
  <2>4. \A i \in DOMAIN pending' : journal'[pending'[i].op] \notin Ends
    BY <1>2, <1>4, <2>2
  <2>5. TurnInv'
    BY <2>3, <2>4 DEF TurnInv
  <2>6. \A o \in Saves, e \in Ends : Result(o, e)' => Result(o, e)
    BY <1>1, <1>2, <2>1, <2>3 DEF Result
  <2>7. WorkInv'
    BY <1>1 DEF EndInv, WorkInv, Tip
  <2> QED BY <1>1, <1>2, <2>5, <2>6, <2>7, QueueEnds
<1>6. CASE Len(run.todo) # 1
  <2>1. /\ run' = [run EXCEPT !.todo = Tail(@)] /\ pending' = pending
        /\ Head(run.todo) \notin Ends /\ Concludes(Tail(run.todo), Last(run.todo))
    BY <1>1, <1>3, <1>6, ConcludesTail DEF Record
  <2>2. run'.at = "record" /\ run'.todo = Tail(run.todo) /\ Last(run'.todo) = Last(run.todo)
    BY <1>1, <2>1 DEF Place, Concludes
  <2>3. \A i \in DOMAIN pending' : journal'[pending'[i].op] \notin Ends
    BY <1>2, <1>4, <2>1
  <2>4. TurnInv'
    BY <2>1, <2>2, <2>3 DEF TurnInv
  <2>5. \A o \in Saves, e \in Ends : Result(o, e)' => Result(o, e)
    BY <1>1, <1>2, <2>1, <2>2 DEF Result, o1
  <2>6. WorkInv'
    BY <1>1 DEF EndInv, WorkInv, Tip
  <2> QED BY <1>1, <1>2, <2>4, <2>5, <2>6, QueueEnds
<1> QED BY <1>5, <1>6

\* The turn is broken off, and nothing that has ended is queued.
LEMMA BreaksOffEnds ==
  ASSUME IInv, EndInv, UNCHANGED <<mode, local, remote, hands, work, ops, journal>>, run' = Idle,
         \A i \in DOMAIN pending' : journal[pending'[i].op] \notin Ends
  PROVE  EndInv'
<1>1. run'.at = "idle"
  BY DEF Idle
<1>2. TurnInv' /\ WorkInv'
  BY <1>1 DEF EndInv, TurnInv, WorkInv, Tip
<1>3. \A o \in Saves, e \in Ends : Result(o, e)' => Result(o, e)
  BY <1>1 DEF Result
<1> QED BY <1>2, <1>3, QueueEnds

LEMMA RecordFailsEnds ==
  ASSUME IInv, EndInv, RecordFails
  PROVE  EndInv'
BY BreaksOffEnds DEF RecordFails, user, tree, EndInv, TurnInv

LEMMA RestartEnds ==
  ASSUME IInv, EndInv, Restart
  PROVE  EndInv'
<1> DEFINE open == {o \in DOMAIN journal : isNonTerminal(journal[o])}
<1>1. PICK q \in [1..Cardinality(open) -> open] :
        pending' = [i \in DOMAIN q |-> [op |-> q[i], state |-> journal[q[i]]]]
  BY DEF Restart
<1>2. \A i \in DOMAIN pending' : i \in DOMAIN q /\ pending'[i].op = q[i] /\ q[i] \in open
  BY <1>1
<1>3. \A i \in DOMAIN pending' : journal[pending'[i].op] \notin Ends
  BY <1>2 DEF isNonTerminal
<1>4. UNCHANGED <<mode, local, remote, hands, work, ops, journal>> /\ run' = Idle
  BY DEF Restart, user, tree
<1> QED BY <1>3, <1>4, BreaksOffEnds

-----------------------------------------------------------------------------
(* The executor, and what others and the user do.                           *)

\* A step that leaves the tree alone.
LEMMA LookEnds ==
  ASSUME IInv, EndInv, UNCHANGED <<mode, hands, work, local, remote, ops, journal, pending>>,
         TurnInv',
         \/ UNCHANGED run
         \/ run'.at # "record"
         \/ \E outcome \in Ends \union Waits :
              /\ Gives(outcome)
              /\ pending # <<>> /\ outcome \in Ends => Fulfilled(o1, outcome)
  PROVE  EndInv'
<1>1. \A o, e : Fulfilled(o, e)' <=> Fulfilled(o, e)
  BY DEF Fulfilled, In, Has, Tip
<1>2. ResultInv'
  BY <1>1, ResultsKeep DEF EndInv
<1>3. OriginInv' /\ WorkInv'
  BY DEF EndInv, OriginInv, WorkInv, Has, Tip
<1> QED BY <1>2, <1>3 DEF EndInv

\* Where the runner stands after a step that leaves the queue alone.
LEMMA TurnGoes ==
  ASSUME IInv, EndInv, UNCHANGED <<journal, pending>>,
         \/ /\ run'.at \notin {"record", "push"}
            /\ run'.at = "pull" => mode' = "push"
         \/ \E outcome \in Ends \union Waits : Gives(outcome)
  PROVE  TurnInv'
<1>1. CASE \E outcome \in Ends \union Waits : Gives(outcome)
  <2>1. PICK outcome \in Ends \union Waits : Gives(outcome)
    BY <1>1
  <2>2. run'.at = "record" /\ Concludes(run'.todo, outcome)
    BY <2>1, GivesPlace, GivesResult DEF IInv, QueueInv
  <2> QED BY <2>2 DEF EndInv, TurnInv, Concludes
<1>2. CASE run'.at \notin {"record", "push"} /\ (run'.at = "pull" => mode' = "push")
  BY <1>2 DEF EndInv, TurnInv
<1> QED BY <1>1, <1>2

\* What HEAD holds of the last save, the document holds.
LEMMA HeadIsWork ==
  ASSUME IInv, EndInv, pending # <<>>, HeadHolds, o1 = Len(ops), hands = 0
  PROVE  work = Tip(local)
<1>1. Len(ops) > 0
  BY FirstOperation DEF IInv, TypeOK, Saves
<1> QED BY <1>1 DEF EndInv, WorkInv, HeadHolds

LEMMA CheckEnds ==
  ASSUME IInv, EndInv, Check
  PROVE  EndInv'
<1>1. /\ UNCHANGED <<mode, hands, work, local, remote, ops, journal, pending>>
      /\ run \in Place /\ pending # <<>> /\ mode \in {"push", "commit"}
  BY DEF Check, user, tree, At, IInv, QueueInv, TypeOK
<1>2. \/ \E outcome \in Waits : Gives(outcome)
      \/ Gives("committed-local") /\ Committed /\ HeadHolds /\ mode = "commit"
      \/ Gives("no-changes") /\ ~Committed /\ work = Tip(local)
      \/ mode = "push" /\ \E fresh \in BOOLEAN : PullThen(fresh)
      \/ Goes("hash")
  <2>1. "blocked" \in Waits
    BY DEF Waits
  <2> QED BY <1>1, <2>1 DEF Check
<1>3. CASE \E outcome \in Waits : Gives(outcome)
  <2>1. Waits \intersect Ends = {}
    BY DEF Waits, Ends
  <2>2. \E outcome \in Ends \union Waits : Gives(outcome) /\ outcome \notin Ends
    BY <1>3, <2>1
  <2> QED BY <1>1, <2>2, TurnGoes, LookEnds
<1>4. CASE Gives("committed-local") /\ Committed /\ HeadHolds /\ mode = "commit"
  <2>1. Fulfilled(o1, "committed-local")
    BY <1>1, <1>4, HeadIsWork DEF Fulfilled, Has, Committed
  <2>2. "committed-local" \in Ends \union Waits
    BY DEF Ends
  <2> QED BY <1>1, <1>4, <2>1, <2>2, TurnGoes, LookEnds
<1>5. CASE Gives("no-changes") /\ ~Committed /\ work = Tip(local)
  <2>1. Fulfilled(o1, "no-changes")
    BY <1>1, <1>5 DEF Fulfilled, Has, Committed
  <2>2. "no-changes" \in Ends \union Waits
    BY DEF Ends
  <2> QED BY <1>1, <1>5, <2>1, <2>2, TurnGoes, LookEnds
<1>6. CASE mode = "push" /\ \E fresh \in BOOLEAN : PullThen(fresh)
  <2>1. run'.at = "pull" /\ mode' = "push"
    BY <1>1, <1>6 DEF PullThen, Place
  <2>2. run'.at \notin {"record", "push"}
    BY <2>1
  <2>3. TurnInv'
    BY <1>1, <2>1, <2>2, TurnGoes
  <2> QED BY <1>1, <2>2, <2>3, LookEnds
<1>7. CASE Goes("hash")
  <2>1. run'.at = "hash"
    BY <1>1, <1>7, GoesPlace DEF Steps
  <2>2. TurnInv'
    BY <1>1, <2>1, TurnGoes
  <2> QED BY <1>1, <2>1, <2>2, LookEnds
<1> QED BY <1>2, <1>3, <1>4, <1>5, <1>6, <1>7

LEMMA BlockedEnds ==
  ASSUME IInv, EndInv, UNCHANGED <<mode, hands, work, local, remote, ops, journal, pending>>,
         NEW outcome \in Waits, Gives(outcome)
  PROVE  EndInv'
<1>1. outcome \in Ends \union Waits /\ outcome \notin Ends
  BY DEF Waits, Ends
<1> QED BY <1>1, TurnGoes, LookEnds

LEMMA StepFailsEnds ==
  ASSUME IInv, EndInv, StepFails
  PROVE  EndInv'
<1>1. UNCHANGED <<mode, hands, work, local, remote, ops, journal, pending>>
  BY DEF StepFails, user, tree
<1>2. PICK outcome \in {"failed", "push-pending"} : Gives(outcome)
  BY DEF StepFails
<1>3. outcome \in Waits
  BY DEF Waits
<1> QED BY <1>1, <1>2, <1>3, BlockedEnds

LEMMA LooksEnd ==
  ASSUME IInv, EndInv, Pulled \/ Hash \/ Add \/ PrePush
  PROVE  EndInv'
<1>1. /\ UNCHANGED <<mode, hands, work, local, remote, ops, journal, pending>>
      /\ run \in Place /\ pending # <<>>
  BY DEF Pulled, Hash, Add, PrePush, user, tree, At, IInv, QueueInv, TypeOK
<1>2. \/ Gives("blocked") \/ Gives("failed")
      \/ \E step \in {"hash", "prepush", "add", "commit"} : Goes(step)
      \/ Goes("push") /\ HeadHolds
  BY DEF Pulled, Hash, Add, PrePush, HeadToPush
<1>3. CASE Gives("blocked") \/ Gives("failed")
  BY <1>1, <1>3, BlockedEnds DEF Waits
<1>4. CASE \E step \in {"hash", "prepush", "add", "commit"} : Goes(step)
  <2>1. run'.at \in {"hash", "prepush", "add", "commit"}
    BY <1>1, <1>4, GoesPlace DEF Steps
  <2>2. TurnInv'
    BY <1>1, <2>1, TurnGoes
  <2> QED BY <1>1, <2>1, <2>2, LookEnds
<1>5. CASE Goes("push") /\ HeadHolds
  <2>1. run'.at = "push" /\ In(local, ops[o1].holds)
    <3>1. local \in Seq(Commit)
      BY DEF IInv, TypeOK
    <3> QED BY <1>1, <1>5, <3>1, GoesPlace, TipIsIn DEF Steps, HeadHolds
  <2>2. TurnInv'
    BY <1>1, <1>5, <2>1 DEF EndInv, TurnInv, HeadHolds, In, Tip, o1
  <2> QED BY <1>1, <2>1, <2>2, LookEnds
<1> QED BY <1>2, <1>3, <1>4, <1>5

LEMMA MakeCommitEnds ==
  ASSUME IInv, EndInv, MakeCommit
  PROVE  EndInv'
<1>1. /\ UNCHANGED <<mode, hands, work, remote, ops, journal, pending>>
      /\ run \in Place /\ run.at = "commit" /\ pending # <<>> /\ local \in Seq(Commit)
      /\ o1 \in DOMAIN journal /\ o1 \in Saves /\ o1 # Other /\ o1 # Hand
      /\ \A e \in Ends : ~Result(o1, e)
  BY FirstOperation, ResultsOf DEF MakeCommit, user, At, IInv, QueueInv, TypeOK, EndInv
<1>2. CASE UNCHANGED local /\ Gives("failed")
  BY <1>1, <1>2, BlockedEnds DEF Waits
<1>3. CASE /\ local' = Append(local, [by |-> o1, holds |-> work])
           /\ \/ mode = "commit" /\ Gives("committed-local")
              \/ Goes("prepush")
              \/ \E outcome \in Waits : Gives(outcome)
  <2> DEFINE c == [by |-> o1, holds |-> work]
  <2>1. c \in Commit /\ c.by = o1 /\ c.holds = work /\ local' = Append(local, c)
    BY <1>1, <1>3, Ranges DEF Commit, IInv, TypeOK
  <2> HIDE DEF c
  <2>2. Tip(local') = work /\ \A o : Has(local', o) <=> Has(local, o) \/ o1 = o
    BY <1>1, <2>1, TipOnTop
  <2>3. \A i \in DOMAIN local' : (i \in DOMAIN local /\ local'[i] = local[i]) \/ local'[i].by = o1
    <3>1. c.by \in Saves => \A i \in DOMAIN local : local[i].by # c.by
      BY <1>1, <2>1 DEF IInv, CommitInv, NoneYet, ToCommit
    <3> QED BY <1>1, <2>1, <3>1, CommitOnTop
  <2>4. \A i \in DOMAIN local : local'[i] = local[i]
    BY <1>1, <2>1, AppendProperties
  <2>5. OriginInv'
    <3>1. ASSUME NEW i \in DOMAIN local', local'[i].by = Other
          PROVE  i \in DOMAIN remote /\ \A j \in 1..i : local'[j] = remote[j]
      <4>1. i \in DOMAIN local /\ local[i].by = Other
        BY <1>1, <2>3, <3>1
      <4>2. i \in DOMAIN remote /\ \A j \in 1..i : local[j] = remote[j] /\ j \in DOMAIN local
        BY <1>1, <4>1 DEF EndInv, OriginInv
      <4> QED BY <2>4, <4>2
    <3> QED BY <1>1, <2>2, <2>3, <3>1 DEF EndInv, OriginInv, Has
  <2>6. WorkInv'
    BY <1>1, <2>2 DEF WorkInv
  <2>7. \A o \in Saves, e \in Ends : Result(o, e) /\ Fulfilled(o, e) => Fulfilled(o, e)'
    BY ZenonT(90), <1>1, <2>2 DEF Fulfilled, In, Has
  <2>8. TurnInv' /\ ResultInv'
    <3>1. CASE mode = "commit" /\ Gives("committed-local")
      <4>1. "committed-local" \in Ends \union Waits
        BY DEF Ends
      <4>2. \A o \in Saves : o = o1 => Fulfilled(o, "committed-local")'
        BY <1>1, <2>2, <3>1 DEF Fulfilled
      <4> QED BY <1>1, <2>7, <3>1, <4>1, <4>2, TurnGoes, ResultsKeep DEF EndInv
    <3>2. CASE Goes("prepush")
      <4>1. run'.at = "prepush"
        BY <1>1, <3>2, GoesPlace DEF Steps
      <4> QED BY <1>1, <2>7, <4>1, TurnGoes, ResultsKeep DEF EndInv
    <3>3. CASE \E outcome \in Waits : Gives(outcome)
      <4>1. PICK outcome \in Waits : Gives(outcome)
        BY <3>3
      <4>2. outcome \in Ends \union Waits /\ outcome \notin Ends
        BY DEF Waits, Ends
      <4> QED BY <1>1, <2>7, <4>1, <4>2, TurnGoes, ResultsKeep DEF EndInv
    <3> QED BY <1>3, <3>1, <3>2, <3>3
  <2> QED BY <1>1, <2>5, <2>6, <2>8 DEF EndInv
<1>4. {"failed", "blocked"} \subseteq Waits
  BY DEF Waits
<1> QED BY <1>2, <1>3, <1>4 DEF MakeCommit, Commits

LEMMA PrefixIsIn ==
  ASSUME NEW s \in Seq(Commit), NEW t \in Seq(Commit), IsPrefix(s, t)
  PROVE  \A i \in DOMAIN s : i \in DOMAIN t /\ t[i] = s[i]
<1>1. SubSeq(s, 1, Len(s)) = s /\ Len(s) \in 0..Len(s)
  BY SubSeqFull
<1>2. Agree(s, t, Len(s))
  BY <1>1, PrefixIsAgreement
<1> QED BY <1>2 DEF Agree

LEMMA PushEnds ==
  ASSUME IInv, EndInv, Push
  PROVE  EndInv'
<1>1. /\ UNCHANGED <<mode, hands, work, local, ops, journal, pending>>
      /\ run \in Place /\ run.at = "push" /\ pending # <<>>
      /\ local \in Seq(Commit) /\ remote \in Seq(Commit) /\ o1 \in DOMAIN journal
  BY FirstOperation DEF Push, user, At, IInv, QueueInv, TypeOK
<1>2. \/ remote' = remote /\ Gives("push-pending")
      \/ IsPrefix(remote, local) /\ remote' = local /\ Gives("push-pending")
      \/ IsPrefix(remote, local) /\ remote' = local /\ Gives("pushed")
  BY DEF Push
<1>3. CASE remote' = remote /\ Gives("push-pending")
  BY <1>1, <1>3, BlockedEnds DEF Waits
<1>4. ASSUME NEW outcome \in {"pushed", "push-pending"},
             IsPrefix(remote, local), remote' = local, Gives(outcome)
      PROVE  EndInv'
  <2>1. \A i \in DOMAIN remote : i \in DOMAIN local /\ local[i] = remote[i]
    BY <1>1, <1>4, PrefixIsIn
  <2>2. OriginInv' /\ WorkInv'
    BY <1>1, <1>4 DEF EndInv, OriginInv, WorkInv, Has, Tip
  <2>3. \A o \in Saves, e \in Ends : Result(o, e) /\ Fulfilled(o, e) => Fulfilled(o, e)'
    BY <1>1, <1>4, <2>1 DEF Fulfilled, In, Has, Tip
  <2>4. outcome \in Ends \union Waits /\ (outcome \in Ends => outcome = "pushed")
    BY DEF Ends, Waits
  <2>5. \A o \in Saves : o = o1 => Fulfilled(o, "pushed")'
    <3>1. hands \in Nat
      BY DEF EndInv
    <3>2. hands = 0 /\ o1 = Len(ops) => work = Tip(local)
      BY <1>1, HeadIsWork DEF EndInv, TurnInv
    <3>3. hands <= 1 => In(local, ops[o1].holds)
      BY <1>1 DEF EndInv, TurnInv
    <3> QED BY <1>1, <1>4, <3>2, <3>3 DEF Fulfilled, In, Has, Tip
  <2>6. ResultInv'
    BY <1>1, <1>4, <2>3, <2>4, <2>5, ResultsKeep DEF EndInv
  <2>7. TurnInv'
    BY <1>1, <1>4, <2>4, TurnGoes
  <2> QED BY <1>1, <2>2, <2>6, <2>7 DEF EndInv
<1> QED BY <1>2, <1>3, <1>4

\* The branch after a pull: each commit is the remote's, or was only local.
LEMMA RebaseOrigins ==
  ASSUME IInv, Rebase
  PROVE  \/ local' = local /\ work' = work
         \/ \A i \in DOMAIN local' :
              \/ i \in DOMAIN remote /\ \A j \in 1..i : local'[j] = remote[j]
              \/ \E k \in DOMAIN local : k > Shared /\ local'[i] = local[k]
<1>1. \/ local' = local /\ work' = work
      \/ local' = remote
      \/ local' = remote \o Mine
  BY DEF Rebase
<1>2. CASE local' = remote
  BY <1>2
<1>3. CASE local' = remote \o Mine
  <2> SUFFICES ASSUME NEW i \in DOMAIN local'
               PROVE  \/ i \in DOMAIN remote /\ \A j \in 1..i : local'[j] = remote[j]
                      \/ \E k \in DOMAIN local : k > Shared /\ local'[i] = local[k]
    OBVIOUS
  <2>1. \/ i \in DOMAIN remote
        \/ FromMine(i) \in DOMAIN local /\ FromMine(i) > Shared /\ local'[i] = local[FromMine(i)]
    BY <1>3, RebasedPlaces
  <2>2. ASSUME i \in DOMAIN remote, NEW j \in 1..i PROVE local'[j] = remote[j]
    <3>1. /\ remote \in Seq(Commit) /\ Len(remote) \in Nat /\ Len(Mine) \in Nat
          /\ Len(local') = Len(remote) + Len(Mine)
          /\ \A k \in 1..Len(local') :
               local'[k] = IF k <= Len(remote) THEN remote[k] ELSE Mine[k - Len(remote)]
      BY <1>3, RebasedPlaces
    <3>2. i \in 1..Len(remote)
      BY <2>2, <3>1
    <3>3. j \in 1..Len(local') /\ j <= Len(remote)
      BY <3>1, <3>2
    <3> QED BY <3>1, <3>3
  <2> QED BY <2>1, <2>2
<1> QED BY <1>1, <1>2, <1>3

\* The document follows HEAD, or stays.
LEMMA RebaseTip ==
  ASSUME IInv, Rebase
  PROVE  /\ work' \in {work, Tip(local')}
         /\ work = Tip(local) => work' = Tip(local')
<1> DEFINE onto == Tip(SubSeq(local, 1, Shared))
<1>1. Mine = <<>> => onto = Tip(local)
  <2>1. Len(<<>>) = 0
    OBVIOUS
  <2>2. Mine = <<>> => Shared = Len(local)
    BY <2>1, WhatIsMine
  <2>3. local \in Seq(Commit)
    BY DEF IInv, TypeOK
  <2>4. SubSeq(local, 1, Len(local)) = local
    BY <2>3, SubSeqFull
  <2> QED BY <2>2, <2>4
<1>2. CASE local' = remote \o Mine /\ Tip(remote) = onto /\ work' = work
  <2>1. CASE Mine = <<>>
    <3>1. remote \o <<>> = remote
      BY ConcatEmptySeq DEF IInv, TypeOK
    <3> QED BY <1>1, <1>2, <2>1, <3>1
  <2>2. CASE Mine # <<>>
    <3>1. /\ Mine \in Seq(Commit) /\ Len(Mine) # 0 /\ Len(Mine) \in Nat
          /\ Len(Mine) = Len(local) - Shared /\ Len(local) \in Nat /\ Shared \in Nat
          /\ Mine[Len(Mine)] = local[Shared + Len(Mine)]
      <4>1. Mine \in Seq(Commit)
        BY WhatIsMine
      <4>2. Len(Mine) # 0 /\ Len(Mine) \in 1..Len(Mine)
        BY <2>2, <4>1
      <4> QED BY <4>1, <4>2, WhatIsMine
    <3>2. Shared + Len(Mine) = Len(local)
      BY <3>1
    <3>3. /\ local' \in Seq(Commit) /\ Len(remote) \in Nat /\ Len(local') = Len(remote) + Len(Mine)
          /\ \A i \in 1..Len(local') :
               local'[i] = IF i <= Len(remote) THEN remote[i] ELSE Mine[i - Len(remote)]
      BY <1>2, RebasedPlaces
    <3>0. /\ Len(local') = Len(remote) + Len(Mine) /\ Len(remote) \in Nat
          /\ Shared + Len(Mine) = Len(local) /\ Shared \in Nat
          /\ Len(Mine) \in Nat /\ Len(Mine) # 0
      BY Zenon, <3>1, <3>2, <3>3
    <3>4. local'[Len(local')] = Mine[Len(Mine)]
      <4>1. /\ Len(local') \in 1..Len(local') /\ ~(Len(local') <= Len(remote))
            /\ Len(local') - Len(remote) = Len(Mine)
        BY <3>0
      <4> QED BY Zenon, <3>3, <4>1
    <3>5. local' # <<>> /\ local # <<>>
      <4>1. Len(local') # 0 /\ Len(local) # 0
        BY <3>0
      <4>2. Len(<<>>) = 0
        OBVIOUS
      <4> QED BY Zenon, <4>1, <4>2
    <3> QED BY <1>2, <3>1, <3>2, <3>4, <3>5 DEF Tip, Last
  <2> QED BY <2>1, <2>2
<1>3. CASE local' = remote /\ Tip(remote) = Tip(local) /\ work' = work
  BY <1>3
<1>4. CASE /\ Mine = <<>> /\ local' = remote
           /\ work' = IF work = onto THEN Tip(remote) ELSE work
  BY <1>1, <1>4
<1>5. CASE local' = local /\ work' = work
  BY <1>5
<1> QED BY <1>2, <1>3, <1>4, <1>5 DEF Rebase

LEMMA PullEnds ==
  ASSUME IInv, EndInv, Pull
  PROVE  EndInv'
<1>1. /\ UNCHANGED <<mode, hands, remote, ops, journal, pending>>
      /\ run \in Place /\ run.at = "pull" /\ mode = "push"
  BY DEF Pull, user, tree, At, IInv, QueueInv, EndInv, TurnInv
<1>2. TurnInv' /\ (run'.at # "record" \/ \E outcome \in Waits : Gives(outcome))
  <2>1. (\E outcome \in Waits : Gives(outcome)) \/ Goes("pulled")
    BY DEF Pull, Rebase, Waits
  <2>2. Goes("pulled") => run'.at = "pulled"
    BY <1>1, GoesPlace DEF Steps
  <2> QED BY <1>1, <2>1, <2>2, TurnGoes
<1>3. Waits \intersect Ends = {}
  BY DEF Waits, Ends
<1>4. CASE UNCHANGED tree
  BY <1>1, <1>2, <1>3, <1>4, LookEnds DEF tree
<1>5. CASE Rebase
  <2>1. OriginInv'
    <3>1. CASE local' = local
      BY <1>1, <3>1 DEF EndInv, OriginInv, Has
    <3>2. CASE \A i \in DOMAIN local' :
                 \/ i \in DOMAIN remote /\ \A j \in 1..i : local'[j] = remote[j]
                 \/ \E k \in DOMAIN local : k > Shared /\ local'[i] = local[k]
      <4>1. ASSUME NEW i \in DOMAIN local', local'[i].by \in Saves PROVE local'[i].by \in DOMAIN journal
        BY <1>1, <1>5, <4>1, RebaseKeeps DEF EndInv, OriginInv
      <4>2. ASSUME hands = 0 PROVE ~Has(local', Hand)
        <5>1. ASSUME NEW i \in DOMAIN local' PROVE local'[i].by # Hand
          <6>1. CASE i \in DOMAIN remote /\ \A j \in 1..i : local'[j] = remote[j]
            <7>1. i \in 1..i
              BY <6>1 DEF IInv, TypeOK
            <7> QED BY <4>2, <6>1, <7>1 DEF EndInv, OriginInv, Has
          <6> QED BY <3>2, <4>2, <6>1 DEF EndInv, OriginInv, Has
        <5> QED BY <5>1 DEF Has
      <4>3. ASSUME NEW i \in DOMAIN local', local'[i].by = Other
            PROVE  i \in DOMAIN remote /\ \A j \in 1..i : local'[j] = remote[j]
        <5>1. ASSUME NEW k \in DOMAIN local, k > Shared, local[k].by = Other PROVE FALSE
          <6>1. k \in DOMAIN remote /\ \A j \in 1..k : local[j] = remote[j]
            BY <5>1 DEF EndInv, OriginInv
          <6>2. k <= Shared /\ Shared \in Nat /\ k \in Nat
            BY <6>1, WhatIsShared DEF IInv, TypeOK
          <6> QED BY <5>1, <6>2
        <5> QED BY <3>2, <4>3, <5>1
      <4> QED BY <1>1, <4>1, <4>2, <4>3 DEF EndInv, OriginInv, Has
    <3> QED BY <1>5, <3>1, <3>2, RebaseOrigins
  <2>2. WorkInv'
    BY <1>1, <1>5, RebaseTip DEF EndInv, WorkInv
  <2>3. \A o \in Saves : Has(local', o) => Has(local, o)
    BY <1>1, <1>5, RebaseKeeps DEF Has
  <2>4. \A o \in Saves, e \in Ends : Result(o, e) /\ Fulfilled(o, e) => Fulfilled(o, e)'
    BY <1>1, <1>5, <2>3, RebaseTip DEF Fulfilled, In, Has
  <2>5. ResultInv'
    BY <1>1, <1>2, <1>3, <2>4, ResultsKeep DEF EndInv
  <2> QED BY <1>1, <1>2, <2>1, <2>2, <2>5 DEF EndInv
<1> QED BY <1>4, <1>5 DEF Pull

\* The queue and the runner stand, and no operation commits.
LEMMA OthersEnd ==
  ASSUME IInv, EndInv, UNCHANGED <<mode, ops, journal, pending, run>>, hands' \in Nat, hands' >= hands,
         OriginInv', WorkInv', TurnInv',
         \A o \in Saves, e \in Ends : Result(o, e) /\ Fulfilled(o, e) => Fulfilled(o, e)'
  PROVE  EndInv'
<1>1. ResultInv'
  BY ResultsKeep DEF EndInv
<1> QED BY <1>1 DEF EndInv

LEMMA ForeignPushEnds ==
  ASSUME IInv, EndInv, NEW c \in Contents, ForeignPush(c)
  PROVE  EndInv'
<1> DEFINE e == [by |-> Other, holds |-> c]
<1>1. e \in Commit /\ e.by \notin Saves /\ e.by # Hand
  BY Ranges DEF Commit, IInv, Other, Hand
<1>2. /\ remote' = Append(remote, e) /\ remote \in Seq(Commit) /\ local \in Seq(Commit)
      /\ UNCHANGED <<mode, hands, work, local, ops, journal, pending, run>>
  BY DEF ForeignPush, IInv, TypeOK
<1> HIDE DEF e
<1>3. /\ \A d : In(remote, d) => In(remote', d)
      /\ \A o : Has(remote', o) <=> Has(remote, o) \/ e.by = o
      /\ \A i \in DOMAIN remote : i \in DOMAIN remote' /\ remote'[i] = remote[i]
  <2>1. \A i \in DOMAIN remote : i \in DOMAIN remote' /\ remote'[i] = remote[i]
    BY <1>1, <1>2, AppendProperties
  <2> QED BY <1>1, <1>2, <2>1, TipOnTop
<1>4. OriginInv'
  <2>1. ASSUME NEW i \in DOMAIN local, local[i].by = Other
        PROVE  i \in DOMAIN remote' /\ \A j \in 1..i : local[j] = remote'[j]
    <3>1. i \in DOMAIN remote /\ \A j \in 1..i : local[j] = remote[j]
      BY <2>1 DEF EndInv, OriginInv
    <3>2. \A j \in 1..i : j \in DOMAIN remote
      BY <1>2, <3>1
    <3> QED BY <1>3, <3>1, <3>2
  <2> QED BY <1>1, <1>2, <1>3, <2>1 DEF EndInv, OriginInv, Has
<1>5. WorkInv' /\ TurnInv'
  BY <1>2 DEF EndInv, WorkInv, TurnInv, Tip, HeadHolds, In, o1
<1>6. \A o \in Saves, d \in Ends : Result(o, d) /\ Fulfilled(o, d) => Fulfilled(o, d)'
  BY <1>2, <1>3 DEF Fulfilled, Has, Tip
<1>7. hands' \in Nat /\ hands' >= hands
  BY <1>2 DEF EndInv
<1> QED BY <1>2, <1>4, <1>5, <1>6, <1>7, OthersEnd

LEMMA HandCommitEnds ==
  ASSUME IInv, EndInv, HandCommit
  PROVE  EndInv'
<1>1. /\ UNCHANGED <<mode, work, remote, ops, journal, pending, run>>
      /\ hands' = hands + 1 /\ hands \in Nat /\ local \in Seq(Commit) /\ Tip(local) \in Contents
  BY TipType DEF HandCommit, IInv, TypeOK, EndInv
<1>2. PICK h \in Contents :
        LET c == [by |-> Hand, holds |-> h]
        IN  \/ local' = Append(local, c)
            \/ local' = Append(SubSeq(local, 1, Shared), c) /\ h = Tip(local)
  BY <1>1 DEF HandCommit, IInv, TypeOK
<1> DEFINE c == [by |-> Hand, holds |-> h]
<1>3. c \in Commit /\ c.by \notin Saves /\ c.by = Hand /\ c.by # Other /\ c.holds = h
  BY Ranges, SaveAssumption DEF Commit, IInv, Hand, Other
<1>4. \/ local' = Append(local, c)
      \/ local' = Append(SubSeq(local, 1, Shared), c) /\ h = Tip(local)
  BY <1>2
<1> HIDE DEF c
<1>5. /\ local' \in Seq(Commit)
      /\ \A i \in DOMAIN local' : \/ i \in DOMAIN local /\ local'[i] = local[i]
                                  \/ i = Len(local') /\ local'[i] = c
  BY <1>1, <1>3, <1>4, CommitOnTop, BranchIsSquashed
<1>6. OriginInv'
  <2>1. ASSUME NEW i \in DOMAIN local', local'[i].by = Other
        PROVE  i \in DOMAIN remote /\ \A j \in 1..i : local'[j] = remote[j]
    <3>1. i \in DOMAIN local /\ local'[i] = local[i] /\ i \in Nat /\ i <= Len(local')
      BY <1>3, <1>5, <2>1
    <3>2. i \in DOMAIN remote /\ \A j \in 1..i : local[j] = remote[j]
      BY <2>1, <3>1 DEF EndInv, OriginInv
    <3>3. \A j \in 1..i : j \in DOMAIN local' /\ (j = i \/ j # Len(local'))
      BY <1>5, <3>1
    <3> QED BY <1>5, <3>1, <3>2, <3>3
  <2>2. \A i \in DOMAIN local' : local'[i].by \in Saves => local'[i].by \in DOMAIN journal
    BY <1>3, <1>5 DEF EndInv, OriginInv
  <2> QED BY <1>1, <2>1, <2>2 DEF OriginInv
<1>7. hands = 0 => \A d : d = Tip(local) => In(local', d)
  <2>1. CASE local' = Append(local, c)
    BY <1>1, <1>3, <2>1, TipOnTop, TipIsIn
  <2>2. CASE local' = Append(SubSeq(local, 1, Shared), c) /\ h = Tip(local)
    <3>1. SubSeq(local, 1, Shared) \in Seq(Commit)
      <4>1. Shared \in 0..Len(local) /\ Len(local) \in Nat
        BY WhatIsMine
      <4>2. \A i \in 1..Shared : local[i] \in Commit
        BY <1>1, <4>1
      <4> QED BY <4>1, <4>2, SubSeqProperties
    <3>2. In(Append(SubSeq(local, 1, Shared), c), c.holds)
      BY <1>3, <3>1, TipOnTop
    <3> QED BY <1>3, <2>2, <3>2
  <2> QED BY <1>4, <2>1, <2>2
<1>8. TurnInv'
  <2>1. o1' = o1
    BY <1>1 DEF o1
  <2>2. run.at = "push" /\ hands' <= 1 => In(local', ops[o1].holds)
    BY <1>1, <1>7 DEF EndInv, TurnInv, HeadHolds
  <2>3. hands' # 0
    BY <1>1
  <2> QED BY <1>1, <2>1, <2>2, <2>3 DEF EndInv, TurnInv
<1>9. WorkInv'
  BY <1>1 DEF WorkInv
<1>10. \A o \in Saves : Has(local', o) => Has(local, o)
  BY <1>3, <1>5 DEF Has
<1>11. \A o \in Saves, e \in Ends : Result(o, e) /\ Fulfilled(o, e) => Fulfilled(o, e)'
  BY <1>1, <1>10 DEF Fulfilled, Has, In
<1> QED BY <1>1, <1>6, <1>8, <1>9, <1>11, OthersEnd

LEMMA OthersStand ==
  ASSUME IInv, EndInv, UNCHANGED <<mode, hands, work, local, remote, ops, journal, pending, run>>
  PROVE  EndInv'
<1>1. TurnInv'
  BY DEF EndInv, TurnInv, HeadHolds, In, Tip, o1
<1> QED BY <1>1, LookEnds

-----------------------------------------------------------------------------
LEMMA InitEndInv == Init => EndInv
<1> SUFFICES ASSUME Init PROVE EndInv
  OBVIOUS
<1>1. /\ hands = 0 /\ journal = <<>> /\ pending = <<>> /\ local = <<>> /\ remote = <<>>
      /\ Len(ops) = 0 /\ run.at = "idle" /\ DOMAIN <<>> = {}
  BY DEF Init, Idle
<1>2. \A o, e : ~Result(o, e)
  BY <1>1 DEF Result
<1> QED BY <1>1, <1>2 DEF EndInv, TurnInv, OriginInv, WorkInv, ResultInv, Has

LEMMA StepEndInv == IInv /\ IInv' /\ EndInv /\ [Next]_vars => EndInv'
<1> SUFFICES ASSUME IInv, IInv', EndInv, [Next]_vars PROVE EndInv'
  OBVIOUS
<1>1. ASSUME NEW c \in Contents, Save(c) \/ ForeignPush(c) PROVE EndInv'
  BY <1>1, SaveEnds, ForeignPushEnds
<1>2. ASSUME NEW o \in Saves, Retry(o) PROVE EndInv'
  BY <1>2, RetryEnds
<1>3. CASE Enqueue \/ EnqueueFails \/ Record \/ RecordFails \/ Restart \/ Begin
  BY <1>3, EnqueueEnds, EnqueueFailsEnds, RecordEnds, RecordFailsEnds, RestartEnds, BeginEnds
<1>4. CASE Check \/ StepFails \/ Pull \/ Pulled \/ Hash \/ Add \/ MakeCommit \/ PrePush \/ Push
  BY <1>4, CheckEnds, StepFailsEnds, PullEnds, LooksEnd, MakeCommitEnds, PushEnds
<1>5. CASE HandCommit
  BY <1>5, HandCommitEnds
<1>6. CASE HandRepair \/ Reconfigure \/ UNCHANGED vars
  BY <1>6, OthersStand DEF HandRepair, Reconfigure, vars, user, tree
<1> QED BY <1>1, <1>2, <1>3, <1>4, <1>5, <1>6 DEF Next, Runner

\* Whatever fails, is retried or breaks off.
THEOREM EndsInvariant == Spec => []EndInv
  BY InitEndInv, StepEndInv, Invariant, PTL DEF Spec

\* A save recorded as pushed is in the remote, over every pull, retry, restart
\* and push of others, unless two commits by hand came between the check of
\* HEAD and its push; one recorded as committed has its commit on the branch
\* (pushCommittedHead, execute, runOperation).
THEOREM RecordedStays == Spec => []RecordedIsThere
<1>1. IInv /\ EndInv => RecordedIsThere
  <2> SUFFICES ASSUME IInv, EndInv, NEW o \in DOMAIN journal
               PROVE  /\ journal[o] = "pushed" /\ hands <= 1 =>
                           ops[o].holds \in {Untouched} \union {remote[i].holds : i \in DOMAIN remote}
                      /\ journal[o] = "committed-local" /\ hands = 0 =>
                           \E i \in DOMAIN local : local[i].by = o
    BY DEF RecordedIsThere
  <2>1. o \in Saves /\ \A e \in Ends : journal[o] = e => Fulfilled(o, e)
    BY Ranges DEF EndInv, ResultInv, Result, IInv
  <2> QED BY <2>1 DEF Ends, Fulfilled, In, Has
<1> QED BY <1>1, Invariant, EndsInvariant, PTL

\* When every save has come to an end, the document is what HEAD has of it and
\* nothing of ours is left to push, over every fault and restart, as long as
\* nobody commits by hand.
THEOREM NothingIsLeft == Spec => []NothingLeftBehind
<1>1. IInv /\ EndInv => NothingLeftBehind
  <2> SUFFICES ASSUME IInv, EndInv, Len(journal) = Len(ops), Len(ops) > 0, hands = 0,
                      \A o \in DOMAIN journal : journal[o] \in Ends
               PROVE  /\ work = Tip(local)
                      /\ mode = "push" => Mine = <<>>
    BY DEF NothingLeftBehind
  <2>1. \A o \in DOMAIN journal : o \in Saves /\ Fulfilled(o, journal[o])
    BY Ranges DEF EndInv, ResultInv, Result, IInv
  <2>2. work = Tip(local)
    <3>1. Len(ops) \in DOMAIN journal
      BY DEF IInv, TypeOK
    <3> QED BY <2>1, <3>1 DEF Fulfilled
  <2>3. ASSUME mode = "push" PROVE Mine = <<>>
    <3>1. ASSUME NEW i \in DOMAIN local PROVE i <= Shared
      <4>1. local[i].by \in Saves \/ local[i].by = Other \/ local[i].by = Hand
        <5>1. local[i].by \in 0..Other
          <6>1. local[i] \in Commit
            BY DEF IInv, TypeOK
          <6> QED BY <6>1 DEF Commit
        <5> QED BY <5>1, SaveAssumption DEF Saves, Other, Hand
      <4>2. CASE local[i].by = Hand
        BY <4>2 DEF EndInv, OriginInv, Has
      <4>3. CASE local[i].by = Other
        <5>1. i \in DOMAIN remote /\ \A j \in 1..i : local[j] = remote[j]
          BY <4>3 DEF EndInv, OriginInv
        <5> QED BY <5>1, WhatIsShared DEF IInv, TypeOK
      <4>4. CASE local[i].by \in Saves
        <5>1. Has(local, local[i].by) /\ local[i].by \in DOMAIN journal
          BY <4>4 DEF EndInv, OriginInv, Has
        <5>2. Has(remote, local[i].by)
          BY <2>1, <2>3, <5>1 DEF Fulfilled
        <5>3. PICK k \in DOMAIN remote : remote[k].by = local[i].by
          BY <5>2 DEF Has
        <5>4. k <= Shared /\ i = k
          BY <4>4, <5>3, PublishedPlace
        <5> QED BY <5>4
      <4> QED BY <4>1, <4>2, <4>3, <4>4
    <3>2. Len(Mine) = 0
      <4>1. /\ Len(Mine) = Len(local) - Shared /\ Len(local) \in Nat /\ Shared \in 0..Len(local)
        BY WhatIsMine
      <4>2. Len(local) # 0 => Len(local) \in DOMAIN local
        BY DEF IInv, TypeOK
      <4>3. Len(local) # 0 => Len(local) <= Shared
        BY <3>1, <4>2
      <4> QED BY <4>1, <4>3
    <3> QED BY <3>2, WhatIsMine, EmptySeq
  <2> QED BY <2>2, <2>3
<1> QED BY <1>1, Invariant, EndsInvariant, PTL

=============================================================================
