------------------------- MODULE WorkspaceJobsProofs -------------------------
(***************************************************************************)
(* Proofs about WorkspaceJobs, for every set of sources and every bound.   *)
(***************************************************************************)
EXTENDS WorkspaceJobs, FiniteSetTheorems, TLAPS

-----------------------------------------------------------------------------
(* Lists.                                                                    *)

\* A set of numbers is listed whole, each number once, the least first: the number
\* with i - 1 below it is the i-th, and counting what is below tells any two
\* numbers apart.
LEMMA Ascends ==
  ASSUME NEW S, S \subseteq Nat, IsFiniteSet(S)
  PROVE  /\ Ascending(S) \in Seq(Nat)
         /\ Len(Ascending(S)) = Cardinality(S)
         /\ \A i \in 1..Len(Ascending(S)) : Ascending(S)[i] \in S
         /\ \A i, j \in 1..Len(Ascending(S)) : i < j => Ascending(S)[i] < Ascending(S)[j]
         /\ \A s \in S : \E i \in 1..Len(Ascending(S)) : Ascending(S)[i] = s
<1> DEFINE n == Cardinality(S)
           Rank(s) == Cardinality(Below(S, s))
           rank == [s \in S |-> Rank(s)]
<1>1. n \in Nat /\ \A s \in S : s \in Nat
  BY FS_CardinalityType
<1>2. \A s \in S : IsFiniteSet(Below(S, s)) /\ Rank(s) \in 0..(n - 1)
  <2> SUFFICES ASSUME NEW s \in S
               PROVE  IsFiniteSet(Below(S, s)) /\ Rank(s) \in 0..(n - 1)
    OBVIOUS
  <2>1. IsFiniteSet(S \ {s}) /\ Cardinality(S \ {s}) = n - 1
    BY FS_RemoveElement
  <2>2. Below(S, s) \in SUBSET (S \ {s})
    BY DEF Below
  <2>3. IsFiniteSet(Below(S, s)) /\ Rank(s) <= Cardinality(S \ {s})
    BY <2>1, <2>2, FS_Subset
  <2>4. Rank(s) \in Nat
    BY <2>3, FS_CardinalityType
  <2> QED BY <1>1, <2>1, <2>3, <2>4
<1>3. \A s, t \in S : s < t => Rank(s) < Rank(t)
  <2> SUFFICES ASSUME NEW s \in S, NEW t \in S, s < t PROVE Rank(s) < Rank(t)
    OBVIOUS
  <2>1. /\ IsFiniteSet(Below(S, s) \union {s})
        /\ Cardinality(Below(S, s) \union {s}) = Rank(s) + 1
    <3>1. s \notin Below(S, s)
      BY <1>1 DEF Below
    <3> QED BY <1>2, <3>1, FS_AddElement
  <2>2. Below(S, s) \union {s} \in SUBSET Below(S, t)
    <3>1. \A u \in S : u < s => u < t
      BY <1>1
    <3> QED BY <3>1 DEF Below
  <2>3. Cardinality(Below(S, s) \union {s}) <= Rank(t)
    BY <1>2, <2>2, FS_Subset
  <2> QED BY <1>1, <1>2, <2>1, <2>3
<1>4. \A i \in 1..n : \E s \in S : Rank(s) = i - 1
  <2>1. rank \in Injection(S, 0..(n - 1))
    <3>1. rank \in [S -> 0..(n - 1)]
      BY <1>2
    <3>2. \A s, t \in S : rank[s] = rank[t] => s = t
      BY <1>1, <1>2, <1>3
    <3> HIDE DEF rank
    <3> QED BY <3>1, <3>2 DEF Injection, IsInjective
  <2>2. IsFiniteSet(0..(n - 1)) /\ Cardinality(0..(n - 1)) = n
    <3> HIDE DEF n
    <3>1. 0 \in Int /\ n - 1 \in Int
      BY <1>1
    <3>2. Cardinality(0..(n - 1)) = IF 0 > n - 1 THEN 0 ELSE n - 1 - 0 + 1
      BY <3>1, FS_Interval
    <3> QED BY <1>1, <3>1, <3>2, FS_Interval
  <2>3. rank \in Surjection(S, 0..(n - 1))
    BY <2>1, <2>2, FS_Injection
  <2>4. \A k \in 0..(n - 1) : \E s \in S : rank[s] = k
    BY <2>3 DEF Surjection
  <2> QED BY <1>1, <2>4
<1> DEFINE list == Ascending(S)
<1>5. \A i \in 1..n : list[i] \in S /\ Rank(list[i]) = i - 1
  BY <1>4 DEF Ascending
<1>6. list = [i \in 1..n |-> list[i]]
  BY DEF Ascending
<1> HIDE DEF list
<1>7. list \in Seq(Nat) /\ Len(list) = n /\ \A i \in 1..n : list[i] \in S
  BY SMTT(90), <1>1, <1>5, <1>6
<1>8. \A i, j \in 1..n : i < j => list[i] < list[j]
  <2> HIDE DEF Rank, n
  <2> SUFFICES ASSUME NEW i \in 1..n, NEW j \in 1..n, i < j PROVE list[i] < list[j]
    OBVIOUS
  <2>1. PICK s \in S, t \in S :
          s = list[i] /\ t = list[j] /\ Rank(s) = i - 1 /\ Rank(t) = j - 1
    BY <1>5
  <2>2. s = t \/ s < t \/ t < s
    BY <1>1
  <2>3. Rank(s) \in Nat /\ Rank(t) \in Nat
    BY <1>2
  <2>4. i - 1 < j - 1
    BY <1>1
  <2>5. s < t
    BY <1>3, <2>1, <2>2, <2>3, <2>4
  <2> QED BY <2>1, <2>5
<1>9. \A s \in S : \E i \in 1..n : list[i] = s
  <2> SUFFICES ASSUME NEW s \in S PROVE \E i \in 1..n : list[i] = s
    OBVIOUS
  <2>1. Rank(s) + 1 \in 1..n
    BY <1>1, <1>2
  <2>2. Rank(list[Rank(s) + 1]) = Rank(s) /\ list[Rank(s) + 1] \in S
    BY <1>1, <1>2, <1>5, <2>1
  <2> HIDE DEF Rank, n
  <2>3. list[Rank(s) + 1] = s
    <3> DEFINE t == list[Rank(s) + 1]
    <3> HIDE DEF t
    <3>1. t \in S /\ Rank(t) = Rank(s) /\ Rank(s) \in Nat
      BY <1>2, <2>2 DEF t
    <3>2. t = s \/ t < s \/ s < t
      BY <1>1, <3>1
    <3>3. (t < s => Rank(t) < Rank(s)) /\ (s < t => Rank(s) < Rank(t))
      BY <1>3, <3>1
    <3>4. t = s
      BY <3>1, <3>2, <3>3
    <3> QED BY <3>4 DEF t
  <2> QED BY <2>1, <2>3
<1> QED BY <1>7, <1>8, <1>9 DEF list

\* What a list has in S: its elements in S, all of them, in their order.
LEMMA OnlyKeeps ==
  ASSUME NEW T, NEW list \in Seq(T), NEW S
  PROVE  /\ Only(list, S) \in Seq(T)
         /\ \A k \in 1..Len(Only(list, S)) :
              Only(list, S)[k] \in S /\ Contains(list, Only(list, S)[k])
         /\ \A x \in S : Contains(list, x) => Contains(Only(list, S), x)
         /\ \A k, l \in 1..Len(Only(list, S)) : k < l =>
              \E i, j \in 1..Len(list) : /\ i < j
                                        /\ list[i] = Only(list, S)[k] /\ list[j] = Only(list, S)[l]
<1> DEFINE in == {i \in DOMAIN list : list[i] \in S}
           places == Ascending(in)
           some == Only(list, S)
<1>1. Len(list) \in Nat /\ DOMAIN list = 1..Len(list)
      /\ \A i \in 1..Len(list) : list[i] \in T
  OBVIOUS
<1>2. in \subseteq Nat /\ IsFiniteSet(in)
  <2>1. IsFiniteSet(1..Len(list)) /\ in \in SUBSET (1..Len(list))
    BY <1>1, FS_Interval
  <2> QED BY <2>1, FS_Subset
<1>3. /\ places \in Seq(Nat)
      /\ \A k \in 1..Len(places) : places[k] \in in
      /\ \A k, l \in 1..Len(places) : k < l => places[k] < places[l]
      /\ \A i \in in : \E k \in 1..Len(places) : places[k] = i
  BY <1>2, Ascends
<1>4. some = [k \in DOMAIN places |-> list[places[k]]]
  BY DEF Only
<1>5. \A i \in in : i \in 1..Len(list) /\ list[i] \in S
  BY <1>1
<1> HIDE DEF in, places, some
<1>6. DOMAIN places = 1..Len(places) /\ Len(places) \in Nat
  BY <1>3
<1>7. /\ some \in Seq(T) /\ Len(some) = Len(places)
      /\ \A k \in 1..Len(some) : some[k] = list[places[k]] /\ places[k] \in in
  <2>1. \A k \in 1..Len(places) : list[places[k]] \in T
    BY <1>1, <1>3, <1>5
  <2> QED BY <1>3, <1>4, <1>6, <2>1
<1>8. \A k \in 1..Len(some) : some[k] \in S /\ Contains(list, some[k])
  BY <1>5, <1>7 DEF Contains
<1>9. \A x \in S : Contains(list, x) => Contains(some, x)
  <2> SUFFICES ASSUME NEW i \in 1..Len(list), list[i] \in S PROVE Contains(some, list[i])
    BY DEF Contains
  <2>1. i \in in
    BY <1>1 DEF in
  <2>2. PICK k \in 1..Len(places) : places[k] = i
    BY <1>3, <2>1
  <2> QED BY <1>7, <2>2 DEF Contains
<1>10. \A k, l \in 1..Len(some) : k < l =>
         \E i, j \in 1..Len(list) : i < j /\ list[i] = some[k] /\ list[j] = some[l]
  <2> SUFFICES ASSUME NEW k \in 1..Len(some), NEW l \in 1..Len(some), k < l
               PROVE  \E i, j \in 1..Len(list) :
                        i < j /\ list[i] = some[k] /\ list[j] = some[l]
    OBVIOUS
  <2>1. k \in 1..Len(places) /\ l \in 1..Len(places)
    BY <1>7
  <2>2. places[k] \in 1..Len(list) /\ places[l] \in 1..Len(list) /\ places[k] < places[l]
    BY <1>3, <1>5, <2>1
  <2>3. list[places[k]] = some[k] /\ list[places[l]] = some[l]
    BY <1>7
  <2> QED BY <2>2, <2>3
<1> QED BY <1>7, <1>8, <1>9, <1>10 DEF some

-----------------------------------------------------------------------------
(* What lists of records and of jobs keep.                                   *)

LEMMA TailOf ==
  ASSUME NEW T, NEW list \in Seq(T), list # <<>>
  PROVE  /\ Tail(list) \in Seq(T) /\ Len(list) \in Nat /\ Len(Tail(list)) = Len(list) - 1
         /\ 1 \in 1..Len(list) /\ Head(list) = list[1] /\ Head(list) \in T
         /\ \A i \in 1..Len(Tail(list)) : i + 1 \in 1..Len(list) /\ Tail(list)[i] = list[i + 1]
         /\ \A x : Contains(list, x) <=> x = Head(list) \/ Contains(Tail(list), x)
<1>1. /\ Tail(list) \in Seq(T) /\ Len(list) \in Nat /\ Len(Tail(list)) = Len(list) - 1
      /\ 1 \in 1..Len(list) /\ Head(list) = list[1] /\ Head(list) \in T
      /\ \A i \in 1..Len(Tail(list)) : i + 1 \in 1..Len(list) /\ Tail(list)[i] = list[i + 1]
  OBVIOUS
<1>2. ASSUME NEW x, Contains(list, x) PROVE x = Head(list) \/ Contains(Tail(list), x)
  <2>1. PICK i \in 1..Len(list) : list[i] = x
    BY <1>2 DEF Contains
  <2>2. CASE i = 1
    BY <1>1, <2>1, <2>2
  <2>3. CASE i # 1
    <3>1. i - 1 \in 1..Len(Tail(list)) /\ Tail(list)[i - 1] = list[i - 1 + 1] /\ i - 1 + 1 = i
      BY <1>1, <2>3
    <3> QED BY <2>1, <3>1 DEF Contains
  <2> QED BY <2>2, <2>3
<1>3. ASSUME NEW x, x = Head(list) \/ Contains(Tail(list), x) PROVE Contains(list, x)
  BY <1>1, <1>3 DEF Contains
<1> QED BY <1>1, <1>2, <1>3

LEMMA JoinOf ==
  ASSUME NEW T, NEW a \in Seq(T), NEW b \in Seq(T)
  PROVE  /\ a \o b \in Seq(T) /\ Len(a) \in Nat /\ Len(b) \in Nat /\ Len(a \o b) = Len(a) + Len(b)
         /\ \A i \in 1..Len(a) : i \in 1..Len(a \o b) /\ (a \o b)[i] = a[i]
         /\ \A i \in 1..Len(b) : Len(a) + i \in 1..Len(a \o b) /\ (a \o b)[Len(a) + i] = b[i]
         /\ \A i \in 1..Len(a \o b) :
              \/ (i \in 1..Len(a) /\ (a \o b)[i] = a[i])
              \/ (i - Len(a) \in 1..Len(b) /\ (a \o b)[i] = b[i - Len(a)])
         /\ \A x : Contains(a \o b, x) <=> Contains(a, x) \/ Contains(b, x)
<1>1. /\ a \o b \in Seq(T) /\ Len(a) \in Nat /\ Len(b) \in Nat /\ Len(a \o b) = Len(a) + Len(b)
  OBVIOUS
<1>2. \A i \in 1..Len(a) : i \in 1..Len(a \o b) /\ (a \o b)[i] = a[i]
  BY <1>1
<1>3. \A i \in 1..Len(b) : Len(a) + i \in 1..Len(a \o b) /\ (a \o b)[Len(a) + i] = b[i]
  BY <1>1
<1>4. \A i \in 1..Len(a \o b) :
        \/ (i \in 1..Len(a) /\ (a \o b)[i] = a[i])
        \/ (i - Len(a) \in 1..Len(b) /\ (a \o b)[i] = b[i - Len(a)])
  BY <1>1
<1> PICK f : f = a \o b
  OBVIOUS
<1>5. ASSUME NEW x PROVE Contains(f, x) => Contains(a, x) \/ Contains(b, x)
  BY <1>4 DEF Contains
<1>6. ASSUME NEW x PROVE Contains(a, x) \/ Contains(b, x) => Contains(f, x)
  BY <1>2, <1>3 DEF Contains
<1> QED BY <1>1, <1>2, <1>3, <1>4, <1>5, <1>6

LEMMA NothingMore ==
  ASSUME NEW T, NEW list \in Seq(T)
  PROVE  list \o <<>> = list
OBVIOUS

LEMMA OneMore ==
  ASSUME NEW T, NEW list \in Seq(T), NEW x \in T
  PROVE  /\ Append(list, x) \in Seq(T) /\ Append(list, x) = list \o <<x>> /\ <<x>> \in Seq(T)
         /\ Len(Append(list, x)) = Len(list) + 1 /\ Len(list) \in Nat
         /\ \A i \in 1..Len(list) : i \in 1..Len(Append(list, x)) /\ Append(list, x)[i] = list[i]
         /\ Append(list, x)[Len(list) + 1] = x
         /\ \A y : Contains(Append(list, x), y) <=> Contains(list, y) \/ y = x
<1>1. /\ Append(list, x) \in Seq(T) /\ Append(list, x) = list \o <<x>> /\ <<x>> \in Seq(T)
      /\ Len(Append(list, x)) = Len(list) + 1 /\ Len(list) \in Nat
      /\ \A i \in 1..Len(list) : i \in 1..Len(Append(list, x)) /\ Append(list, x)[i] = list[i]
      /\ Append(list, x)[Len(list) + 1] = x
  OBVIOUS
<1>2. \A y : Contains(<<x>>, y) <=> y = x
  BY DEF Contains
<1>3. \A y : Contains(list \o <<x>>, y) <=> Contains(list, y) \/ Contains(<<x>>, y)
  BY <1>1, JoinOf
<1> QED BY <1>1, <1>2, <1>3

-----------------------------------------------------------------------------
(* The queue: its arrays, its drains and the records on their way agree.  The *)
(* invariant is stated of values, so that it can be asked of what a handler   *)
(* has half done: js for jobs, o for order, p for pending, d for drain and    *)
(* a for appends.                                                             *)

Job == [source : Sources, batch : Requests, state : States, error : Errors]
Pcs == {"idle", "starting", "skipping", "planning", "reporting", "mutating", "finishing"}
Drains == [pc : Pcs, own : Seq(Nat), shared : BOOLEAN, aborted : BOOLEAN,
           grant : Grant \union {NoGrant}, rev : Nat]
Notes == [by : {"enqueue", "retry", "cancel", "run", "report", "finish"},
          req : 0..MaxRequests, job : Nat, source : Sources, batch : Requests, state : States,
          error : Errors]

QueueTypes(js, o, p, d, a) ==
  /\ js \in Seq(Job)
  /\ o \in Seq(Sources)
  /\ p \in [Sources -> Seq(Nat)]
  /\ d \in [Sources -> Drains]
  /\ a \in Seq(Notes)

\* What a drain awaits a record at, and where it is once its job was started.
Awaits(by) == CASE by = "run" -> "starting" [] by = "report" -> "reporting"
                [] OTHER -> "finishing"
Driving == {"planning", "reporting", "mutating", "finishing"}

HeldOf(p, d, s) == IF d[s].shared THEN p[s] ELSE d[s].own
At(p, d, s)     == Head(HeldOf(p, d, s))

OfSource(js, s, list) ==
  \A i \in 1..Len(list) : list[i] \in 1..Len(js) /\ js[list[i]].source = s
ArraysOK(js, p, d) ==
  \A s \in Sources :
    /\ OfSource(js, s, p[s])
    /\ d[s].pc # "idle" => HeldOf(p, d, s) # <<>> /\ OfSource(js, s, HeldOf(p, d, s))

\* The map has the keys of its arrays, each once.
KeysOK(o, p) ==
  /\ \A i, k \in 1..Len(o) : o[i] = o[k] => i = k
  /\ \A s \in Sources : Contains(o, s) <=> p[s] # <<>>

\* A record by a drain is of the job its drain is at, which awaits it; a record of
\* a known job says whose it is.
ByDrain(n) == n.by \in {"run", "report", "finish"}
ByNew(n)   == n.by \in {"enqueue", "retry"}
RecordOK(js, p, d, n) ==
  /\ ByNew(n) => n.job = 0 /\ n.state = "queued"
  /\ ~ByNew(n) => n.job \in 1..Len(js) /\ n.source = js[n.job].source /\ n.batch = js[n.job].batch
  /\ n.by = "cancel" => n.state = "cancelled"
  /\ ByDrain(n) => d[n.source].pc = Awaits(n.by) /\ n.job = At(p, d, n.source)
  /\ n.by \in {"run", "report"} => n.state = "running"
  /\ n.by = "finish" => n.state \notin {"queued", "running"}
RecordsOK(js, p, d, a) == \A i \in 1..Len(a) : RecordOK(js, p, d, a[i])

\* A drain awaits one record at a time.
AloneOK(a) ==
  \A i, k \in 1..Len(a) :
    ByDrain(a[i]) /\ ByDrain(a[k]) /\ a[i].source = a[k].source => i = k

\* Past its start, the job a drain is at is not queued; and a running job has one.
PassedOK(js, p, d) ==
  \A s \in Sources : d[s].pc \notin {"idle", "starting"} => js[At(p, d, s)].state # "queued"
DrivenOK(js, p, d) ==
  \A j \in 1..Len(js) : js[j].state = "running" =>
    d[js[j].source].pc \in Driving /\ At(p, d, js[j].source) = j

ListedOK(js, p, d, a) ==
  \A j \in 1..Len(js) : js[j].state = "queued" =>
    \/ Contains(p[js[j].source], j)
    \/ d[js[j].source].pc # "idle" /\ Contains(HeldOf(p, d, js[j].source), j)
    \/ \E i \in 1..Len(a) : a[i].job = j /\ a[i].by = "cancel"

\* At most one drain a slot.
ActiveIn(d) == {s \in Sources : d[s].pc # "idle"}
SlotsOK(d)  == IsFiniteSet(ActiveIn(d)) /\ Cardinality(ActiveIn(d)) <= MaxConcurrent

QueueOK(js, o, p, d, a) ==
  /\ QueueTypes(js, o, p, d, a)
  /\ ArraysOK(js, p, d)
  /\ KeysOK(o, p)
  /\ RecordsOK(js, p, d, a)
  /\ AloneOK(a)
  /\ PassedOK(js, p, d)
  /\ DrivenOK(js, p, d)
  /\ ListedOK(js, p, d, a)
  /\ SlotsOK(d)

QueueInv == QueueOK(jobs, order, pending, drain, appends)

\* Records keep their promises when more come behind them, and without the first.
LEMMA RecordsJoin ==
  ASSUME NEW js, NEW p, NEW d, NEW a \in Seq(Notes), NEW b \in Seq(Notes),
         RecordsOK(js, p, d, a), RecordsOK(js, p, d, b), AloneOK(a), AloneOK(b),
         \A i \in 1..Len(a), k \in 1..Len(b) :
           ByDrain(a[i]) /\ ByDrain(b[k]) => a[i].source # b[k].source
  PROVE  a \o b \in Seq(Notes) /\ RecordsOK(js, p, d, a \o b) /\ AloneOK(a \o b)
<1> PICK f : f = a \o b
  OBVIOUS
<1>1. /\ f \in Seq(Notes) /\ Len(a) \in Nat /\ Len(b) \in Nat /\ Len(f) = Len(a) + Len(b)
      /\ \A i \in 1..Len(f) : \/ (i \in 1..Len(a) /\ f[i] = a[i])
                              \/ (i - Len(a) \in 1..Len(b) /\ f[i] = b[i - Len(a)])
  BY JoinOf
<1>2. RecordsOK(js, p, d, f)
  <2> SUFFICES ASSUME NEW i \in 1..Len(f) PROVE RecordOK(js, p, d, f[i])
    BY DEF RecordsOK
  <2>1. CASE i \in 1..Len(a) /\ f[i] = a[i]
    BY <2>1 DEF RecordsOK
  <2>2. CASE i - Len(a) \in 1..Len(b) /\ f[i] = b[i - Len(a)]
    BY <2>2 DEF RecordsOK
  <2> QED BY <1>1, <2>1, <2>2
<1>3. AloneOK(f)
  <2> SUFFICES ASSUME NEW i \in 1..Len(f), NEW k \in 1..Len(f),
                      ByDrain(f[i]), ByDrain(f[k]), f[i].source = f[k].source
               PROVE  i = k
    BY DEF AloneOK
  <2>1. CASE i \in 1..Len(a) /\ f[i] = a[i] /\ k \in 1..Len(a) /\ f[k] = a[k]
    BY <2>1 DEF AloneOK
  <2>2. CASE i - Len(a) \in 1..Len(b) /\ f[i] = b[i - Len(a)]
             /\ k - Len(a) \in 1..Len(b) /\ f[k] = b[k - Len(a)]
    <3>1. i - Len(a) = k - Len(a)
      BY <2>2 DEF AloneOK
    <3> QED BY <1>1, <3>1
  <2>3. ~(i \in 1..Len(a) /\ f[i] = a[i] /\ k - Len(a) \in 1..Len(b) /\ f[k] = b[k - Len(a)])
    OBVIOUS
  <2>4. ~(k \in 1..Len(a) /\ f[k] = a[k] /\ i - Len(a) \in 1..Len(b) /\ f[i] = b[i - Len(a)])
    OBVIOUS
  <2> QED BY <1>1, <2>1, <2>2, <2>3, <2>4
<1> QED BY <1>1, <1>2, <1>3

LEMMA RecordsTail ==
  ASSUME NEW js, NEW p, NEW d, NEW a \in Seq(Notes), a # <<>>,
         RecordsOK(js, p, d, a), AloneOK(a)
  PROVE  /\ Tail(a) \in Seq(Notes) /\ Head(a) \in Notes
         /\ RecordsOK(js, p, d, Tail(a)) /\ AloneOK(Tail(a)) /\ RecordOK(js, p, d, Head(a))
         /\ ByDrain(Head(a)) =>
              \A i \in 1..Len(Tail(a)) : ByDrain(Tail(a)[i]) => Tail(a)[i].source # Head(a).source
<1> PICK t : t = Tail(a)
  OBVIOUS
<1>1. /\ t \in Seq(Notes) /\ Len(a) \in Nat /\ Len(t) = Len(a) - 1
      /\ 1 \in 1..Len(a) /\ Head(a) = a[1] /\ Head(a) \in Notes
      /\ \A i \in 1..Len(t) : i + 1 \in 1..Len(a) /\ t[i] = a[i + 1]
  BY TailOf
<1>2. RecordsOK(js, p, d, t) /\ RecordOK(js, p, d, Head(a))
  <2>1. \A i \in 1..Len(t) : RecordOK(js, p, d, t[i])
    <3> SUFFICES ASSUME NEW i \in 1..Len(t) PROVE RecordOK(js, p, d, t[i])
      OBVIOUS
    <3> PICK k \in 1..Len(a) : k = i + 1 /\ t[i] = a[k]
      BY <1>1
    <3> QED BY DEF RecordsOK
  <2> QED BY <1>1, <2>1 DEF RecordsOK
<1>3. AloneOK(t)
  <2> SUFFICES ASSUME NEW i \in 1..Len(t), NEW k \in 1..Len(t),
                      ByDrain(t[i]), ByDrain(t[k]), t[i].source = t[k].source
               PROVE  i = k
    BY DEF AloneOK
  <2>1. i + 1 \in 1..Len(a) /\ k + 1 \in 1..Len(a) /\ t[i] = a[i + 1] /\ t[k] = a[k + 1]
    BY <1>1
  <2>2. i + 1 = k + 1
    BY <2>1 DEF AloneOK
  <2> QED BY <1>1, <2>2
<1>4. ASSUME ByDrain(Head(a)), NEW i \in 1..Len(t), ByDrain(t[i])
      PROVE  t[i].source # Head(a).source
  <2>1. i + 1 \in 1..Len(a) /\ t[i] = a[i + 1] /\ i + 1 # 1
    BY <1>1
  <2> QED BY <1>1, <1>4, <2>1 DEF AloneOK
<1> QED BY <1>1, <1>2, <1>3, <1>4

\* What scheduleProcessing starts: waiting sources without a drain, each once, and
\* no more than there are slots.
LEMMA ChosenAre ==
  ASSUME NEW o \in Seq(Sources), NEW p, NEW d, KeysOK(o, p), Slots(d) \in Nat
  PROVE  /\ Chosen(o, d) \in Seq(Sources) /\ Len(Chosen(o, d)) <= Slots(d)
         /\ \A i \in 1..Len(Chosen(o, d)) :
              LET s == Chosen(o, d)[i] IN s \in Sources /\ d[s].pc = "idle" /\ p[s] # <<>>
         /\ \A i, k \in 1..Len(Chosen(o, d)) : Chosen(o, d)[i] = Chosen(o, d)[k] => i = k
<1> DEFINE free == {s \in Sources : d[s].pc = "idle"}
           idle == Only(o, free)
           n == IF Slots(d) < Len(idle) THEN Slots(d) ELSE Len(idle)
           chosen == Chosen(o, d)
<1>1. /\ idle \in Seq(Sources)
      /\ \A k \in 1..Len(idle) : idle[k] \in free /\ Contains(o, idle[k])
      /\ \A k, l \in 1..Len(idle) : k < l =>
           \E i, j \in 1..Len(o) : i < j /\ o[i] = idle[k] /\ o[j] = idle[l]
  <2> HIDE DEF free
  <2> QED BY OnlyKeeps
<1>2. chosen = SubSeq(idle, 1, n)
  BY DEF Chosen
<1>3. \A s \in free : s \in Sources /\ d[s].pc = "idle"
  OBVIOUS
<1> HIDE DEF free, idle, chosen
<1>4. n \in Nat /\ n <= Len(idle) /\ n <= Slots(d) /\ Len(idle) \in Nat
  BY <1>1
<1> HIDE DEF n
<1>5. chosen \in Seq(Sources) /\ Len(chosen) = n /\ \A i \in 1..n : i \in 1..Len(idle) /\ chosen[i] = idle[i]
  BY <1>1, <1>2, <1>4
<1>6. \A i \in 1..Len(chosen) : chosen[i] \in Sources /\ d[chosen[i]].pc = "idle" /\ p[chosen[i]] # <<>>
  BY <1>1, <1>3, <1>5 DEF KeysOK
<1>7. \A i, k \in 1..Len(chosen) : i < k => chosen[i] # chosen[k]
  <2> SUFFICES ASSUME NEW i \in 1..Len(chosen), NEW k \in 1..Len(chosen), i < k
               PROVE  chosen[i] # chosen[k]
    OBVIOUS
  <2>1. PICK x, y \in 1..Len(o) : x < y /\ o[x] = idle[i] /\ o[y] = idle[k]
    BY <1>1, <1>5
  <2>2. x # y
    BY <2>1
  <2> QED BY <1>5, <2>1, <2>2 DEF KeysOK
<1>8. \A i, k \in 1..Len(chosen) : chosen[i] = chosen[k] => i = k
  BY <1>5, <1>7
<1> QED BY <1>4, <1>5, <1>6, <1>8 DEF chosen

\* The records of the first jobs that are queued, one a job.
LEMMA RunRecordsAre ==
  ASSUME NEW js \in Seq(Job), NEW list \in Seq(Nat), \A i \in 1..Len(list) : list[i] \in 1..Len(js)
  PROVE  /\ RunRecords(js, list) \in Seq(Notes)
         /\ \A i \in 1..Len(RunRecords(js, list)) : \E k \in 1..Len(list) :
              RunRecords(js, list)[i] = RunRecord(js, list[k]) /\ js[list[k]].state = "queued"
         /\ \A i, j \in 1..Len(RunRecords(js, list)) : i < j =>
              \E k, l \in 1..Len(list) : /\ k < l
                                         /\ RunRecords(js, list)[i] = RunRecord(js, list[k])
                                         /\ RunRecords(js, list)[j] = RunRecord(js, list[l])
<1> DEFINE queued == {j \in DOMAIN js : js[j].state = "queued"}
           first == Only(list, queued)
           recs == RunRecords(js, list)
<1>1. /\ first \in Seq(Nat)
      /\ \A k \in 1..Len(first) : first[k] \in queued /\ Contains(list, first[k])
      /\ \A k, l \in 1..Len(first) : k < l =>
           \E i, j \in 1..Len(list) : i < j /\ list[i] = first[k] /\ list[j] = first[l]
  <2> HIDE DEF queued
  <2> QED BY OnlyKeeps
<1>2. recs = [i \in DOMAIN first |-> RunRecord(js, first[i])]
  BY DEF RunRecords
<1>3. \A j \in queued : /\ j \in 1..Len(js) /\ js[j].state = "queued"
                        /\ RunRecord(js, j) \in Notes
  <2> SUFFICES ASSUME NEW j \in queued
               PROVE  j \in 1..Len(js) /\ js[j].state = "queued" /\ RunRecord(js, j) \in Notes
    OBVIOUS
  <2>1. j \in 1..Len(js) /\ js[j].state = "queued" /\ j \in Nat /\ js[j] \in Job
    OBVIOUS
  <2>2. RunRecord(js, j) \in Notes
    BY <2>1, JobsAssumption DEF RunRecord, Notes, Job, States
  <2> QED BY <2>1, <2>2
<1> HIDE DEF queued, first, recs
<1>4. /\ recs \in Seq(Notes) /\ Len(recs) = Len(first) /\ Len(first) \in Nat
      /\ \A i \in 1..Len(first) : recs[i] = RunRecord(js, first[i])
  <2>1. DOMAIN first = 1..Len(first) /\ Len(first) \in Nat
    BY <1>1
  <2>2. \A i \in 1..Len(first) : RunRecord(js, first[i]) \in Notes
    BY <1>1, <1>3
  <2> QED BY <1>2, <2>1, <2>2
<1>5. ASSUME NEW i \in 1..Len(recs)
      PROVE  \E k \in 1..Len(list) : recs[i] = RunRecord(js, list[k]) /\ js[list[k]].state = "queued"
  <2>1. first[i] \in queued /\ recs[i] = RunRecord(js, first[i])
    BY <1>1, <1>4
  <2>2. PICK k \in 1..Len(list) : list[k] = first[i]
    BY <1>1, <1>4 DEF Contains
  <2> QED BY <1>3, <2>1, <2>2
<1>6. ASSUME NEW i \in 1..Len(recs), NEW j \in 1..Len(recs), i < j
      PROVE  \E k, l \in 1..Len(list) : /\ k < l /\ recs[i] = RunRecord(js, list[k])
                                        /\ recs[j] = RunRecord(js, list[l])
  <2>1. PICK k, l \in 1..Len(list) : k < l /\ list[k] = first[i] /\ list[l] = first[j]
    BY <1>1, <1>4, <1>6
  <2>2. recs[i] = RunRecord(js, list[k]) /\ recs[j] = RunRecord(js, list[l])
    BY <1>4, <2>1
  <2> QED BY <2>1, <2>2
<1> QED BY <1>4, <1>5, <1>6 DEF recs

\* As many slots are taken as were and are chosen.
LEMMA SlotsTaken ==
  ASSUME NEW d, SlotsOK(d), NEW list \in Seq(Sources), Len(list) <= Slots(d), NEW d2,
         \A s \in Sources : d2[s].pc # "idle" => d[s].pc # "idle" \/ Contains(list, s)
  PROVE  SlotsOK(d2)
<1> DEFINE act == ActiveIn(d)
           new == {list[i] : i \in 1..Len(list)}
<1>1. MaxConcurrent \in Nat
  BY JobsAssumption
<1>2. IsFiniteSet(act) /\ Cardinality(act) \in Nat /\ Cardinality(act) <= MaxConcurrent
      /\ Slots(d) = MaxConcurrent - Cardinality(act)
  BY FS_CardinalityType DEF SlotsOK, Slots, ActiveIn
<1>3. IsFiniteSet(new) /\ Cardinality(new) <= Len(list) /\ Len(list) \in Nat
  <2>1. IsFiniteSet(1..Len(list)) /\ Cardinality(1..Len(list)) = Len(list) /\ Len(list) \in Nat
    <3>1. Len(list) \in Nat /\ 1 \in Int
      OBVIOUS
    <3>2. Cardinality(1..Len(list)) = IF 1 > Len(list) THEN 0 ELSE Len(list) - 1 + 1
      BY SMTT(90), <3>1, FS_Interval
    <3> QED BY SMTT(90), <3>1, <3>2, FS_Interval
  <2> DEFINE f == [i \in 1..Len(list) |-> list[i]]
  <2>2. f \in Surjection(1..Len(list), new)
    BY DEF Surjection
  <2> HIDE DEF f, new
  <2> QED BY <2>1, <2>2, FS_Surjection
<1>4. IsFiniteSet(act \union new) /\ Cardinality(act \union new) <= Cardinality(act) + Cardinality(new)
  <2> HIDE DEF act, new
  <2>1. /\ IsFiniteSet(act \union new)
        /\ Cardinality(act \union new) =
             Cardinality(act) + Cardinality(new) - Cardinality(act \intersect new)
    BY <1>2, <1>3, FS_Union
  <2>2. Cardinality(act \intersect new) \in Nat
    BY <1>2, FS_Intersection, FS_CardinalityType
  <2>3. Cardinality(new) \in Nat
    BY <1>3, FS_CardinalityType
  <2> QED BY <1>2, <2>1, <2>2, <2>3
<1>5. ActiveIn(d2) \in SUBSET (act \union new)
  BY DEF ActiveIn, Contains
<1>6. IsFiniteSet(ActiveIn(d2)) /\ Cardinality(ActiveIn(d2)) <= Cardinality(act \union new)
  <2> HIDE DEF act, new
  <2> QED BY <1>4, <1>5, FS_Subset
<1>7. /\ Cardinality(ActiveIn(d2)) \in Nat /\ Cardinality(act \union new) \in Nat
      /\ Cardinality(new) \in Nat
  <2> HIDE DEF act, new
  <2> QED BY <1>3, <1>4, <1>6, FS_CardinalityType
<1> HIDE DEF act, new
<1> QED BY <1>1, <1>2, <1>3, <1>4, <1>6, <1>7 DEF SlotsOK

-----------------------------------------------------------------------------
(* scheduleProcessing.                                                       *)

\* The job a drain is at is one of its source.
LEMMA AtIs ==
  ASSUME NEW js, NEW o, NEW p, NEW d, NEW a, QueueTypes(js, o, p, d, a), NEW s \in Sources,
         HeldOf(p, d, s) # <<>>, OfSource(js, s, HeldOf(p, d, s))
  PROVE  /\ At(p, d, s) \in 1..Len(js) /\ js[At(p, d, s)].source = s
         /\ HeldOf(p, d, s) \in Seq(Nat)
<1>1. HeldOf(p, d, s) \in Seq(Nat)
  <2>1. p[s] \in Seq(Nat) /\ d[s] \in Drains
    BY DEF QueueTypes
  <2>2. d[s].own \in Seq(Nat)
    BY <2>1 DEF Drains
  <2> QED BY <2>1, <2>2 DEF HeldOf
<1> PICK held : held = HeldOf(p, d, s)
  OBVIOUS
<1>2. 1 \in 1..Len(held) /\ Head(held) = held[1]
  BY <1>1
<1> QED BY <1>1, <1>2 DEF OfSource, At

\* The records of the jobs that drains are about to start: each is of a source's own.
About(js, p, d, list, heads) ==
  /\ \A i, k \in 1..Len(list) : list[i] = list[k] => i = k
  /\ \A i \in 1..Len(list) : At(p, d, list[i]) \in 1..Len(js) /\ js[At(p, d, list[i])].source = list[i]
                             /\ d[list[i]].pc = Begins(js, At(p, d, list[i]))
  /\ Len(heads) = Len(list)
  /\ \A i \in 1..Len(list) : heads[i] = At(p, d, list[i])
Among(list, recs) == \A i \in 1..Len(recs) : Contains(list, recs[i].source)

\* The only records called for, beside `later`, are of runs.
OnlyRuns(recs)     == \A i \in 1..Len(recs) : recs[i].by = "run"
Adds(a, a2, later) == \E recs \in Seq(Notes) : OnlyRuns(recs) /\ a2 = (a \o recs) \o later

LEMMA StartRecords ==
  ASSUME NEW js \in Seq(Job), NEW p, NEW d, NEW list \in Seq(Sources), NEW heads \in Seq(Nat),
         About(js, p, d, list, heads)
  PROVE  /\ RunRecords(js, heads) \in Seq(Notes)
         /\ RecordsOK(js, p, d, RunRecords(js, heads)) /\ AloneOK(RunRecords(js, heads))
         /\ Among(list, RunRecords(js, heads)) /\ OnlyRuns(RunRecords(js, heads))
<1> USE DEF About
<1> DEFINE recs == RunRecords(js, heads)
<1>1. Len(list) \in Nat /\ \A i \in 1..Len(heads) : heads[i] \in 1..Len(js)
  OBVIOUS
<1>2. /\ recs \in Seq(Notes)
      /\ \A i \in 1..Len(recs) : \E k \in 1..Len(heads) :
           recs[i] = RunRecord(js, heads[k]) /\ js[heads[k]].state = "queued"
      /\ \A i, j \in 1..Len(recs) : i < j =>
           \E k, l \in 1..Len(heads) : /\ k < l /\ recs[i] = RunRecord(js, heads[k])
                                       /\ recs[j] = RunRecord(js, heads[l])
  BY <1>1, RunRecordsAre
<1> HIDE DEF recs
<1>3. \A k \in 1..Len(heads) :
        /\ k \in 1..Len(list) /\ js[heads[k]].source = list[k] /\ heads[k] \in 1..Len(js)
        /\ heads[k] = At(p, d, list[k]) /\ d[list[k]].pc = Begins(js, heads[k])
  OBVIOUS
<1>4. ASSUME NEW i \in 1..Len(recs)
      PROVE  RecordOK(js, p, d, recs[i]) /\ Contains(list, recs[i].source) /\ recs[i].by = "run"
  <2> PICK k \in 1..Len(heads) : recs[i] = RunRecord(js, heads[k]) /\ js[heads[k]].state = "queued"
    BY <1>2
  <2>1. /\ recs[i].by = "run" /\ recs[i].job = heads[k] /\ recs[i].source = list[k]
        /\ recs[i].batch = js[heads[k]].batch /\ recs[i].state = "running"
    BY <1>3 DEF RunRecord
  <2>2. d[list[k]].pc = "starting" /\ heads[k] = At(p, d, list[k])
    BY <1>3 DEF Begins
  <2>3. recs[i].source = js[recs[i].job].source /\ recs[i].job \in 1..Len(js)
    BY <1>3, <2>1
  <2>4. RecordOK(js, p, d, recs[i])
    BY <2>1, <2>2, <2>3 DEF RecordOK, ByNew, ByDrain, Awaits
  <2>5. Contains(list, recs[i].source)
    BY <1>3, <2>1 DEF Contains
  <2> QED BY <2>1, <2>4, <2>5
<1>5. AloneOK(recs)
  <2>1. \A i, j \in 1..Len(recs) : i < j => recs[i].source # recs[j].source
    <3> SUFFICES ASSUME NEW i \in 1..Len(recs), NEW j \in 1..Len(recs), i < j
                 PROVE  recs[i].source # recs[j].source
      OBVIOUS
    <3> PICK k, l \in 1..Len(heads) : /\ k < l /\ recs[i] = RunRecord(js, heads[k])
                                      /\ recs[j] = RunRecord(js, heads[l])
      BY <1>2
    <3>1. recs[i].source = list[k] /\ recs[j].source = list[l]
      BY <1>3 DEF RunRecord
    <3>2. k # l /\ k \in 1..Len(list) /\ l \in 1..Len(list)
      BY <1>3
    <3> QED BY <3>1, <3>2
  <2> SUFFICES ASSUME NEW i \in 1..Len(recs), NEW j \in 1..Len(recs), recs[i].source = recs[j].source
               PROVE  i = j
    BY DEF AloneOK
  <2> HIDE DEF recs
  <2>2. ~(i < j) /\ ~(j < i)
    BY <2>1
  <2> QED BY <2>2
<1> QED BY <1>2, <1>4, <1>5 DEF RecordsOK, Among, OnlyRuns, recs

\* Records of jobs that are new.
AllNew(list) == \A i \in 1..Len(list) : ByNew(list[i]) /\ list[i].job = 0 /\ list[i].state = "queued"

LEMMA NewAreOK ==
  ASSUME NEW js, NEW p, NEW d, NEW list, AllNew(list)
  PROVE  RecordsOK(js, p, d, list) /\ AloneOK(list) /\ \A i \in 1..Len(list) : ~ByDrain(list[i])
BY DEF AllNew, RecordsOK, RecordOK, AloneOK, ByNew, ByDrain

\* Sources whose drains begin: they had none, and jobs wait under them.
Begun(js, p, d, d2, list) ==
  /\ \A s \in Sources : Contains(list, s) =>
       /\ d[s].pc = "idle" /\ p[s] # <<>> /\ HeldOf(p, d2, s) = p[s]
       /\ d2[s].pc = Begins(js, At(p, d2, s))
  /\ \A s \in Sources : ~Contains(list, s) => d2[s] = d[s]

LEMMA BegunKeeps ==
  ASSUME NEW js, NEW o, NEW p, NEW d, NEW a, QueueOK(js, o, p, d, a),
         NEW list, NEW d2 \in [Sources -> Drains], Begun(js, p, d, d2, list)
  PROVE  /\ ArraysOK(js, p, d2) /\ RecordsOK(js, p, d2, a) /\ PassedOK(js, p, d2)
         /\ DrivenOK(js, p, d2) /\ ListedOK(js, p, d2, a)
         /\ \A i \in 1..Len(a) : ByDrain(a[i]) => ~Contains(list, a[i].source)
<1>1. \A s \in Sources : d[s].pc # "idle" =>
        ~Contains(list, s) /\ d2[s] = d[s] /\ HeldOf(p, d2, s) = HeldOf(p, d, s)
                           /\ At(p, d2, s) = At(p, d, s)
  BY DEF Begun, HeldOf, At
<1>2. \A s \in Sources : Contains(list, s) =>
        /\ d[s].pc = "idle" /\ p[s] # <<>> /\ HeldOf(p, d2, s) = p[s]
        /\ d2[s].pc \in {"starting", "skipping"}
        /\ d2[s].pc = "skipping" => js[At(p, d2, s)].state # "queued"
  BY DEF Begun, Begins
<1>3. \A s \in Sources : ~Contains(list, s) => d2[s] = d[s] /\ HeldOf(p, d2, s) = HeldOf(p, d, s)
                                               /\ At(p, d2, s) = At(p, d, s)
  BY DEF Begun, HeldOf, At
<1>4. ArraysOK(js, p, d2)
  <2> SUFFICES ASSUME NEW s \in Sources
               PROVE  /\ OfSource(js, s, p[s])
                      /\ d2[s].pc # "idle" => HeldOf(p, d2, s) # <<>> /\ OfSource(js, s, HeldOf(p, d2, s))
    BY DEF ArraysOK
  <2> QED BY <1>2, <1>3 DEF QueueOK, ArraysOK
<1>5. \A i \in 1..Len(a) : ByDrain(a[i]) => d[a[i].source].pc # "idle" /\ a[i].source \in Sources
  <2> SUFFICES ASSUME NEW i \in 1..Len(a), ByDrain(a[i])
               PROVE  d[a[i].source].pc # "idle" /\ a[i].source \in Sources
    OBVIOUS
  <2>1. a[i] \in Notes
    BY DEF QueueOK, QueueTypes
  <2>2. RecordOK(js, p, d, a[i])
    BY DEF QueueOK, RecordsOK
  <2> QED BY <2>1, <2>2 DEF RecordOK, ByDrain, Awaits, Notes
<1>6. RecordsOK(js, p, d2, a)
  <2> SUFFICES ASSUME NEW i \in 1..Len(a) PROVE RecordOK(js, p, d2, a[i])
    BY DEF RecordsOK
  <2>1. RecordOK(js, p, d, a[i])
    BY DEF QueueOK, RecordsOK
  <2> QED BY <1>1, <1>5, <2>1 DEF RecordOK
<1>7. PassedOK(js, p, d2)
  BY <1>2, <1>3 DEF QueueOK, PassedOK
<1>8. \A j \in 1..Len(js) : js[j].source \in Sources
  <2>1. \A j \in 1..Len(js) : js[j] \in Job
    BY DEF QueueOK, QueueTypes
  <2> QED BY <2>1 DEF Job
<1>9. DrivenOK(js, p, d2)
  <2> SUFFICES ASSUME NEW j \in 1..Len(js), js[j].state = "running"
               PROVE  d2[js[j].source].pc \in Driving /\ At(p, d2, js[j].source) = j
    BY DEF DrivenOK
  <2>1. d[js[j].source].pc \in Driving /\ At(p, d, js[j].source) = j
    BY DEF QueueOK, DrivenOK
  <2>2. d[js[j].source].pc # "idle"
    BY <2>1 DEF Driving
  <2> QED BY <1>1, <1>8, <2>1, <2>2
<1>10. ListedOK(js, p, d2, a)
  <2> SUFFICES ASSUME NEW j \in 1..Len(js), js[j].state = "queued"
               PROVE  \/ Contains(p[js[j].source], j)
                      \/ d2[js[j].source].pc # "idle" /\ Contains(HeldOf(p, d2, js[j].source), j)
                      \/ \E i \in 1..Len(a) : a[i].job = j /\ a[i].by = "cancel"
    BY DEF ListedOK
  <2>1. \/ Contains(p[js[j].source], j)
        \/ d[js[j].source].pc # "idle" /\ Contains(HeldOf(p, d, js[j].source), j)
        \/ \E i \in 1..Len(a) : a[i].job = j /\ a[i].by = "cancel"
    BY DEF QueueOK, ListedOK
  <2> QED BY <1>1, <1>8, <2>1
<1> QED BY <1>1, <1>4, <1>5, <1>6, <1>7, <1>9, <1>10

\* Whatever state a handler has brought the queue to, if its parts agree they do after
\* scheduleProcessing, and after it has called for the record of another new job.
LEMMA ScheduleKeeps ==
  ASSUME NEW js, NEW o, NEW p, NEW d, NEW a, QueueOK(js, o, p, d, a),
         NEW later \in Seq(Notes), AllNew(later), Schedule(o, p, d, a, js, later)
  PROVE  QueueOK(js, order', pending', drain', appends') /\ Adds(a, appends', later)
<1> DEFINE chosen == Chosen(o, d)
<1> PICK d2 : d2 = drain'
  OBVIOUS
<1>1. QueueTypes(js, o, p, d, a) /\ KeysOK(o, p) /\ SlotsOK(d)
  BY DEF QueueOK
<1>2. Slots(d) \in Nat
  BY <1>1, FS_CardinalityType, JobsAssumption DEF SlotsOK, Slots, ActiveIn
<1>3. /\ chosen \in Seq(Sources) /\ Len(chosen) <= Slots(d)
      /\ \A i \in 1..Len(chosen) : chosen[i] \in Sources /\ d[chosen[i]].pc = "idle" /\ p[chosen[i]] # <<>>
      /\ \A i, k \in 1..Len(chosen) : chosen[i] = chosen[k] => i = k
  <2>1. o \in Seq(Sources)
    BY <1>1 DEF QueueTypes
  <2> QED BY <1>1, <1>2, <2>1, ChosenAre
<1> HIDE DEF chosen
<1>4. /\ order' = o /\ pending' = p
      /\ d2 = [s \in Sources |-> IF Contains(chosen, s)
                                 THEN [Asleep EXCEPT !.pc = Begins(js, Head(p[s]))] ELSE d[s]]
      /\ appends' = a \o RunRecords(js, [i \in DOMAIN chosen |-> Head(p[chosen[i]])]) \o later
  BY DEF Schedule, chosen
<1>5. \A s \in Sources : Contains(chosen, s) => d[s].pc = "idle" /\ p[s] # <<>>
  BY <1>3 DEF Contains
<1>6. \A s \in Sources : d2[s] = IF Contains(chosen, s)
                                 THEN [Asleep EXCEPT !.pc = Begins(js, Head(p[s]))] ELSE d[s]
  BY <1>4
<1>7. \A s \in Sources : Contains(chosen, s) =>
        /\ d2[s].pc = Begins(js, Head(p[s])) /\ HeldOf(p, d2, s) = p[s] /\ At(p, d2, s) = Head(p[s])
        /\ d2[s] \in Drains
  <2> SUFFICES ASSUME NEW s \in Sources, Contains(chosen, s)
               PROVE  /\ d2[s].pc = Begins(js, Head(p[s])) /\ d2[s].shared = TRUE
                      /\ d2[s] \in Drains
    BY DEF HeldOf, At
  <2>1. d2[s] = [Asleep EXCEPT !.pc = Begins(js, Head(p[s]))]
    BY <1>6
  <2>2. Begins(js, Head(p[s])) \in Pcs
    BY DEF Begins, Pcs
  <2>3. <<>> \in Seq(Nat) /\ 0 \in Nat
    OBVIOUS
  <2> QED BY <2>1, <2>2, <2>3 DEF Asleep, Drains
<1>8. d2 \in [Sources -> Drains]
  BY <1>1, <1>4, <1>6, <1>7 DEF QueueTypes
<1>9. Begun(js, p, d, d2, chosen)
  BY <1>5, <1>6, <1>7 DEF Begun
<1>10. /\ ArraysOK(js, p, d2) /\ RecordsOK(js, p, d2, a) /\ PassedOK(js, p, d2)
       /\ DrivenOK(js, p, d2) /\ ListedOK(js, p, d2, a)
       /\ \A i \in 1..Len(a) : ByDrain(a[i]) => ~Contains(chosen, a[i].source)
  BY <1>8, <1>9, BegunKeeps
<1> PICK heads : heads = [i \in DOMAIN chosen |-> Head(p[chosen[i]])]
  OBVIOUS
<1>11. QueueTypes(js, o, p, d2, a)
  BY <1>1, <1>8 DEF QueueTypes
<1>12. \A i \in 1..Len(chosen) :
         /\ At(p, d2, chosen[i]) \in 1..Len(js) /\ js[At(p, d2, chosen[i])].source = chosen[i]
         /\ d2[chosen[i]].pc = Begins(js, At(p, d2, chosen[i])) /\ At(p, d2, chosen[i]) = Head(p[chosen[i]])
  <2> SUFFICES ASSUME NEW i \in 1..Len(chosen), NEW s, s = chosen[i]
               PROVE  /\ At(p, d2, s) \in 1..Len(js) /\ js[At(p, d2, s)].source = s
                      /\ d2[s].pc = Begins(js, At(p, d2, s)) /\ At(p, d2, s) = Head(p[s])
    OBVIOUS
  <2>1. s \in Sources /\ Contains(chosen, s) /\ p[s] # <<>>
    BY <1>3 DEF Contains
  <2>2. HeldOf(p, d2, s) # <<>> /\ OfSource(js, s, HeldOf(p, d2, s))
    BY <1>7, <1>10, <2>1 DEF ArraysOK
  <2>3. At(p, d2, s) \in 1..Len(js) /\ js[At(p, d2, s)].source = s
    BY <1>11, <2>1, <2>2, AtIs
  <2> QED BY <1>7, <2>1, <2>3
<1>13. /\ heads \in Seq(Nat) /\ Len(heads) = Len(chosen)
       /\ \A i \in 1..Len(chosen) : heads[i] = At(p, d2, chosen[i])
  <2>1. Len(chosen) \in Nat /\ DOMAIN chosen = 1..Len(chosen)
    BY <1>3
  <2>2. \A i \in 1..Len(chosen) : heads[i] = At(p, d2, chosen[i]) /\ At(p, d2, chosen[i]) \in Nat
    <3>1. \A n \in 1..Len(js) : n \in Nat
      BY <1>1 DEF QueueTypes
    <3> QED BY <1>12, <2>1, <3>1
  <2>3. heads = [i \in 1..Len(chosen) |-> At(p, d2, chosen[i])]
    BY <1>12, <2>1
  <2> QED BY <2>1, <2>2, <2>3
<1> DEFINE recs == RunRecords(js, heads)
<1>14. /\ recs \in Seq(Notes) /\ RecordsOK(js, p, d2, recs) /\ AloneOK(recs)
       /\ \A i \in 1..Len(recs) : Contains(chosen, recs[i].source)
       /\ OnlyRuns(recs)
  <2>1. js \in Seq(Job) /\ chosen \in Seq(Sources) /\ heads \in Seq(Nat)
    BY <1>1, <1>3, <1>13 DEF QueueTypes
  <2>2. About(js, p, d2, chosen, heads)
    BY <1>3, <1>12, <1>13 DEF About
  <2>3. /\ recs \in Seq(Notes) /\ RecordsOK(js, p, d2, recs) /\ AloneOK(recs)
        /\ Among(chosen, recs) /\ OnlyRuns(recs)
    BY <2>1, <2>2, StartRecords
  <2> QED BY <2>3 DEF Among
<1> HIDE DEF recs
<1>15. a \o recs \in Seq(Notes) /\ RecordsOK(js, p, d2, a \o recs) /\ AloneOK(a \o recs)
  <2>1. a \in Seq(Notes) /\ AloneOK(a)
    BY <1>1 DEF QueueOK, QueueTypes
  <2>2. \A i \in 1..Len(a), k \in 1..Len(recs) :
          ByDrain(a[i]) /\ ByDrain(recs[k]) => a[i].source # recs[k].source
    BY <1>10, <1>14
  <2> QED BY <1>10, <1>14, <2>1, <2>2, RecordsJoin
<1> PICK a1 : a1 = a \o recs
  OBVIOUS
<1>16. a1 \o later \in Seq(Notes) /\ RecordsOK(js, p, d2, a1 \o later) /\ AloneOK(a1 \o later)
  <2>1. RecordsOK(js, p, d2, later) /\ AloneOK(later) /\ \A i \in 1..Len(later) : ~ByDrain(later[i])
    BY NewAreOK
  <2> QED BY <1>15, <2>1, RecordsJoin
<1> PICK a2 : a2 = a1 \o later
  OBVIOUS
<1>17. appends' = a2
  BY <1>4 DEF recs
<1>18. ListedOK(js, p, d2, a2)
  <2>1. \A i \in 1..Len(a) : i \in 1..Len(a2) /\ a2[i] = a[i]
    <3>1. a \in Seq(Notes)
      BY <1>1 DEF QueueTypes
    <3>2. \A i \in 1..Len(a) : i \in 1..Len(a1) /\ a1[i] = a[i]
      BY <1>14, <3>1, JoinOf
    <3>3. \A i \in 1..Len(a1) : i \in 1..Len(a2) /\ a2[i] = a1[i]
      BY <1>15, JoinOf
    <3> QED BY <3>2, <3>3
  <2> QED BY <1>10, <2>1 DEF ListedOK
<1>19. SlotsOK(d2)
  <2>1. \A s \in Sources : d2[s].pc # "idle" => d[s].pc # "idle" \/ Contains(chosen, s)
    BY <1>6
  <2> QED BY <1>1, <1>3, <2>1, SlotsTaken
<1>20. QueueTypes(js, o, p, d2, a2)
  BY <1>11, <1>16 DEF QueueTypes
<1>21. QueueOK(js, o, p, d2, a2)
  BY <1>1, <1>10, <1>16, <1>18, <1>19, <1>20 DEF QueueOK
<1>22. Adds(a, a2, later)
  BY <1>14 DEF Adds
<1> QED BY <1>4, <1>17, <1>21, <1>22

-----------------------------------------------------------------------------
(* processSource at the end of a job.                                        *)

LEMMA WithoutIs ==
  ASSUME NEW T, NEW list \in Seq(T), NEW x
  PROVE  /\ Without(list, x) \in Seq(T)
         /\ \A y : Contains(Without(list, x), y) <=> Contains(list, y) /\ y # x
         /\ (\A i, k \in 1..Len(list) : list[i] = list[k] => i = k) =>
              \A i, k \in 1..Len(Without(list, x)) :
                Without(list, x)[i] = Without(list, x)[k] => i = k
<1> DEFINE S == ToSet(list) \ {x}
           rest == Only(list, S)
<1>1. /\ rest \in Seq(T)
      /\ \A k \in 1..Len(rest) : rest[k] \in S /\ Contains(list, rest[k])
      /\ \A y \in S : Contains(list, y) => Contains(rest, y)
      /\ \A k, l \in 1..Len(rest) : k < l =>
           \E i, j \in 1..Len(list) : i < j /\ list[i] = rest[k] /\ list[j] = rest[l]
  <2> HIDE DEF S
  <2> QED BY OnlyKeeps
<1>2. \A y : y \in S <=> Contains(list, y) /\ y # x
  BY DEF ToSet, Contains
<1>3. rest = Without(list, x)
  BY DEF Without
<1> HIDE DEF S, rest
<1>4. ASSUME NEW y PROVE Contains(rest, y) <=> Contains(list, y) /\ y # x
  <2>1. Contains(rest, y) => y \in S
    BY <1>1 DEF Contains
  <2>2. y \in S => Contains(rest, y)
    BY <1>1, <1>2
  <2> QED BY <1>2, <2>1, <2>2
<1>5. ASSUME \A i, k \in 1..Len(list) : list[i] = list[k] => i = k,
             NEW i \in 1..Len(rest), NEW k \in 1..Len(rest), rest[i] = rest[k]
      PROVE  i = k
  <2>1. \A m, n \in 1..Len(rest) : m < n => rest[m] # rest[n]
    <3> SUFFICES ASSUME NEW m \in 1..Len(rest), NEW n \in 1..Len(rest), m < n
                 PROVE  rest[m] # rest[n]
      OBVIOUS
    <3> PICK u, v \in 1..Len(list) : u < v /\ list[u] = rest[m] /\ list[v] = rest[n]
      BY <1>1
    <3>1. u # v
      OBVIOUS
    <3> QED BY <1>5, <3>1
  <2>2. ~(i < k) /\ ~(k < i)
    BY <1>5, <2>1
  <2> QED BY <2>2
<1> QED BY <1>1, <1>3, <1>4, <1>5

\* A key goes when nothing is left under it.
LEMMA KeyGoes ==
  ASSUME NEW o \in Seq(Sources), NEW p, NEW s \in Sources, NEW p2, KeysOK(o, p),
         p2[s] = <<>>, \A t \in Sources : t # s => p2[t] = p[t]
  PROVE  Without(o, s) \in Seq(Sources) /\ KeysOK(Without(o, s), p2)
<1> PICK w : w = Without(o, s)
  OBVIOUS
<1>1. /\ w \in Seq(Sources)
      /\ \A y : Contains(w, y) <=> Contains(o, y) /\ y # s
      /\ (\A i, k \in 1..Len(o) : o[i] = o[k] => i = k) =>
           \A i, k \in 1..Len(w) : w[i] = w[k] => i = k
  BY WithoutIs
<1>2. KeysOK(w, p2)
  BY <1>1 DEF KeysOK
<1> QED BY <1>1, <1>2

\* What belongs to other sources than the one a step is about.
Aside(p, d, p2, d2, s) ==
  \A t \in Sources : t # s => p2[t] = p[t] /\ d2[t] = d[t]
NoneOf(a, s) == \A i \in 1..Len(a) : ByDrain(a[i]) => a[i].source # s

LEMMA AsideKeeps ==
  ASSUME NEW js, NEW o, NEW p, NEW d, NEW a, QueueOK(js, o, p, d, a), NEW s \in Sources,
         NEW p2, NEW d2, Aside(p, d, p2, d2, s)
  PROVE  /\ \A t \in Sources : t # s => HeldOf(p2, d2, t) = HeldOf(p, d, t) /\ At(p2, d2, t) = At(p, d, t)
         /\ \A j \in 1..Len(js) : js[j].source \in Sources
         /\ NoneOf(a, s) => RecordsOK(js, p2, d2, a)
<1>1. \A t \in Sources : t # s => HeldOf(p2, d2, t) = HeldOf(p, d, t) /\ At(p2, d2, t) = At(p, d, t)
  BY DEF Aside, HeldOf, At
<1>2. \A j \in 1..Len(js) : js[j].source \in Sources
  <2>1. \A j \in 1..Len(js) : js[j] \in Job
    BY DEF QueueOK, QueueTypes
  <2> QED BY <2>1 DEF Job
<1>3. ASSUME NoneOf(a, s) PROVE RecordsOK(js, p2, d2, a)
  <2> SUFFICES ASSUME NEW i \in 1..Len(a) PROVE RecordOK(js, p2, d2, a[i])
    BY DEF RecordsOK
  <2>1. RecordOK(js, p, d, a[i]) /\ a[i] \in Notes
    BY DEF QueueOK, QueueTypes, RecordsOK
  <2>2. a[i].source \in Sources /\ (ByDrain(a[i]) => a[i].source # s)
    BY <1>3, <2>1 DEF NoneOf, Notes
  <2>3. ByDrain(a[i]) => d2[a[i].source] = d[a[i].source] /\ At(p2, d2, a[i].source) = At(p, d, a[i].source)
    BY <1>1, <2>2 DEF Aside
  <2> QED BY <2>1, <2>3 DEF RecordOK
<1> QED BY <1>1, <1>2, <1>3

\* What a source without a drain leaves: no record by it and no job of it running.
LEMMA NoneRuns ==
  ASSUME NEW js, NEW o, NEW p, NEW d, NEW a, QueueOK(js, o, p, d, a), NEW s \in Sources,
         js[At(p, d, s)].state # "running"
  PROVE  \A j \in 1..Len(js) : js[j].source = s => js[j].state # "running"
BY DEF QueueOK, DrivenOK

\* The drain of a source ends at the last job of its array.
LEMMA EndKeeps ==
  ASSUME NEW js, NEW o, NEW p, NEW d, NEW a, QueueOK(js, o, p, d, a), NEW s \in Sources,
         d[s].pc # "idle", js[At(p, d, s)].state \notin {"queued", "running"}, NoneOf(a, s),
         Tail(HeldOf(p, d, s)) = <<>>,
         NEW p2, p2 = IF d[s].shared THEN [p EXCEPT ![s] = <<>>] ELSE p,
         NEW o2, o2 = IF p2[s] = <<>> THEN Without(o, s) ELSE o,
         NEW d2, d2 = [d EXCEPT ![s] = Asleep]
  PROVE  QueueOK(js, o2, p2, d2, a)
<1>1. /\ js \in Seq(Job) /\ o \in Seq(Sources) /\ p \in [Sources -> Seq(Nat)]
      /\ d \in [Sources -> Drains] /\ a \in Seq(Notes)
  BY DEF QueueOK, QueueTypes
<1>2. p2 \in [Sources -> Seq(Nat)] /\ d2 \in [Sources -> Drains]
  <2>1. <<>> \in Seq(Nat) /\ 0 \in Nat
    OBVIOUS
  <2>2. Asleep \in Drains
    BY <2>1 DEF Asleep, Drains, Pcs
  <2> QED BY <1>1, <2>1, <2>2
<1>3. Aside(p, d, p2, d2, s) /\ d2[s] = Asleep
  BY <1>1 DEF Aside
<1>4. /\ \A t \in Sources : t # s => HeldOf(p2, d2, t) = HeldOf(p, d, t) /\ At(p2, d2, t) = At(p, d, t)
      /\ \A j \in 1..Len(js) : js[j].source \in Sources
      /\ RecordsOK(js, p2, d2, a)
  BY <1>3, AsideKeeps
<1>5. d2[s].pc = "idle" /\ \A t \in Sources : t # s => d2[t] = d[t] /\ p2[t] = p[t]
  BY <1>3 DEF Asleep, Aside
<1>6. \A x : Contains(HeldOf(p, d, s), x) => x = At(p, d, s)
  <2> PICK held : held = HeldOf(p, d, s)
    OBVIOUS
  <2>1. held # <<>> /\ OfSource(js, s, held)
    BY DEF QueueOK, ArraysOK
  <2>2. held \in Seq(Nat)
    BY <2>1, AtIs DEF QueueOK
  <2>3. \A x : Contains(held, x) <=> x = Head(held) \/ Contains(Tail(held), x)
    BY <2>1, <2>2, TailOf
  <2>4. \A x : ~Contains(<<>>, x)
    BY DEF Contains
  <2> QED BY <2>3, <2>4 DEF At
<1>7. ArraysOK(js, p2, d2)
  <2>1. OfSource(js, s, p2[s])
    <3>1. OfSource(js, s, p[s]) /\ OfSource(js, s, <<>>)
      BY DEF QueueOK, ArraysOK, OfSource
    <3> QED BY <1>1, <3>1
  <2>2. \A t \in Sources : t # s =>
          OfSource(js, t, p[t]) /\ (d[t].pc # "idle" => HeldOf(p, d, t) # <<>> /\ OfSource(js, t, HeldOf(p, d, t)))
    BY DEF QueueOK, ArraysOK
  <2> QED BY ZenonT(90), <1>4, <1>5, <2>1, <2>2 DEF ArraysOK
<1>8. KeysOK(o2, p2) /\ o2 \in Seq(Sources)
  <2>1. KeysOK(o, p)
    BY DEF QueueOK
  <2>2. CASE p2[s] = <<>>
    BY <1>1, <1>5, <2>1, <2>2, KeyGoes
  <2>3. CASE p2[s] # <<>>
    <3>1. p2 = p /\ o2 = o
      BY <1>1, <2>3
    <3> QED BY <1>1, <2>1, <3>1
  <2> QED BY <2>2, <2>3
<1>9. PassedOK(js, p2, d2)
  BY ZenonT(90), <1>4, <1>5 DEF QueueOK, PassedOK
<1>10. DrivenOK(js, p2, d2)
  <2> SUFFICES ASSUME NEW j \in 1..Len(js), js[j].state = "running"
               PROVE  d2[js[j].source].pc \in Driving /\ At(p2, d2, js[j].source) = j
    BY DEF DrivenOK
  <2>1. d[js[j].source].pc \in Driving /\ At(p, d, js[j].source) = j
    BY DEF QueueOK, DrivenOK
  <2>2. js[j].source # s
    BY <2>1
  <2> QED BY <1>4, <1>5, <2>1, <2>2
<1>11. ListedOK(js, p2, d2, a)
  <2> SUFFICES ASSUME NEW j \in 1..Len(js), js[j].state = "queued"
               PROVE  \/ Contains(p2[js[j].source], j)
                      \/ d2[js[j].source].pc # "idle" /\ Contains(HeldOf(p2, d2, js[j].source), j)
                      \/ \E i \in 1..Len(a) : a[i].job = j /\ a[i].by = "cancel"
    BY DEF ListedOK
  <2>1. \/ Contains(p[js[j].source], j)
        \/ d[js[j].source].pc # "idle" /\ Contains(HeldOf(p, d, js[j].source), j)
        \/ \E i \in 1..Len(a) : a[i].job = j /\ a[i].by = "cancel"
    BY DEF QueueOK, ListedOK
  <2>2. CASE js[j].source # s
    BY <1>4, <1>5, <2>1, <2>2
  <2>3. CASE js[j].source = s
    <3>1. ~Contains(HeldOf(p, d, s), j)
      BY <1>6
    <3>2. d[s].shared => HeldOf(p, d, s) = p[s]
      BY DEF HeldOf
    <3>3. ~d[s].shared => p2[s] = p[s]
      OBVIOUS
    <3> QED BY <2>1, <2>3, <3>1, <3>2, <3>3
  <2> QED BY <2>2, <2>3
<1>12. SlotsOK(d2)
  <2>1. SlotsOK(d)
    BY DEF QueueOK
  <2>2. ActiveIn(d2) \in SUBSET ActiveIn(d)
    BY <1>5 DEF ActiveIn
  <2>3. IsFiniteSet(ActiveIn(d2)) /\ Cardinality(ActiveIn(d2)) <= Cardinality(ActiveIn(d))
    BY <2>1, <2>2, FS_Subset DEF SlotsOK
  <2>4. Cardinality(ActiveIn(d2)) \in Nat /\ Cardinality(ActiveIn(d)) \in Nat
    BY <2>1, <2>3, FS_CardinalityType DEF SlotsOK
  <2> QED BY <2>1, <2>3, <2>4, JobsAssumption DEF SlotsOK
<1>13. QueueTypes(js, o2, p2, d2, a) /\ AloneOK(a)
  BY <1>1, <1>2, <1>8 DEF QueueTypes, QueueOK
<1> QED BY <1>4, <1>7, <1>8, <1>9, <1>10, <1>11, <1>12, <1>13 DEF QueueOK

\* The drain of a source goes on to the next job of its array.
GoesOn(js, p, d, p2, d2, s, rest) ==
  /\ p2 \in [Sources -> Seq(Nat)] /\ d2 \in [Sources -> Drains]
  /\ Aside(p, d, p2, d2, s)
  /\ p2[s] = IF d[s].shared THEN rest ELSE p[s]
  /\ d2[s].pc = Begins(js, Head(rest)) /\ d2[s].shared = d[s].shared
  /\ ~d[s].shared => d2[s].own = rest

LEMMA NextKeeps ==
  ASSUME NEW js, NEW o, NEW p, NEW d, NEW a, QueueOK(js, o, p, d, a), NEW s \in Sources,
         d[s].pc # "idle", js[At(p, d, s)].state \notin {"queued", "running"}, NoneOf(a, s),
         NEW rest, rest = Tail(HeldOf(p, d, s)), rest # <<>>,
         NEW p2, NEW d2, GoesOn(js, p, d, p2, d2, s, rest),
         NEW a2, a2 = a \o RunRecords(js, <<Head(rest)>>)
  PROVE  QueueOK(js, o, p2, d2, a2) /\ Adds(a, a2, <<>>)
<1>1. /\ js \in Seq(Job) /\ o \in Seq(Sources) /\ p \in [Sources -> Seq(Nat)]
      /\ d \in [Sources -> Drains] /\ a \in Seq(Notes)
  BY DEF QueueOK, QueueTypes
<1> PICK held : held = HeldOf(p, d, s)
  OBVIOUS
<1>2. held # <<>> /\ OfSource(js, s, held) /\ held \in Seq(Nat)
  <2>1. held # <<>> /\ OfSource(js, s, held)
    BY DEF QueueOK, ArraysOK
  <2> QED BY <2>1, AtIs DEF QueueOK
<1>3. /\ rest \in Seq(Nat) /\ \A x : Contains(held, x) <=> x = Head(held) \/ Contains(rest, x)
      /\ \A i \in 1..Len(rest) : i + 1 \in 1..Len(held) /\ rest[i] = held[i + 1]
  BY SMTT(90), <1>2, TailOf
<1>4. OfSource(js, s, rest) /\ Head(rest) \in 1..Len(js) /\ js[Head(rest)].source = s
  <2>1. OfSource(js, s, rest)
    BY <1>2, <1>3 DEF OfSource
  <2>2. 1 \in 1..Len(rest) /\ Head(rest) = rest[1]
    BY <1>3
  <2> QED BY <2>1, <2>2 DEF OfSource
<1>6. /\ d2[s].pc = Begins(js, Head(rest)) /\ d2[s].shared = d[s].shared
      /\ ~d[s].shared => d2[s].own = rest
      /\ p2[s] = IF d[s].shared THEN rest ELSE p[s]
  BY DEF GoesOn
<1>7. p2 \in [Sources -> Seq(Nat)] /\ d2 \in [Sources -> Drains]
  BY DEF GoesOn
<1>8. Aside(p, d, p2, d2, s)
  BY DEF GoesOn
<1>9. HeldOf(p2, d2, s) = rest /\ At(p2, d2, s) = Head(rest)
  BY <1>6 DEF HeldOf, At
<1>10. /\ \A t \in Sources : t # s => HeldOf(p2, d2, t) = HeldOf(p, d, t) /\ At(p2, d2, t) = At(p, d, t)
       /\ \A j \in 1..Len(js) : js[j].source \in Sources
       /\ RecordsOK(js, p2, d2, a)
  BY <1>8, AsideKeeps
<1>11. /\ d2[s].pc \in {"starting", "skipping"}
       /\ d2[s].pc = "skipping" => js[Head(rest)].state # "queued"
       /\ \A t \in Sources : t # s => d2[t] = d[t] /\ p2[t] = p[t]
  BY <1>6, <1>8 DEF Begins, Aside
<1>12. ArraysOK(js, p2, d2)
  <2>1. OfSource(js, s, p2[s])
    <3>1. OfSource(js, s, p[s])
      BY DEF QueueOK, ArraysOK
    <3> QED BY <1>4, <1>6, <3>1
  <2>2. \A t \in Sources : t # s =>
          OfSource(js, t, p[t]) /\ (d[t].pc # "idle" => HeldOf(p, d, t) # <<>> /\ OfSource(js, t, HeldOf(p, d, t)))
    BY DEF QueueOK, ArraysOK
  <2> QED BY <1>4, <1>9, <1>10, <1>11, <2>1, <2>2 DEF ArraysOK
<1>13. KeysOK(o, p2)
  <2>1. p2[s] # <<>> <=> p[s] # <<>>
    BY <1>2, <1>6 DEF HeldOf
  <2> QED BY <1>11, <2>1 DEF QueueOK, KeysOK
<1>14. /\ a2 \in Seq(Notes) /\ RecordsOK(js, p2, d2, a2) /\ AloneOK(a2) /\ Adds(a, a2, <<>>)
       /\ \A i \in 1..Len(a) : i \in 1..Len(a2) /\ a2[i] = a[i]
  <2> DEFINE recs == RunRecords(js, <<Head(rest)>>)
  <2>1. <<s>> \in Seq(Sources) /\ <<Head(rest)>> \in Seq(Nat)
    BY <1>4
  <2>2. About(js, p2, d2, <<s>>, <<Head(rest)>>)
    BY <1>4, <1>6, <1>9 DEF About
  <2>3. /\ recs \in Seq(Notes) /\ RecordsOK(js, p2, d2, recs) /\ AloneOK(recs)
        /\ Among(<<s>>, recs) /\ OnlyRuns(recs)
    BY <1>1, <2>1, <2>2, StartRecords
  <2> HIDE DEF recs
  <2>4. \A i \in 1..Len(recs) : recs[i].source = s
    BY <2>3 DEF Among, Contains
  <2>5. \A i \in 1..Len(a), k \in 1..Len(recs) :
          ByDrain(a[i]) /\ ByDrain(recs[k]) => a[i].source # recs[k].source
    BY <2>4 DEF NoneOf
  <2>6. AloneOK(a) /\ a2 = a \o recs
    BY DEF QueueOK, recs
  <2>7. a2 \in Seq(Notes) /\ RecordsOK(js, p2, d2, a2) /\ AloneOK(a2)
    <3>1. a \in Seq(Notes) /\ recs \in Seq(Notes) /\ AloneOK(a) /\ AloneOK(recs)
          /\ RecordsOK(js, p2, d2, a) /\ RecordsOK(js, p2, d2, recs)
      BY <1>1, <1>10, <2>3, <2>6
    <3>2. /\ a \o recs \in Seq(Notes) /\ RecordsOK(js, p2, d2, a \o recs)
          /\ AloneOK(a \o recs)
      BY <2>5, <3>1, RecordsJoin
    <3> QED BY <2>6, <3>2
  <2>8. \A i \in 1..Len(a) : i \in 1..Len(a2) /\ a2[i] = a[i]
    BY <1>1, <2>3, <2>6, JoinOf
  <2>9. (a \o recs) \o <<>> = a2
    BY <2>6, <2>7, NothingMore
  <2>10. Adds(a, a2, <<>>)
    BY <2>3, <2>9 DEF Adds
  <2> QED BY <2>7, <2>8, <2>10
<1>15. PassedOK(js, p2, d2)
  BY <1>9, <1>10, <1>11 DEF QueueOK, PassedOK
<1>16. DrivenOK(js, p2, d2)
  <2> SUFFICES ASSUME NEW j \in 1..Len(js), js[j].state = "running"
               PROVE  d2[js[j].source].pc \in Driving /\ At(p2, d2, js[j].source) = j
    BY DEF DrivenOK
  <2>1. d[js[j].source].pc \in Driving /\ At(p, d, js[j].source) = j
    BY DEF QueueOK, DrivenOK
  <2>2. js[j].source # s
    BY <2>1
  <2> QED BY <1>10, <1>11, <2>1, <2>2
<1>17. ListedOK(js, p2, d2, a2)
  <2> SUFFICES ASSUME NEW j \in 1..Len(js), js[j].state = "queued"
               PROVE  \/ Contains(p2[js[j].source], j)
                      \/ d2[js[j].source].pc # "idle" /\ Contains(HeldOf(p2, d2, js[j].source), j)
                      \/ \E i \in 1..Len(a2) : a2[i].job = j /\ a2[i].by = "cancel"
    BY DEF ListedOK
  <2>1. \/ Contains(p[js[j].source], j)
        \/ d[js[j].source].pc # "idle" /\ Contains(HeldOf(p, d, js[j].source), j)
        \/ \E i \in 1..Len(a) : a[i].job = j /\ a[i].by = "cancel"
    BY DEF QueueOK, ListedOK
  <2>2. CASE \E i \in 1..Len(a) : a[i].job = j /\ a[i].by = "cancel"
    BY <1>14, <2>2
  <2>3. CASE js[j].source # s
    BY <1>10, <1>11, <2>1, <2>2, <2>3
  <2>4. CASE js[j].source = s
    <3>1. Contains(held, j) => Contains(rest, j)
      BY <1>3 DEF At
    <3>2. d[s].shared => held = p[s] /\ p2[s] = rest
      BY <1>6 DEF HeldOf
    <3>3. ~d[s].shared => p2[s] = p[s]
      BY <1>6
    <3> QED BY <1>9, <1>11, <2>1, <2>2, <2>4, <3>1, <3>2, <3>3
  <2> QED BY <2>3, <2>4
<1>18. SlotsOK(d2)
  <2>1. SlotsOK(d)
    BY DEF QueueOK
  <2>2. ActiveIn(d2) = ActiveIn(d)
    <3>1. \A t \in Sources : d2[t].pc # "idle" <=> d[t].pc # "idle"
      BY <1>11
    <3> QED BY <3>1 DEF ActiveIn
  <2> QED BY <2>1, <2>2 DEF SlotsOK
<1>19. QueueTypes(js, o, p2, d2, a2)
  BY <1>1, <1>7, <1>14 DEF QueueTypes
<1> QED BY <1>12, <1>13, <1>14, <1>15, <1>16, <1>17, <1>18, <1>19 DEF QueueOK

\* processSource after a job: on to the next, or the slot to another source.
LEMMA AdvanceKeeps ==
  ASSUME NEW js, NEW a, QueueOK(js, order, pending, drain, a), NEW s \in Sources,
         drain[s].pc # "idle", js[At(pending, drain, s)].state \notin {"queued", "running"},
         NoneOf(a, s), Advance(s, js, a)
  PROVE  QueueOK(js, order', pending', drain', appends') /\ Adds(a, appends', <<>>)
<1> PICK rest : rest = Tail(HeldOf(pending, drain, s))
  OBVIOUS
<1>1. rest = Tail(Held(s))
  BY DEF Held, HeldOf
<1> PICK p2 : p2 = IF drain[s].shared THEN [pending EXCEPT ![s] = rest] ELSE pending
  OBVIOUS
<1>2. CASE rest = <<>>
  <2> PICK o2 : o2 = IF p2[s] = <<>> THEN Without(order, s) ELSE order
    OBVIOUS
  <2> PICK d2 : d2 = [drain EXCEPT ![s] = Asleep]
    OBVIOUS
  <2>1. QueueOK(js, o2, p2, d2, a)
    BY <1>2, EndKeeps
  <2>2. Schedule(o2, p2, d2, a, js, <<>>)
    BY <1>1, <1>2 DEF Advance, Frees, Leftover, Kept
  <2>3. <<>> \in Seq(Notes) /\ AllNew(<<>>)
    BY DEF AllNew
  <2> QED BY <2>1, <2>2, <2>3, ScheduleKeeps
<1>3. CASE rest # <<>>
  <2>1. /\ pending' = p2 /\ order' = order
        /\ drain' = [drain EXCEPT ![s].pc = Begins(js, Head(rest)), ![s].grant = NoGrant,
                                  ![s].own = IF drain[s].shared THEN <<>> ELSE rest]
        /\ appends' = a \o RunRecords(js, <<Head(rest)>>)
    BY <1>1, <1>3 DEF Advance
  <2> PICK d2 : d2 = drain'
    OBVIOUS
  <2>2. pending \in [Sources -> Seq(Nat)] /\ drain \in [Sources -> Drains] /\ drain[s] \in Drains
    BY DEF QueueOK, QueueTypes
  <2>3. d2[s] = [drain[s] EXCEPT !.pc = Begins(js, Head(rest)), !.grant = NoGrant,
                                 !.own = IF drain[s].shared THEN <<>> ELSE rest]
        /\ (\A t \in Sources : t # s => d2[t] = drain[t])
        /\ d2 = [t \in Sources |-> d2[t]]
    BY <2>1, <2>2
  <2>4. rest \in Seq(Nat)
    <3> PICK held : held = HeldOf(pending, drain, s)
      OBVIOUS
    <3>1. held # <<>> /\ OfSource(js, s, held)
      BY DEF QueueOK, ArraysOK
    <3>2. held \in Seq(Nat)
      BY <3>1, AtIs DEF QueueOK
    <3> QED BY <3>1, <3>2, TailOf
  <2>5. /\ d2[s] \in Drains /\ d2[s].pc = Begins(js, Head(rest)) /\ d2[s].shared = drain[s].shared
        /\ ~drain[s].shared => d2[s].own = rest
    <3>1. <<>> \in Seq(Nat) /\ Begins(js, Head(rest)) \in Pcs
      BY DEF Begins, Pcs
    <3> PICK x, own : x = d2[s] /\ own = IF drain[s].shared THEN <<>> ELSE rest
      OBVIOUS
    <3>2. x = [drain[s] EXCEPT !.pc = Begins(js, Head(rest)), !.grant = NoGrant, !.own = own]
      BY <2>3
    <3>3. own \in Seq(Nat) /\ (~drain[s].shared => own = rest)
      BY <2>4, <3>1
    <3>4. /\ x.pc = Begins(js, Head(rest)) /\ x.own = own /\ x.shared = drain[s].shared
          /\ x.grant = NoGrant /\ x.aborted = drain[s].aborted /\ x.rev = drain[s].rev
      BY <2>2, <3>2 DEF Drains
    <3>5. x \in Drains
      BY <2>2, <3>1, <3>2, <3>3 DEF Drains
    <3> QED BY <3>3, <3>4, <3>5
  <2>6. d2 \in [Sources -> Drains]
    <3>1. \A t \in Sources : d2[t] \in Drains
      BY <2>2, <2>3, <2>5
    <3> QED BY <2>3, <3>1
  <2>7. p2 \in [Sources -> Seq(Nat)] /\ p2[s] = (IF drain[s].shared THEN rest ELSE pending[s])
        /\ \A t \in Sources : t # s => p2[t] = pending[t]
    BY <2>2, <2>4
  <2>8. GoesOn(js, pending, drain, p2, d2, s, rest)
    BY <2>3, <2>5, <2>6, <2>7 DEF GoesOn, Aside
  <2>9. QueueOK(js, order, p2, d2, appends') /\ Adds(a, appends', <<>>)
    <3> PICK a2 : a2 = appends'
      OBVIOUS
    <3>1. a2 = a \o RunRecords(js, <<Head(rest)>>)
      BY <2>1
    <3>2. QueueOK(js, order, p2, d2, a2) /\ Adds(a, a2, <<>>)
      BY <1>3, <2>8, <3>1, NextKeeps
    <3> QED BY <3>2
  <2> QED BY <2>1, <2>9
<1> QED BY <1>2, <1>3

-----------------------------------------------------------------------------
(* A record lands.                                                           *)

\* A record of a known job changes its state and nothing that the arrays tell.
Relabelled(js, js2, n) ==
  /\ js2 \in Seq(Job) /\ Len(js2) = Len(js)
  /\ n.job \in 1..Len(js) /\ js2[n.job].state = n.state /\ js2[n.job].error = n.error
  /\ \A j \in 1..Len(js) : js2[j].source = js[j].source /\ js2[j].batch = js[j].batch
  /\ \A j \in 1..Len(js) : j # n.job => js2[j] = js[j]

LEMMA WithKnown ==
  ASSUME jobs \in Seq(Job), NEW p, NEW d, NEW n \in Notes, ~ByNew(n), RecordOK(jobs, p, d, n)
  PROVE  Relabelled(jobs, With(n), n)
<1> DEFINE job == [source |-> n.source, batch |-> n.batch, state |-> n.state, error |-> n.error]
<1>1. /\ n.job \in 1..Len(jobs) /\ n.source = jobs[n.job].source /\ n.batch = jobs[n.job].batch
  BY DEF RecordOK
<1>2. Len(jobs) \in Nat
  OBVIOUS
<1>3. n.job # 0
  BY <1>1, <1>2
<1>4. With(n) = [jobs EXCEPT ![n.job] = job]
  BY <1>3 DEF With
<1>5. job \in Job /\ job.source = n.source /\ job.batch = n.batch /\ job.state = n.state
      /\ job.error = n.error
  BY DEF Notes, Job
<1> HIDE DEF job
<1> PICK js2 : js2 = [jobs EXCEPT ![n.job] = job]
  OBVIOUS
<1>6. js2 \in Seq(Job) /\ Len(js2) = Len(jobs) /\ js2[n.job] = job
      /\ \A j \in 1..Len(jobs) : j # n.job => js2[j] = jobs[j]
  BY <1>1, <1>5
<1>7. Relabelled(jobs, js2, n)
  BY <1>1, <1>5, <1>6 DEF Relabelled
<1> QED BY <1>4, <1>7

LEMMA RelabelKeeps ==
  ASSUME NEW js, NEW o, NEW p, NEW d, NEW a, QueueOK(js, o, p, d, a), a # <<>>,
         NEW js2, Relabelled(js, js2, Head(a)), Head(a).state # "queued", ~ByNew(Head(a))
  PROVE  /\ QueueTypes(js2, o, p, d, Tail(a)) /\ ArraysOK(js2, p, d)
         /\ RecordsOK(js2, p, d, Tail(a)) /\ AloneOK(Tail(a)) /\ PassedOK(js2, p, d)
         /\ ListedOK(js2, p, d, Tail(a))
         /\ ByDrain(Head(a)) => NoneOf(Tail(a), Head(a).source)
<1> PICK n, t : n = Head(a) /\ t = Tail(a)
  OBVIOUS
<1>1. /\ js2 \in Seq(Job) /\ Len(js2) = Len(js)
      /\ n.job \in 1..Len(js) /\ js2[n.job].state = n.state /\ n.state # "queued"
      /\ \A j \in 1..Len(js) : js2[j].source = js[j].source /\ js2[j].batch = js[j].batch
      /\ \A j \in 1..Len(js) : j # n.job => js2[j] = js[j]
  BY DEF Relabelled
<1>2. QueueTypes(js, o, p, d, a)
  BY DEF QueueOK
<1>3. /\ t \in Seq(Notes) /\ RecordsOK(js, p, d, t) /\ AloneOK(t)
      /\ ByDrain(n) => NoneOf(t, n.source)
  <2>1. a \in Seq(Notes) /\ RecordsOK(js, p, d, a) /\ AloneOK(a)
    BY <1>2 DEF QueueOK, QueueTypes
  <2>2. /\ t \in Seq(Notes) /\ RecordsOK(js, p, d, t) /\ AloneOK(t)
        /\ ByDrain(n) => \A i \in 1..Len(t) : ByDrain(t[i]) => t[i].source # n.source
    BY <2>1, RecordsTail
  <2> QED BY <2>2 DEF NoneOf
<1>4. QueueTypes(js2, o, p, d, t)
  BY <1>1, <1>2, <1>3 DEF QueueTypes
<1>5. ArraysOK(js2, p, d)
  <2>1. \A s, list : OfSource(js, s, list) => OfSource(js2, s, list)
    BY <1>1 DEF OfSource
  <2> QED BY <2>1 DEF QueueOK, ArraysOK
<1>6. RecordsOK(js2, p, d, t)
  <2> SUFFICES ASSUME NEW i \in 1..Len(t) PROVE RecordOK(js2, p, d, t[i])
    BY DEF RecordsOK
  <2>1. RecordOK(js, p, d, t[i])
    BY <1>3 DEF RecordsOK
  <2> QED BY <1>1, <2>1 DEF RecordOK
<1>7. PassedOK(js2, p, d)
  <2> SUFFICES ASSUME NEW s \in Sources, d[s].pc \notin {"idle", "starting"}
               PROVE  js2[At(p, d, s)].state # "queued"
    BY DEF PassedOK
  <2>1. js[At(p, d, s)].state # "queued"
    BY DEF QueueOK, PassedOK
  <2>2. At(p, d, s) \in 1..Len(js)
    <3>1. HeldOf(p, d, s) # <<>> /\ OfSource(js, s, HeldOf(p, d, s))
      BY DEF QueueOK, ArraysOK
    <3> QED BY <1>2, <3>1, AtIs
  <2> QED BY <1>1, <2>1, <2>2
<1>8. ListedOK(js2, p, d, t)
  <2> SUFFICES ASSUME NEW j \in 1..Len(js2), js2[j].state = "queued"
               PROVE  \/ Contains(p[js2[j].source], j)
                      \/ d[js2[j].source].pc # "idle" /\ Contains(HeldOf(p, d, js2[j].source), j)
                      \/ \E i \in 1..Len(t) : t[i].job = j /\ t[i].by = "cancel"
    BY DEF ListedOK
  <2>1. j \in 1..Len(js) /\ j # n.job /\ js2[j] = js[j]
    BY <1>1
  <2>2. \/ Contains(p[js[j].source], j)
        \/ d[js[j].source].pc # "idle" /\ Contains(HeldOf(p, d, js[j].source), j)
        \/ \E i \in 1..Len(a) : a[i].job = j /\ a[i].by = "cancel"
    BY <2>1 DEF QueueOK, ListedOK
  <2>3. ASSUME NEW i \in 1..Len(a), a[i].job = j, a[i].by = "cancel"
        PROVE  \E k \in 1..Len(t) : t[k].job = j /\ t[k].by = "cancel"
    <3>1. a \in Seq(Notes)
      BY <1>2 DEF QueueTypes
    <3>2. Contains(a, a[i]) /\ a[i] # n
      BY <2>1, <2>3 DEF Contains
    <3>3. \A x : Contains(a, x) <=> x = Head(a) \/ Contains(Tail(a), x)
      BY <3>1, TailOf
    <3>4. Contains(t, a[i])
      BY <3>2, <3>3
    <3> QED BY <2>3, <3>4 DEF Contains
  <2> QED BY <2>1, <2>2, <2>3
<1> QED BY <1>3, <1>4, <1>5, <1>6, <1>7, <1>8

\* The record of a job that has been cancelled, or has ended its run.
LEMMA SettleKeeps ==
  ASSUME NEW js, NEW o, NEW p, NEW d, NEW a, QueueOK(js, o, p, d, a), a # <<>>,
         NEW js2, Relabelled(js, js2, Head(a)), Head(a).state \notin {"queued", "running"},
         ~ByNew(Head(a))
  PROVE  QueueOK(js2, o, p, d, Tail(a))
<1>1. /\ QueueTypes(js2, o, p, d, Tail(a)) /\ ArraysOK(js2, p, d)
      /\ RecordsOK(js2, p, d, Tail(a)) /\ AloneOK(Tail(a)) /\ PassedOK(js2, p, d)
      /\ ListedOK(js2, p, d, Tail(a))
  BY RelabelKeeps
<1>2. DrivenOK(js2, p, d)
  <2>1. \A j \in 1..Len(js2) : js2[j].state = "running" =>
          j \in 1..Len(js) /\ js[j].state = "running" /\ js2[j].source = js[j].source
    BY DEF Relabelled
  <2> QED BY <2>1 DEF QueueOK, DrivenOK
<1>3. KeysOK(o, p) /\ SlotsOK(d)
  BY DEF QueueOK
<1> QED BY <1>1, <1>2, <1>3 DEF QueueOK

\* The record of a job that runs, at which its drain goes on.
StepsOn(d, d2, s) ==
  /\ d2 \in [Sources -> Drains]
  /\ \A t \in Sources : t # s => d2[t] = d[t]
  /\ d2[s].shared = d[s].shared /\ d2[s].own = d[s].own
  /\ d2[s].pc \in Driving

SameArrays(p, d, d2) ==
  \A t \in Sources : HeldOf(p, d2, t) = HeldOf(p, d, t) /\ At(p, d2, t) = At(p, d, t)

LEMMA StepsOnKeeps ==
  ASSUME NEW js \in Seq(Job), NEW p, NEW d, NEW a \in Seq(Notes), NEW s \in Sources, NEW d2,
         StepsOn(d, d2, s), d[s].pc # "idle",
         ArraysOK(js, p, d), SlotsOK(d), ListedOK(js, p, d, a)
  PROVE  /\ ArraysOK(js, p, d2) /\ SlotsOK(d2) /\ ListedOK(js, p, d2, a)
         /\ SameArrays(p, d, d2)
         /\ NoneOf(a, s) /\ RecordsOK(js, p, d, a) => RecordsOK(js, p, d2, a)
<1>1. \A t \in Sources : HeldOf(p, d2, t) = HeldOf(p, d, t) /\ At(p, d2, t) = At(p, d, t)
  BY DEF StepsOn, HeldOf, At
<1>2. d2[s].pc # "idle" /\ \A t \in Sources : t # s => d2[t] = d[t]
  BY DEF StepsOn, Driving
<1>3. \A t \in Sources : d2[t].pc # "idle" <=> d[t].pc # "idle"
  BY <1>2
<1>4. ArraysOK(js, p, d2)
  BY <1>1, <1>3 DEF ArraysOK
<1>5. SlotsOK(d2)
  <2>1. ActiveIn(d2) = ActiveIn(d)
    BY <1>3 DEF ActiveIn
  <2> QED BY <2>1 DEF SlotsOK
<1>6. ListedOK(js, p, d2, a)
  <2> SUFFICES ASSUME NEW j \in 1..Len(js), js[j].state = "queued"
               PROVE  \/ Contains(p[js[j].source], j)
                      \/ d2[js[j].source].pc # "idle" /\ Contains(HeldOf(p, d2, js[j].source), j)
                      \/ \E i \in 1..Len(a) : a[i].job = j /\ a[i].by = "cancel"
    BY DEF ListedOK
  <2>0. js[j] \in Job
    OBVIOUS
  <2> PICK u : u = js[j].source
    OBVIOUS
  <2>1. u \in Sources
    BY <2>0 DEF Job
  <2>2. HeldOf(p, d2, u) = HeldOf(p, d, u) /\ (d[u].pc # "idle" => d2[u].pc # "idle")
    BY <1>1, <1>3, <2>1
  <2> QED BY <2>2 DEF ListedOK
<1>7. ASSUME NoneOf(a, s), RecordsOK(js, p, d, a) PROVE RecordsOK(js, p, d2, a)
  <2> SUFFICES ASSUME NEW i \in 1..Len(a) PROVE RecordOK(js, p, d2, a[i])
    BY DEF RecordsOK
  <2>1. RecordOK(js, p, d, a[i]) /\ a[i] \in Notes
    BY <1>7 DEF RecordsOK
  <2>2. ByDrain(a[i]) => a[i].source # s /\ a[i].source \in Sources
    BY <1>7, <2>1 DEF NoneOf, Notes
  <2> QED BY <1>1, <1>2, <2>1, <2>2 DEF RecordOK
<1> QED BY <1>1, <1>4, <1>5, <1>6, <1>7 DEF SameArrays

LEMMA RunsKeep ==
  ASSUME NEW js, NEW o, NEW p, NEW d, NEW a, QueueOK(js, o, p, d, a), a # <<>>,
         NEW js2, Relabelled(js, js2, Head(a)), Head(a).by \in {"run", "report"},
         NEW d2, StepsOn(d, d2, Head(a).source)
  PROVE  QueueOK(js2, o, p, d2, Tail(a))
<1> PICK n, t : n = Head(a) /\ t = Tail(a)
  OBVIOUS
<1> PICK s : s = n.source
  OBVIOUS
<1>1. RecordOK(js, p, d, n) /\ n \in Notes
  <2>1. a \in Seq(Notes) /\ RecordsOK(js, p, d, a) /\ AloneOK(a)
    BY DEF QueueOK, QueueTypes
  <2> QED BY <2>1, RecordsTail
<1>2. /\ s \in Sources /\ n.state = "running" /\ n.job = At(p, d, s) /\ ~ByNew(n) /\ ByDrain(n)
      /\ d[s].pc \in {"starting", "reporting"} /\ n.source = js[n.job].source
  BY <1>1 DEF RecordOK, ByNew, ByDrain, Awaits, Notes
<1>3. /\ QueueTypes(js2, o, p, d, t) /\ ArraysOK(js2, p, d)
      /\ RecordsOK(js2, p, d, t) /\ AloneOK(t) /\ PassedOK(js2, p, d)
      /\ ListedOK(js2, p, d, t) /\ NoneOf(t, s)
  BY <1>2, RelabelKeeps
<1>4. KeysOK(o, p) /\ SlotsOK(d)
  BY DEF QueueOK
<1>5. StepsOn(d, d2, s) /\ t \in Seq(Notes)
  BY <1>3 DEF QueueTypes
<1>6. /\ ArraysOK(js2, p, d2) /\ SlotsOK(d2) /\ ListedOK(js2, p, d2, t)
      /\ \A u \in Sources : HeldOf(p, d2, u) = HeldOf(p, d, u) /\ At(p, d2, u) = At(p, d, u)
      /\ RecordsOK(js2, p, d2, t)
  <2>1. js2 \in Seq(Job) /\ d[s].pc # "idle"
    BY <1>2, <1>3 DEF QueueTypes
  <2>2. /\ ArraysOK(js2, p, d2) /\ SlotsOK(d2) /\ ListedOK(js2, p, d2, t)
        /\ SameArrays(p, d, d2)
        /\ NoneOf(t, s) /\ RecordsOK(js2, p, d, t) => RecordsOK(js2, p, d2, t)
    BY <1>2, <1>3, <1>4, <1>5, <2>1, StepsOnKeeps
  <2> QED BY <1>3, <2>2 DEF SameArrays
<1>7. d2[s].pc \in Driving /\ \A u \in Sources : u # s => d2[u] = d[u]
  BY <1>5 DEF StepsOn
<1>8. /\ n.job \in 1..Len(js) /\ js2[n.job].state = "running"
      /\ Len(js2) = Len(js) /\ js2 \in Seq(Job)
      /\ \A j \in 1..Len(js) : js2[j].source = js[j].source
      /\ \A j \in 1..Len(js) : j # n.job => js2[j] = js[j]
  BY <1>2 DEF Relabelled
<1>9. PassedOK(js2, p, d2)
  <2> SUFFICES ASSUME NEW u \in Sources, d2[u].pc \notin {"idle", "starting"}
               PROVE  js2[At(p, d2, u)].state # "queued"
    BY DEF PassedOK
  <2>1. CASE u = s
    BY <1>2, <1>6, <1>8, <2>1
  <2>2. CASE u # s
    BY <1>3, <1>6, <1>7, <2>2 DEF PassedOK
  <2> QED BY <2>1, <2>2
<1>10. DrivenOK(js2, p, d2)
  <2> SUFFICES ASSUME NEW j \in 1..Len(js2), js2[j].state = "running"
               PROVE  d2[js2[j].source].pc \in Driving /\ At(p, d2, js2[j].source) = j
    BY DEF DrivenOK
  <2>0. js2[j] \in Job /\ j \in 1..Len(js)
    BY <1>8
  <2>1. js2[j].source \in Sources /\ j \in 1..Len(js)
    BY <2>0 DEF Job
  <2>2. CASE j = n.job
    BY <1>2, <1>6, <1>7, <1>8, <2>1, <2>2
  <2>3. CASE j # n.job
    <3>1. d[js[j].source].pc \in Driving /\ At(p, d, js[j].source) = j /\ js2[j] = js[j]
      BY <1>8, <2>1, <2>3 DEF QueueOK, DrivenOK
    <3> QED BY <1>6, <1>7, <2>1, <3>1
  <2> QED BY <2>2, <2>3
<1>11. QueueTypes(js2, o, p, d2, t)
  BY <1>3, <1>5 DEF QueueTypes, StepsOn
<1> QED BY <1>3, <1>4, <1>6, <1>9, <1>10, <1>11 DEF QueueOK

Longer(list, more, x) ==
  /\ Len(list) \in Nat /\ Len(more) = Len(list) + 1 /\ more[Len(list) + 1] = x
  /\ \A i \in 1..Len(list) : more[i] = list[i]

LEMMA HasMore ==
  ASSUME NEW list, NEW more, NEW x, Longer(list, more, x)
  PROVE  \A y : Contains(more, y) <=> Contains(list, y) \/ y = x
<1>1. /\ Len(more) = Len(list) + 1 /\ Len(list) \in Nat /\ more[Len(list) + 1] = x
      /\ \A i \in 1..Len(list) : i \in 1..Len(more) /\ more[i] = list[i]
      /\ \A i \in 1..Len(more) : i \in 1..Len(list) \/ i = Len(list) + 1
  BY DEF Longer
<1>2. Len(list) + 1 \in 1..Len(more)
  BY <1>1
<1>3. ASSUME NEW y PROVE Contains(more, y) => Contains(list, y) \/ y = x
  BY <1>1 DEF Contains
<1>4. ASSUME NEW y PROVE Contains(list, y) \/ y = x => Contains(more, y)
  BY <1>1, <1>2 DEF Contains
<1> QED BY <1>3, <1>4

\* The record of a new job: it joins the array of its source.
Joins(js, js2, o, o2, p, p2, s) ==
  /\ js2 \in Seq(Job) /\ Len(js2) = Len(js) + 1
  /\ \A j \in 1..Len(js) : js2[j] = js[j]
  /\ js2[Len(js) + 1].state = "queued" /\ js2[Len(js) + 1].source = s
  /\ p2 = [p EXCEPT ![s] = Append(p[s], Len(js) + 1)]
  /\ o2 = IF p[s] = <<>> THEN Append(o, s) ELSE o

LEMMA JoinKeeps ==
  ASSUME NEW js, NEW o, NEW p, NEW d, NEW a, QueueOK(js, o, p, d, a), a # <<>>, ByNew(Head(a)),
         NEW s \in Sources, NEW js2, NEW o2, NEW p2, Joins(js, js2, o, o2, p, p2, s)
  PROVE  QueueOK(js2, o2, p2, d, Tail(a))
<1> PICK n, t : n = Head(a) /\ t = Tail(a)
  OBVIOUS
<1> PICK new : new = Len(js) + 1
  OBVIOUS
<1>1. /\ js \in Seq(Job) /\ o \in Seq(Sources) /\ p \in [Sources -> Seq(Nat)]
      /\ d \in [Sources -> Drains] /\ a \in Seq(Notes) /\ Len(js) \in Nat /\ new \in Nat
  <2>1. js \in Seq(Job) /\ o \in Seq(Sources) /\ p \in [Sources -> Seq(Nat)]
        /\ d \in [Sources -> Drains] /\ a \in Seq(Notes)
    BY DEF QueueOK, QueueTypes
  <2> QED BY <2>1
<1>2. /\ js2 \in Seq(Job) /\ Len(js2) = new /\ js2[new].state = "queued" /\ js2[new].source = s
      /\ \A j \in 1..Len(js) : js2[j] = js[j]
  BY DEF Joins
<1>3. /\ p2[s] = Append(p[s], new) /\ p2[s] \in Seq(Nat) /\ p[s] \in Seq(Nat)
      /\ \A u \in Sources : u # s => p2[u] = p[u]
      /\ p2 \in [Sources -> Seq(Nat)]
  BY SMTT(90), <1>1 DEF Joins
<1>4. /\ \A x : Contains(p2[s], x) <=> Contains(p[s], x) \/ x = new
      /\ \A i \in 1..Len(p2[s]) : (i \in 1..Len(p[s]) /\ p2[s][i] = p[s][i]) \/ p2[s][i] = new
      /\ p2[s] # <<>>
      /\ p[s] # <<>> => Head(p2[s]) = Head(p[s])
  <2>1. \A x : Contains(p2[s], x) <=> Contains(p[s], x) \/ x = new
    <3>1. p[s] \in Seq(Nat) /\ new \in Nat /\ p2[s] = Append(p[s], new)
      BY <1>1, <1>3
    <3>2. Longer(p[s], p2[s], new)
      BY <3>1 DEF Longer
    <3> QED BY <3>2, HasMore
  <2> PICK l, l2 : l = p[s] /\ l2 = p2[s]
    OBVIOUS
  <2>2. l \in Seq(Nat) /\ l2 = Append(l, new)
    BY <1>3
  <2>3. l2 # <<>> /\ (l # <<>> => Head(l2) = Head(l))
        /\ \A i \in 1..Len(l2) : (i \in 1..Len(l) /\ l2[i] = l[i]) \/ l2[i] = new
    BY SMTT(90), <1>1, <2>2
  <2> QED BY <2>1, <2>3
<1>5. /\ t \in Seq(Notes) /\ RecordsOK(js, p, d, t) /\ AloneOK(t)
  <2>1. RecordsOK(js, p, d, a) /\ AloneOK(a)
    BY DEF QueueOK
  <2> QED BY <1>1, <2>1, RecordsTail
<1>6. \A u \in Sources : u # s \/ ~d[u].shared => HeldOf(p2, d, u) = HeldOf(p, d, u) /\ At(p2, d, u) = At(p, d, u)
  BY <1>3 DEF HeldOf, At
<1>7. \A u \in Sources : d[u].pc # "idle" => At(p2, d, u) = At(p, d, u) /\ HeldOf(p2, d, u) # <<>>
  <2> SUFFICES ASSUME NEW u \in Sources, d[u].pc # "idle"
               PROVE  At(p2, d, u) = At(p, d, u) /\ HeldOf(p2, d, u) # <<>>
    OBVIOUS
  <2>1. HeldOf(p, d, u) # <<>>
    BY DEF QueueOK, ArraysOK
  <2>2. CASE u # s \/ ~d[u].shared
    BY <1>6, <2>1, <2>2
  <2>3. CASE u = s /\ d[u].shared
    BY <1>4, <2>1, <2>3 DEF HeldOf, At
  <2> QED BY <2>2, <2>3
<1>8. \A u, list : OfSource(js, u, list) => OfSource(js2, u, list)
  BY SMTT(90), <1>1, <1>2 DEF OfSource
<1>9. \A u \in Sources : OfSource(js2, u, p2[u])
  <2> SUFFICES ASSUME NEW u \in Sources PROVE OfSource(js2, u, p2[u])
    OBVIOUS
  <2>1. OfSource(js2, u, p[u])
    BY <1>8 DEF QueueOK, ArraysOK
  <2>2. new \in 1..Len(js2)
    BY <1>1, <1>2
  <2>3. OfSource(js2, s, p[s]) => OfSource(js2, s, p2[s])
    BY <1>2, <1>4, <2>2 DEF OfSource
  <2> QED BY <1>3, <2>1, <2>3
<1>10. ArraysOK(js2, p2, d)
  <2> SUFFICES ASSUME NEW u \in Sources, d[u].pc # "idle"
               PROVE  HeldOf(p2, d, u) # <<>> /\ OfSource(js2, u, HeldOf(p2, d, u))
    BY <1>9 DEF ArraysOK
  <2>1. OfSource(js2, u, HeldOf(p, d, u))
    BY <1>8 DEF QueueOK, ArraysOK
  <2>2. HeldOf(p2, d, u) = p2[u] \/ HeldOf(p2, d, u) = HeldOf(p, d, u)
    BY DEF HeldOf
  <2> QED BY <1>7, <1>9, <2>1, <2>2
<1>11. o2 \in Seq(Sources) /\ KeysOK(o2, p2)
  <2>1. KeysOK(o, p)
    BY DEF QueueOK
  <2>2. CASE p[s] # <<>>
    <3>1. o2 = o
      BY <2>2 DEF Joins
    <3> QED BY <1>1, <1>3, <1>4, <2>1, <2>2, <3>1 DEF KeysOK
  <2>3. CASE p[s] = <<>>
    <3>1. o2 = Append(o, s)
      BY <2>3 DEF Joins
    <3>2. /\ o2 \in Seq(Sources) /\ \A x : Contains(o2, x) <=> Contains(o, x) \/ x = s
      <4>1. o2 \in Seq(Sources) /\ Longer(o, o2, s)
        BY <1>1, <3>1 DEF Longer
      <4> QED BY <4>1, HasMore
    <3>3. ~Contains(o, s)
      BY <2>1, <2>3 DEF KeysOK
    <3>4. \A i \in 1..Len(o2) : (i \in 1..Len(o) /\ o2[i] = o[i]) \/ (i = Len(o) + 1 /\ o2[i] = s)
      BY <1>1, <3>1
    <3>5. \A i, k \in 1..Len(o2) : o2[i] = o2[k] => i = k
      BY <2>1, <3>3, <3>4 DEF KeysOK, Contains
    <3>6. \A u \in Sources : Contains(o2, u) <=> p2[u] # <<>>
      BY <1>3, <1>4, <2>1, <3>2 DEF KeysOK
    <3> QED BY <3>2, <3>5, <3>6 DEF KeysOK
  <2> QED BY <2>2, <2>3
<1>12. RecordsOK(js2, p2, d, t)
  <2> SUFFICES ASSUME NEW i \in 1..Len(t) PROVE RecordOK(js2, p2, d, t[i])
    BY DEF RecordsOK
  <2>1. RecordOK(js, p, d, t[i]) /\ t[i] \in Notes
    BY <1>5 DEF RecordsOK
  <2>2. t[i].source \in Sources
    BY <2>1 DEF Notes
  <2>3. ~ByNew(t[i]) => t[i].job \in 1..Len(js) /\ t[i].job \in 1..Len(js2) /\ js2[t[i].job] = js[t[i].job]
    <3>1. \A j \in 1..Len(js) : j \in 1..Len(js2)
      BY <1>1, <1>2
    <3> QED BY <1>2, <2>1, <3>1 DEF RecordOK
  <2>4. ByDrain(t[i]) => At(p2, d, t[i].source) = At(p, d, t[i].source)
    BY <1>7, <2>1, <2>2 DEF RecordOK, ByDrain, Awaits
  <2> QED BY <2>1, <2>3, <2>4 DEF RecordOK
<1>13. \A u \in Sources : d[u].pc # "idle" => At(p, d, u) \in 1..Len(js)
  <2> SUFFICES ASSUME NEW u \in Sources, d[u].pc # "idle" PROVE At(p, d, u) \in 1..Len(js)
    OBVIOUS
  <2>1. HeldOf(p, d, u) # <<>> /\ OfSource(js, u, HeldOf(p, d, u)) /\ QueueTypes(js, o, p, d, a)
    BY DEF QueueOK, ArraysOK
  <2> QED BY <2>1, AtIs
<1>14. PassedOK(js2, p2, d)
  <2> SUFFICES ASSUME NEW u \in Sources, d[u].pc \notin {"idle", "starting"}
               PROVE  js2[At(p2, d, u)].state # "queued"
    BY DEF PassedOK
  <2>1. js[At(p, d, u)].state # "queued"
    BY DEF QueueOK, PassedOK
  <2> QED BY <1>2, <1>7, <1>13, <2>1
<1>15. \A j \in 1..Len(js) : js[j].source \in Sources
  <2>1. \A j \in 1..Len(js) : js[j] \in Job
    BY <1>1
  <2> QED BY <2>1 DEF Job
<1>16. DrivenOK(js2, p2, d)
  <2> SUFFICES ASSUME NEW j \in 1..Len(js2), js2[j].state = "running"
               PROVE  d[js2[j].source].pc \in Driving /\ At(p2, d, js2[j].source) = j
    BY DEF DrivenOK
  <2>1. j \in 1..Len(js) /\ js2[j] = js[j]
    <3>1. j # new
      BY <1>2
    <3> QED BY <1>1, <1>2, <3>1
  <2>2. d[js[j].source].pc \in Driving /\ At(p, d, js[j].source) = j
    BY <2>1 DEF QueueOK, DrivenOK
  <2>3. d[js[j].source].pc # "idle"
    BY <2>2 DEF Driving
  <2> QED BY <1>7, <1>15, <2>1, <2>2, <2>3
<1>17. ListedOK(js2, p2, d, t)
  <2> SUFFICES ASSUME NEW j \in 1..Len(js2), js2[j].state = "queued"
               PROVE  \/ Contains(p2[js2[j].source], j)
                      \/ d[js2[j].source].pc # "idle" /\ Contains(HeldOf(p2, d, js2[j].source), j)
                      \/ \E i \in 1..Len(t) : t[i].job = j /\ t[i].by = "cancel"
    BY DEF ListedOK
  <2>1. CASE j = new
    BY <1>2, <1>4, <2>1
  <2>2. CASE j # new
    <3>1. j \in 1..Len(js) /\ js2[j] = js[j]
      <4>1. j \in 1..Len(js)
        BY <1>1, <1>2, <2>2
      <4> QED BY <1>2, <4>1
    <3> PICK u : u = js[j].source
      OBVIOUS
    <3>2. \/ Contains(p[u], j)
          \/ d[u].pc # "idle" /\ Contains(HeldOf(p, d, u), j)
          \/ \E i \in 1..Len(a) : a[i].job = j /\ a[i].by = "cancel"
      BY SMTT(90), <3>1 DEF QueueOK, ListedOK
    <3>3. u \in Sources
      BY <1>15, <3>1
    <3>4. Contains(p[u], j) => Contains(p2[u], j)
      BY <1>3, <1>4, <3>3
    <3>5. Contains(HeldOf(p, d, u), j) => Contains(HeldOf(p2, d, u), j)
      BY <1>6, <3>3, <3>4 DEF HeldOf
    <3>6. ASSUME NEW i \in 1..Len(a), a[i].job = j, a[i].by = "cancel"
          PROVE  \E k \in 1..Len(t) : t[k].job = j /\ t[k].by = "cancel"
      <4>1. Contains(a, a[i]) /\ a[i] # n
        BY <3>6 DEF Contains, ByNew
      <4>2. \A x : Contains(a, x) <=> x = Head(a) \/ Contains(Tail(a), x)
        BY <1>1, TailOf
      <4>3. Contains(t, a[i])
        BY <4>1, <4>2
      <4> QED BY <3>6, <4>3 DEF Contains
    <3> QED BY <3>1, <3>2, <3>4, <3>5, <3>6
  <2> QED BY <2>1, <2>2
<1>18. QueueTypes(js2, o2, p2, d, t) /\ SlotsOK(d)
  BY <1>1, <1>2, <1>3, <1>5, <1>11 DEF QueueTypes, QueueOK
<1> QED BY <1>5, <1>10, <1>11, <1>12, <1>14, <1>16, <1>17, <1>18 DEF QueueOK

-----------------------------------------------------------------------------
(* A record is called for.                                                   *)

\* One that is not a drain's: of a new job, or of one that is cancelled.
LEMMA CallKeeps ==
  ASSUME NEW js, NEW o, NEW p, NEW d, NEW a, QueueOK(js, o, p, d, a),
         NEW n \in Notes, RecordOK(js, p, d, n), ~ByDrain(n)
  PROVE  QueueOK(js, o, p, d, Append(a, n))
<1> PICK a2 : a2 = Append(a, n)
  OBVIOUS
<1>1. /\ a \in Seq(Notes) /\ a2 \in Seq(Notes) /\ Len(a2) = Len(a) + 1 /\ Len(a) \in Nat
      /\ a2[Len(a) + 1] = n
      /\ \A i \in 1..Len(a) : i \in 1..Len(a2) /\ a2[i] = a[i]
      /\ \A i \in 1..Len(a2) : i \in 1..Len(a) \/ i = Len(a) + 1
  <2>1. a \in Seq(Notes)
    BY DEF QueueOK, QueueTypes
  <2> QED BY <2>1
<1>2. RecordsOK(js, p, d, a2)
  BY <1>1 DEF QueueOK, RecordsOK
<1>3. AloneOK(a2)
  <2> SUFFICES ASSUME NEW i \in 1..Len(a2), NEW k \in 1..Len(a2),
                      ByDrain(a2[i]), ByDrain(a2[k]), a2[i].source = a2[k].source
               PROVE  i = k
    BY DEF AloneOK
  <2>1. i \in 1..Len(a) /\ k \in 1..Len(a)
    BY <1>1
  <2> QED BY <1>1, <2>1 DEF QueueOK, AloneOK
<1>4. ListedOK(js, p, d, a2)
  BY <1>1 DEF QueueOK, ListedOK
<1>5. QueueTypes(js, o, p, d, a2)
  BY <1>1 DEF QueueOK, QueueTypes
<1> QED BY <1>2, <1>3, <1>4, <1>5 DEF QueueOK

\* A drain at its job goes on to another of its own steps, and calls for the record
\* that step awaits, if any.
LEMMA DriveKeeps ==
  ASSUME NEW js, NEW o, NEW p, NEW d, NEW a, QueueOK(js, o, p, d, a), NEW s \in Sources,
         d[s].pc \in {"planning", "mutating"}, NEW d2, StepsOn(d, d2, s)
  PROVE  QueueOK(js, o, p, d2, a) /\ NoneOf(a, s) /\ SameArrays(p, d, d2)
<1>1. /\ js \in Seq(Job) /\ a \in Seq(Notes) /\ d2 \in [Sources -> Drains] /\ d[s].pc # "idle"
      /\ QueueTypes(js, o, p, d2, a)
  BY DEF QueueOK, QueueTypes, StepsOn
<1>2. NoneOf(a, s)
  <2> SUFFICES ASSUME NEW i \in 1..Len(a), ByDrain(a[i]), a[i].source = s PROVE FALSE
    BY DEF NoneOf
  <2>1. RecordOK(js, p, d, a[i])
    BY DEF QueueOK, RecordsOK
  <2> QED BY <2>1 DEF RecordOK, ByDrain, Awaits
<1>3. ArraysOK(js, p, d) /\ SlotsOK(d) /\ ListedOK(js, p, d, a) /\ RecordsOK(js, p, d, a)
  BY DEF QueueOK
<1>4. /\ ArraysOK(js, p, d2) /\ SlotsOK(d2) /\ ListedOK(js, p, d2, a)
      /\ SameArrays(p, d, d2)
      /\ NoneOf(a, s) /\ RecordsOK(js, p, d, a) => RecordsOK(js, p, d2, a)
  BY <1>1, <1>3, StepsOnKeeps
<1>5. d2[s].pc \in Driving /\ \A u \in Sources : u # s => d2[u] = d[u]
  BY DEF StepsOn
<1>6. \A u \in Sources : At(p, d2, u) = At(p, d, u)
  BY <1>4 DEF SameArrays
<1>7. PassedOK(js, p, d2)
  <2> SUFFICES ASSUME NEW u \in Sources, d2[u].pc \notin {"idle", "starting"}
               PROVE  js[At(p, d2, u)].state # "queued"
    BY DEF PassedOK
  <2>1. d[u].pc \notin {"idle", "starting"}
    BY <1>5
  <2> QED BY <1>6, <2>1 DEF QueueOK, PassedOK
<1>8. DrivenOK(js, p, d2)
  <2> SUFFICES ASSUME NEW j \in 1..Len(js), js[j].state = "running"
               PROVE  d2[js[j].source].pc \in Driving /\ At(p, d2, js[j].source) = j
    BY DEF DrivenOK
  <2>1. d[js[j].source].pc \in Driving /\ At(p, d, js[j].source) = j
    BY DEF QueueOK, DrivenOK
  <2>2. js[j].source \in Sources
    <3>1. js[j] \in Job
      BY <1>1
    <3> QED BY <3>1 DEF Job
  <2> QED BY <1>5, <1>6, <2>1, <2>2
<1>9. KeysOK(o, p) /\ AloneOK(a)
  BY DEF QueueOK
<1> QED BY <1>1, <1>2, <1>3, <1>4, <1>7, <1>8, <1>9 DEF QueueOK

LEMMA DriveCalls ==
  ASSUME NEW js, NEW o, NEW p, NEW d, NEW a, QueueOK(js, o, p, d, a), NEW s \in Sources, NoneOf(a, s),
         NEW n \in Notes, RecordOK(js, p, d, n), n.source = s
  PROVE  QueueOK(js, o, p, d, Append(a, n))
<1> PICK a2 : a2 = Append(a, n)
  OBVIOUS
<1>1. /\ a \in Seq(Notes) /\ a2 \in Seq(Notes) /\ Len(a2) = Len(a) + 1 /\ Len(a) \in Nat
      /\ a2[Len(a) + 1] = n
      /\ \A i \in 1..Len(a) : i \in 1..Len(a2) /\ a2[i] = a[i]
      /\ \A i \in 1..Len(a2) : i \in 1..Len(a) \/ i = Len(a) + 1
  <2>1. a \in Seq(Notes)
    BY DEF QueueOK, QueueTypes
  <2> QED BY <2>1
<1>2. RecordsOK(js, p, d, a2)
  BY <1>1 DEF QueueOK, RecordsOK
<1>3. AloneOK(a2)
  <2> SUFFICES ASSUME NEW i \in 1..Len(a2), NEW k \in 1..Len(a2),
                      ByDrain(a2[i]), ByDrain(a2[k]), a2[i].source = a2[k].source
               PROVE  i = k
    BY DEF AloneOK
  <2>1. CASE i \in 1..Len(a) /\ k \in 1..Len(a)
    BY <1>1, <2>1 DEF QueueOK, AloneOK
  <2>2. \A m \in 1..Len(a) : ByDrain(a[m]) => a[m].source # s
    BY DEF NoneOf
  <2>3. i \notin 1..Len(a) => a2[i] = n /\ i = Len(a) + 1
    BY <1>1
  <2>4. k \notin 1..Len(a) => a2[k] = n /\ k = Len(a) + 1
    BY <1>1
  <2> QED BY <1>1, <2>1, <2>2, <2>3, <2>4
<1>4. ListedOK(js, p, d, a2)
  BY <1>1 DEF QueueOK, ListedOK
<1>5. QueueTypes(js, o, p, d, a2)
  BY <1>1 DEF QueueOK, QueueTypes
<1> QED BY <1>2, <1>3, <1>4, <1>5 DEF QueueOK

\* cancelJob takes a job out of the map, in a copy of its array, when the record
\* of its cancellation is called for; a drain keeps the array it has.
Drops(p, p2, d, d2, s, j) ==
  /\ p2 \in [Sources -> Seq(Nat)] /\ d2 \in [Sources -> Drains]
  /\ p2[s] = Without(p[s], j) /\ \A u \in Sources : u # s => p2[u] = p[u] /\ d2[u] = d[u]
  /\ d2[s].pc = d[s].pc
  /\ d[s].pc # "idle" => HeldOf(p2, d2, s) = HeldOf(p, d, s)

LEMMA DropKeeps ==
  ASSUME NEW js, NEW o, NEW p, NEW d, NEW a, QueueOK(js, o, p, d, a), NEW s \in Sources, NEW j,
         \E i \in 1..Len(a) : a[i].job = j /\ a[i].by = "cancel",
         NEW p2, NEW d2, Drops(p, p2, d, d2, s, j),
         NEW o2, o2 = IF p2[s] = <<>> THEN Without(o, s) ELSE o, p[s] # <<>>
  PROVE  QueueOK(js, o2, p2, d2, a)
<1>1. /\ js \in Seq(Job) /\ o \in Seq(Sources) /\ p \in [Sources -> Seq(Nat)]
      /\ d \in [Sources -> Drains] /\ a \in Seq(Notes)
  BY DEF QueueOK, QueueTypes
<1>2. /\ p2 \in [Sources -> Seq(Nat)] /\ d2 \in [Sources -> Drains]
      /\ \A u \in Sources : u # s => p2[u] = p[u] /\ d2[u] = d[u]
      /\ d2[s].pc = d[s].pc
      /\ d[s].pc # "idle" => HeldOf(p2, d2, s) = HeldOf(p, d, s)
  BY DEF Drops
<1>3. \A x : Contains(p2[s], x) <=> Contains(p[s], x) /\ x # j
  <2>1. p[s] \in Seq(Nat) /\ p2[s] = Without(p[s], j)
    BY <1>1 DEF Drops
  <2> QED BY <2>1, WithoutIs
<1>4. \A u \in Sources : d2[u].pc = d[u].pc
  BY <1>2
<1>5. \A u \in Sources : d[u].pc # "idle" => HeldOf(p2, d2, u) = HeldOf(p, d, u) /\ At(p2, d2, u) = At(p, d, u)
  BY <1>2 DEF HeldOf, At
<1>6. \A u \in Sources : \A x : Contains(p2[u], x) => Contains(p[u], x)
  BY <1>2, <1>3
<1>7. ArraysOK(js, p2, d2)
  <2>1. \A u \in Sources : OfSource(js, u, p2[u])
    <3> SUFFICES ASSUME NEW u \in Sources, NEW i \in 1..Len(p2[u])
                 PROVE  p2[u][i] \in 1..Len(js) /\ js[p2[u][i]].source = u
      BY DEF OfSource
    <3>1. Contains(p[u], p2[u][i])
      BY <1>6 DEF Contains
    <3>2. OfSource(js, u, p[u])
      BY DEF QueueOK, ArraysOK
    <3> QED BY <3>1, <3>2 DEF Contains, OfSource
  <2> QED BY <1>4, <1>5, <2>1 DEF QueueOK, ArraysOK
<1>8. o2 \in Seq(Sources) /\ KeysOK(o2, p2)
  <2>1. KeysOK(o, p)
    BY DEF QueueOK
  <2>2. CASE p2[s] = <<>>
    BY <1>1, <1>2, <2>1, <2>2, KeyGoes
  <2>3. CASE p2[s] # <<>>
    BY <1>1, <1>2, <2>1, <2>3 DEF KeysOK
  <2> QED BY <2>2, <2>3
<1>9. RecordsOK(js, p2, d2, a)
  <2> SUFFICES ASSUME NEW i \in 1..Len(a) PROVE RecordOK(js, p2, d2, a[i])
    BY DEF RecordsOK
  <2>1. RecordOK(js, p, d, a[i]) /\ a[i] \in Notes
    BY <1>1 DEF QueueOK, RecordsOK
  <2>2. ByDrain(a[i]) => d[a[i].source].pc # "idle" /\ a[i].source \in Sources
    BY <2>1 DEF RecordOK, ByDrain, Awaits, Notes
  <2> QED BY <1>4, <1>5, <2>1, <2>2 DEF RecordOK
<1>10. PassedOK(js, p2, d2)
  BY <1>4, <1>5 DEF QueueOK, PassedOK
<1>11. \A k \in 1..Len(js) : js[k].source \in Sources
  <2>1. \A k \in 1..Len(js) : js[k] \in Job
    BY <1>1
  <2> QED BY <2>1 DEF Job
<1>12. DrivenOK(js, p2, d2)
  <2> SUFFICES ASSUME NEW k \in 1..Len(js), js[k].state = "running"
               PROVE  d2[js[k].source].pc \in Driving /\ At(p2, d2, js[k].source) = k
    BY DEF DrivenOK
  <2>1. d[js[k].source].pc \in Driving /\ At(p, d, js[k].source) = k
    BY DEF QueueOK, DrivenOK
  <2> QED BY <1>4, <1>5, <1>11, <2>1 DEF Driving
<1>13. ListedOK(js, p2, d2, a)
  <2> SUFFICES ASSUME NEW k \in 1..Len(js), js[k].state = "queued"
               PROVE  \/ Contains(p2[js[k].source], k)
                      \/ d2[js[k].source].pc # "idle" /\ Contains(HeldOf(p2, d2, js[k].source), k)
                      \/ \E i \in 1..Len(a) : a[i].job = k /\ a[i].by = "cancel"
    BY DEF ListedOK
  <2> PICK u : u = js[k].source
    OBVIOUS
  <2>1. \/ Contains(p[u], k)
        \/ d[u].pc # "idle" /\ Contains(HeldOf(p, d, u), k)
        \/ \E i \in 1..Len(a) : a[i].job = k /\ a[i].by = "cancel"
    BY DEF QueueOK, ListedOK
  <2>2. u \in Sources
    BY <1>11
  <2>3. k # j /\ Contains(p[u], k) => Contains(p2[u], k)
    BY <1>2, <1>3, <2>2
  <2> QED BY <1>4, <1>5, <2>1, <2>2, <2>3
<1>14. SlotsOK(d2)
  <2>1. ActiveIn(d2) = ActiveIn(d)
    BY <1>4 DEF ActiveIn
  <2> QED BY <2>1 DEF QueueOK, SlotsOK
<1>15. QueueTypes(js, o2, p2, d2, a) /\ AloneOK(a)
  BY <1>1, <1>2, <1>8 DEF QueueTypes, QueueOK
<1> QED BY <1>7, <1>8, <1>9, <1>10, <1>12, <1>13, <1>14, <1>15 DEF QueueOK

-----------------------------------------------------------------------------
(* The process comes back.                                                   *)

QueuedAt(js, s) == {j \in DOMAIN js : js[j].source = s /\ js[j].state = "queued"}
FirstJobs(js)   == {j \in DOMAIN js : \E s \in Sources :
                      j \in QueuedAt(js, s) /\ \A i \in QueuedAt(js, s) : j <= i}

\* What initialize queues of a journal in which nothing runs.
LEMMA RestoredKeeps ==
  ASSUME NEW js \in Seq(Job), \A j \in 1..Len(js) : js[j].state # "running",
         NEW p, p = [s \in Sources |-> Ascending(QueuedAt(js, s))],
         NEW f, f = Ascending(FirstJobs(js)),
         NEW o, o = [k \in DOMAIN f |-> js[f[k]].source],
         NEW d, d = [s \in Sources |-> Asleep]
  PROVE  QueueOK(js, o, p, d, <<>>)
<1>1. Len(js) \in Nat /\ DOMAIN js = 1..Len(js) /\ \A j \in 1..Len(js) : js[j] \in Job /\ j \in Nat
  OBVIOUS
<1>2. \A j \in 1..Len(js) : js[j].source \in Sources
  BY <1>1 DEF Job
<1>3. \A S : S \subseteq 1..Len(js) => S \subseteq Nat /\ IsFiniteSet(S)
  <2> SUFFICES ASSUME NEW S \in SUBSET (1..Len(js)) PROVE S \subseteq Nat /\ IsFiniteSet(S)
    OBVIOUS
  <2>1. IsFiniteSet(1..Len(js))
    BY <1>1, FS_Interval
  <2> QED BY <1>1, <2>1, FS_Subset
<1>4. \A s : QueuedAt(js, s) \subseteq 1..Len(js)
  BY <1>1 DEF QueuedAt
<1>5. ASSUME NEW s \in Sources
      PROVE  /\ p[s] \in Seq(Nat) /\ OfSource(js, s, p[s])
             /\ \A j \in QueuedAt(js, s) : Contains(p[s], j)
             /\ p[s] # <<>> => p[s][1] \in QueuedAt(js, s) /\ \A i \in QueuedAt(js, s) : p[s][1] <= i
             /\ QueuedAt(js, s) # {} => p[s] # <<>>
  <2> DEFINE S == QueuedAt(js, s)
  <2>1. p[s] = Ascending(S)
    OBVIOUS
  <2>2. S \subseteq Nat /\ IsFiniteSet(S) /\ S \subseteq 1..Len(js)
    BY <1>3, <1>4
  <2>3. \A j \in S : js[j].source = s
    BY DEF QueuedAt
  <2> HIDE DEF S
  <2> PICK list : list = p[s]
    OBVIOUS
  <2>4. /\ list \in Seq(Nat)
        /\ \A i \in 1..Len(list) : list[i] \in S
        /\ \A i, j \in 1..Len(list) : i < j => list[i] < list[j]
        /\ \A x \in S : \E i \in 1..Len(list) : list[i] = x
    <3> PICK asc : asc = Ascending(S)
      OBVIOUS
    <3>1. /\ asc \in Seq(Nat)
          /\ \A i \in 1..Len(asc) : asc[i] \in S
          /\ \A i, j \in 1..Len(asc) : i < j => asc[i] < asc[j]
          /\ \A x \in S : \E i \in 1..Len(asc) : asc[i] = x
      BY <2>2, Ascends
    <3>2. asc = list
      BY <2>1
    <3> QED BY <3>1, <3>2
  <2>5. OfSource(js, s, list)
    BY <2>2, <2>3, <2>4 DEF OfSource
  <2>6. \A j \in S : Contains(list, j)
    BY <2>4 DEF Contains
  <2>7. ASSUME list # <<>>
        PROVE  list[1] \in S /\ \A i \in S : list[1] <= i
    <3>1. 1 \in 1..Len(list) /\ Len(list) \in Nat
      BY <2>4, <2>7
    <3>2. ASSUME NEW i \in S PROVE list[1] <= i
      <4> PICK k \in 1..Len(list) : list[k] = i
        BY <2>4
      <4>1. list[1] \in Nat /\ i \in Nat
        BY <2>2, <2>4, <3>1
      <4>2. k = 1 \/ 1 < k
        BY <3>1
      <4>3. k = 1 \/ list[1] < list[k]
        BY <2>4, <3>1, <4>2
      <4> QED BY <4>1, <4>3
    <3> QED BY <2>4, <3>1, <3>2
  <2>8. S # {} => list # <<>>
    BY <2>4
  <2> QED BY <2>4, <2>5, <2>6, <2>7, <2>8 DEF S
<1>6. p \in [Sources -> Seq(Nat)]
  <2>1. \A s \in Sources : p[s] \in Seq(Nat)
    BY <1>5
  <2> QED BY <2>1
<1>7. \A s \in Sources : d[s].pc = "idle" /\ d[s] \in Drains
  <2>1. <<>> \in Seq(Nat) /\ 0 \in Nat
    OBVIOUS
  <2>2. Asleep \in Drains /\ Asleep.pc = "idle"
    BY <2>1 DEF Asleep, Drains, Pcs
  <2> QED BY <2>2
<1>8. /\ f \in Seq(Nat)
      /\ \A i \in 1..Len(f) : f[i] \in FirstJobs(js)
      /\ \A i, j \in 1..Len(f) : i < j => f[i] < f[j]
      /\ \A x \in FirstJobs(js) : \E i \in 1..Len(f) : f[i] = x
  <2>1. FirstJobs(js) \subseteq Nat /\ IsFiniteSet(FirstJobs(js))
    BY <1>1, <1>3 DEF FirstJobs
  <2> QED BY <2>1, Ascends
<1>9. \A j \in FirstJobs(js) :
        /\ j \in 1..Len(js) /\ j \in QueuedAt(js, js[j].source)
        /\ \A i \in QueuedAt(js, js[j].source) : j <= i
  BY <1>1 DEF FirstJobs, QueuedAt
<1>10. /\ o \in Seq(Sources) /\ Len(o) = Len(f) /\ Len(f) \in Nat
       /\ \A i \in 1..Len(o) : f[i] \in FirstJobs(js) /\ o[i] = js[f[i]].source
  <2>1. Len(f) \in Nat /\ DOMAIN f = 1..Len(f)
    BY <1>8
  <2>2. \A i \in 1..Len(f) : js[f[i]].source \in Sources
    BY <1>2, <1>8, <1>9
  <2> QED BY <1>8, <2>1, <2>2
<1>11. ASSUME NEW i \in 1..Len(o), NEW k \in 1..Len(o), o[i] = o[k]
       PROVE  i = k
  <2>1. f[i] \in FirstJobs(js) /\ f[k] \in FirstJobs(js) /\ js[f[i]].source = js[f[k]].source
    BY <1>10, <1>11
  <2>2. f[i] <= f[k] /\ f[k] <= f[i] /\ f[i] \in Nat /\ f[k] \in Nat
    <3> PICK x, y : x = f[i] /\ y = f[k]
      OBVIOUS
    <3>1. x \in 1..Len(js) /\ y \in 1..Len(js)
      BY <1>9, <2>1
    <3>2. x \in QueuedAt(js, js[y].source) /\ y \in QueuedAt(js, js[x].source)
      BY <1>9, <2>1
    <3>3. x <= y /\ y <= x
      BY <1>9, <2>1, <3>2
    <3> QED BY <1>1, <3>1, <3>3
  <2>3. ~(i < k) /\ ~(k < i)
    <3>1. i < k => f[i] < f[k]
      BY <1>8, <1>10
    <3>2. k < i => f[k] < f[i]
      BY <1>8, <1>10
    <3> QED BY <2>2, <3>1, <3>2
  <2> QED BY <2>3
<1>12. ASSUME NEW s \in Sources
       PROVE  Contains(o, s) <=> p[s] # <<>>
  <2>1. ASSUME Contains(o, s) PROVE p[s] # <<>>
    <3> PICK i \in 1..Len(o) : o[i] = s
      BY <2>1 DEF Contains
    <3>1. f[i] \in QueuedAt(js, s)
      BY <1>9, <1>10
    <3> QED BY <1>5, <3>1
  <2>2. ASSUME p[s] # <<>> PROVE Contains(o, s)
    <3> PICK x : x = p[s][1]
      OBVIOUS
    <3>1. x \in QueuedAt(js, s) /\ \A i \in QueuedAt(js, s) : x <= i
      BY <1>5, <2>2
    <3>2. x \in FirstJobs(js) /\ js[x].source = s
      BY <3>1 DEF FirstJobs, QueuedAt
    <3> PICK i \in 1..Len(f) : f[i] = x
      BY <1>8, <3>2
    <3> QED BY <1>10, <3>2 DEF Contains
  <2> QED BY <2>1, <2>2
<1>13. KeysOK(o, p)
  BY <1>11, <1>12 DEF KeysOK
<1>14. ArraysOK(js, p, d) /\ PassedOK(js, p, d) /\ DrivenOK(js, p, d)
  BY <1>5, <1>7 DEF ArraysOK, PassedOK, DrivenOK
<1>15. ListedOK(js, p, d, <<>>)
  <2> SUFFICES ASSUME NEW j \in 1..Len(js), js[j].state = "queued"
               PROVE  Contains(p[js[j].source], j)
    BY DEF ListedOK
  <2>1. j \in QueuedAt(js, js[j].source)
    BY <1>1 DEF QueuedAt
  <2> QED BY <1>2, <1>5, <2>1
<1>16. SlotsOK(d)
  <2>1. ActiveIn(d) = {}
    BY <1>7 DEF ActiveIn
  <2>2. IsFiniteSet({}) /\ Cardinality({}) = 0
    BY FS_EmptySet
  <2>3. IsFiniteSet(ActiveIn(d)) /\ Cardinality(ActiveIn(d)) = 0
    BY <2>1, <2>2
  <2>4. MaxConcurrent \in Nat
    BY JobsAssumption
  <2> QED BY <2>3, <2>4 DEF SlotsOK
<1>17. <<>> \in Seq(Notes) /\ RecordsOK(js, p, d, <<>>) /\ AloneOK(<<>>)
  BY DEF RecordsOK, AloneOK
<1>18. QueueTypes(js, o, p, d, <<>>)
  BY <1>6, <1>7, <1>10, <1>17 DEF QueueTypes
<1> QED BY <1>13, <1>14, <1>15, <1>16, <1>17, <1>18 DEF QueueOK

-----------------------------------------------------------------------------
(* Requests and their turns to enqueue.                                      *)

Asks == [pc : {"idle", "queueing", "done"}, batch : Requests, grant : Grant \union {NoGrant},
         todo : Seq(Sources), made : SUBSET Nat]

\* A request has a turn while it has sources to enqueue, and one turn.
TurnsOK(ts, rs) ==
  /\ rs \in [Requests -> Asks] /\ ts \in Seq(Requests)
  /\ \A i \in 1..Len(ts) : rs[ts[i]].todo # <<>> /\ rs[ts[i]].pc = "queueing"
  /\ \A i, k \in 1..Len(ts) : ts[i] = ts[k] => i = k

\* The one record of a new job on its way is that of the request whose turn it is.
Called(ts, rs, n) ==
  /\ ts # <<>> /\ n.req = Head(ts)
  /\ n.source = Head(rs[Head(ts)].todo) /\ n.batch = rs[Head(ts)].batch
CallsOK(ts, rs, a) ==
  /\ \A i \in 1..Len(a) : a[i].by = "enqueue" => Called(ts, rs, a[i])
  /\ \A i, k \in 1..Len(a) : a[i].by = "enqueue" /\ a[k].by = "enqueue" => i = k
NoCalls(a) == \A i \in 1..Len(a) : a[i].by # "enqueue"

\* All the jobs that may come have room.
Todos(rs)   == {q \in Requests \X (1..MaxJobs) : q[2] <= Len(rs[q[1]].todo)}
Retries(a)  == {i \in DOMAIN a : a[i].by = "retry"}
RoomOK(n, rs, a) ==
  /\ n + Cardinality(Todos(rs)) + Cardinality(Retries(a)) <= MaxJobs
  /\ \A r \in Requests : Len(rs[r].todo) <= MaxJobs
NoRetries(a) == \A i \in 1..Len(a) : a[i].by # "retry"

\* Records that are added come behind those that were there.
LEMMA AddedBehind ==
  ASSUME NEW a \in Seq(Notes), NEW later \in Seq(Notes), NEW a2, Adds(a, a2, later)
  PROVE  /\ a2 \in Seq(Notes)
         /\ \A i \in 1..Len(a) : i \in 1..Len(a2) /\ a2[i] = a[i]
         /\ \A i \in 1..Len(a2) :
              \/ (i \in 1..Len(a) /\ a2[i] = a[i])
              \/ a2[i].by = "run"
              \/ \E k \in 1..Len(later) : i = Len(a2) - Len(later) + k /\ a2[i] = later[k]
<1>1. PICK recs \in Seq(Notes) : OnlyRuns(recs) /\ a2 = (a \o recs) \o later
  BY DEF Adds
<1>2. PICK b : b = a \o recs
  OBVIOUS
<1>3. /\ b \in Seq(Notes) /\ Len(b) \in Nat
      /\ \A i \in 1..Len(a) : i \in 1..Len(b) /\ b[i] = a[i]
      /\ \A i \in 1..Len(b) : \/ (i \in 1..Len(a) /\ b[i] = a[i])
                              \/ (i - Len(a) \in 1..Len(recs) /\ b[i] = recs[i - Len(a)])
  BY <1>1, <1>2, JoinOf
<1>4. /\ a2 \in Seq(Notes) /\ Len(later) \in Nat /\ Len(a2) = Len(b) + Len(later)
      /\ \A i \in 1..Len(b) : i \in 1..Len(a2) /\ a2[i] = b[i]
      /\ \A i \in 1..Len(a2) : \/ (i \in 1..Len(b) /\ a2[i] = b[i])
                               \/ (i - Len(b) \in 1..Len(later) /\ a2[i] = later[i - Len(b)])
  BY <1>1, <1>2, <1>3, JoinOf
<1>5. \A i \in 1..Len(a) : i \in 1..Len(a2) /\ a2[i] = a[i]
  BY <1>3, <1>4
<1>6. ASSUME NEW i \in 1..Len(a2)
      PROVE  \/ (i \in 1..Len(a) /\ a2[i] = a[i])
             \/ a2[i].by = "run"
             \/ \E k \in 1..Len(later) : i = Len(a2) - Len(later) + k /\ a2[i] = later[k]
  <2>1. CASE i \in 1..Len(b) /\ a2[i] = b[i]
    BY <1>1, <1>3, <2>1 DEF OnlyRuns
  <2>2. CASE i - Len(b) \in 1..Len(later) /\ a2[i] = later[i - Len(b)]
    <3>1. i = Len(a2) - Len(later) + (i - Len(b))
      BY <1>3, <1>4
    <3> QED BY <2>2, <3>1
  <2> QED BY <1>4, <2>1, <2>2
<1> QED BY <1>4, <1>5, <1>6

LEMMA AddsKeeps ==
  ASSUME NEW a \in Seq(Notes), NEW later \in Seq(Notes), NEW a2, Adds(a, a2, later)
  PROVE  /\ \A ts, rs : CallsOK(ts, rs, a) /\ CallsOK(ts, rs, later) /\ (NoCalls(a) \/ NoCalls(later))
                          => CallsOK(ts, rs, a2)
         /\ NoCalls(a) /\ NoCalls(later) => NoCalls(a2)
         /\ NoRetries(later) => Retries(a2) = Retries(a)
<1>1. /\ a2 \in Seq(Notes) /\ Len(a) \in Nat /\ Len(a2) \in Nat /\ Len(later) \in Nat
      /\ \A i \in 1..Len(a) : i \in 1..Len(a2) /\ a2[i] = a[i]
      /\ \A i \in 1..Len(a2) :
           \/ (i \in 1..Len(a) /\ a2[i] = a[i])
           \/ a2[i].by = "run"
           \/ \E k \in 1..Len(later) : i = Len(a2) - Len(later) + k /\ a2[i] = later[k]
  BY AddedBehind
<1>2. ASSUME NEW ts, NEW rs, CallsOK(ts, rs, a), CallsOK(ts, rs, later),
             NoCalls(a) \/ NoCalls(later)
      PROVE  CallsOK(ts, rs, a2)
  <2>1. ASSUME NEW i \in 1..Len(a2), a2[i].by = "enqueue"
        PROVE  Called(ts, rs, a2[i])
    BY <1>1, <1>2, <2>1 DEF CallsOK
  <2>2. ASSUME NEW i \in 1..Len(a2), NEW k \in 1..Len(a2), a2[i].by = "enqueue", a2[k].by = "enqueue"
        PROVE  i = k
    <3>1. CASE NoCalls(a)
      <4>1. PICK m \in 1..Len(later) : i = Len(a2) - Len(later) + m /\ a2[i] = later[m]
        BY <1>1, <2>2, <3>1 DEF NoCalls
      <4>2. PICK n \in 1..Len(later) : k = Len(a2) - Len(later) + n /\ a2[k] = later[n]
        BY <1>1, <2>2, <3>1 DEF NoCalls
      <4>3. m = n
        BY <1>2, <2>2, <4>1, <4>2 DEF CallsOK
      <4> QED BY <4>1, <4>2, <4>3
    <3>2. CASE NoCalls(later)
      <4>1. i \in 1..Len(a) /\ a2[i] = a[i] /\ k \in 1..Len(a) /\ a2[k] = a[k]
        BY <1>1, <2>2, <3>2 DEF NoCalls
      <4> QED BY <1>2, <2>2, <4>1 DEF CallsOK
    <3> QED BY <1>2, <3>1, <3>2
  <2> QED BY <2>1, <2>2 DEF CallsOK
<1>3. ASSUME NoCalls(a), NoCalls(later) PROVE NoCalls(a2)
  BY <1>1, <1>3 DEF NoCalls
<1>4. ASSUME NoRetries(later) PROVE Retries(a2) = Retries(a)
  <2>1. DOMAIN a = 1..Len(a) /\ DOMAIN a2 = 1..Len(a2)
    BY <1>1
  <2>2. ASSUME NEW i \in Retries(a2) PROVE i \in Retries(a)
    BY <1>1, <1>4, <2>1 DEF Retries, NoRetries
  <2>3. ASSUME NEW i \in Retries(a) PROVE i \in Retries(a2)
    BY <1>1, <2>1 DEF Retries
  <2> QED BY <2>2, <2>3
<1> QED BY <1>2, <1>3, <1>4

\* One record called for, or none.
LEMMA AddsOne ==
  ASSUME NEW a \in Seq(Notes)
  PROVE  /\ Adds(a, a, <<>>)
         /\ \A n \in Notes : Adds(a, Append(a, n), <<n>>) /\ <<n>> \in Seq(Notes)
<1>1. <<>> \in Seq(Notes) /\ OnlyRuns(<<>>) /\ a \o <<>> = a
  BY NothingMore DEF OnlyRuns
<1>2. \A n \in Notes : <<n>> \in Seq(Notes) /\ Append(a, n) = a \o <<n>>
  BY OneMore
<1> QED BY <1>1, <1>2 DEF Adds

LEMMA CallsTail ==
  ASSUME NEW a \in Seq(Notes), a # <<>>, NEW ts, NEW rs, CallsOK(ts, rs, a)
  PROVE  /\ CallsOK(ts, rs, Tail(a))
         /\ Head(a).by = "enqueue" => NoCalls(Tail(a)) /\ Called(ts, rs, Head(a))
<1> PICK t : t = Tail(a)
  OBVIOUS
<1>1. /\ t \in Seq(Notes) /\ Len(a) \in Nat /\ Len(t) = Len(a) - 1
      /\ 1 \in 1..Len(a) /\ Head(a) = a[1]
      /\ \A i \in 1..Len(t) : i + 1 \in 1..Len(a) /\ t[i] = a[i + 1]
  BY TailOf
<1>2. \A i, k \in 1..Len(t) : t[i].by = "enqueue" /\ t[k].by = "enqueue" => i = k
  <2> SUFFICES ASSUME NEW i \in 1..Len(t), NEW k \in 1..Len(t), t[i].by = "enqueue", t[k].by = "enqueue"
               PROVE  i = k
    OBVIOUS
  <2>1. i + 1 \in 1..Len(a) /\ k + 1 \in 1..Len(a) /\ t[i] = a[i + 1] /\ t[k] = a[k + 1]
    BY <1>1
  <2>2. i + 1 = k + 1
    BY <2>1 DEF CallsOK
  <2> QED BY <1>1, <2>2
<1>3. \A i \in 1..Len(t) : t[i].by = "enqueue" => Called(ts, rs, t[i])
  <2> SUFFICES ASSUME NEW i \in 1..Len(t), t[i].by = "enqueue" PROVE Called(ts, rs, t[i])
    OBVIOUS
  <2>1. i + 1 \in 1..Len(a) /\ t[i] = a[i + 1]
    BY <1>1
  <2>2. Called(ts, rs, a[i + 1])
    BY <2>1 DEF CallsOK
  <2> QED BY <2>1, <2>2
<1>4. ASSUME Head(a).by = "enqueue" PROVE NoCalls(t) /\ Called(ts, rs, Head(a))
  <2>1. Called(ts, rs, Head(a))
    BY <1>1, <1>4 DEF CallsOK
  <2>2. ASSUME NEW i \in 1..Len(t), t[i].by = "enqueue" PROVE FALSE
    <3>1. i + 1 \in 1..Len(a) /\ a[i + 1].by = "enqueue" /\ a[1].by = "enqueue" /\ i + 1 # 1
      BY <1>1, <1>4, <2>2
    <3>2. i + 1 = 1
      BY <1>1, <3>1 DEF CallsOK
    <3> QED BY <3>1, <3>2
  <2> QED BY <2>1, <2>2 DEF NoCalls
<1> QED BY <1>2, <1>3, <1>4 DEF CallsOK

-----------------------------------------------------------------------------
(* There is room for every job that may come.                                *)

LEMMA CountsAre ==
  /\ \A rs : IsFiniteSet(Todos(rs)) /\ Cardinality(Todos(rs)) \in Nat
  /\ \A a \in Seq(Notes) : IsFiniteSet(Retries(a)) /\ Cardinality(Retries(a)) \in Nat
  /\ MaxJobs \in Nat /\ MaxRequests \in Nat
<1>1. MaxJobs \in Nat /\ MaxRequests \in Nat
  BY JobsAssumption
<1>2. ASSUME NEW rs PROVE IsFiniteSet(Todos(rs)) /\ Cardinality(Todos(rs)) \in Nat
  <2>1. IsFiniteSet(Requests) /\ IsFiniteSet(1..MaxJobs)
    BY <1>1, FS_Interval DEF Requests
  <2>2. IsFiniteSet(Requests \X (1..MaxJobs))
    BY <2>1, FS_Product
  <2>3. Todos(rs) \in SUBSET (Requests \X (1..MaxJobs))
    BY DEF Todos
  <2>4. IsFiniteSet(Todos(rs))
    BY <2>2, <2>3, FS_Subset
  <2> QED BY <2>4, FS_CardinalityType
<1>3. ASSUME NEW a \in Seq(Notes) PROVE IsFiniteSet(Retries(a)) /\ Cardinality(Retries(a)) \in Nat
  <2>1. IsFiniteSet(1..Len(a)) /\ Retries(a) \in SUBSET (1..Len(a))
    BY FS_Interval DEF Retries
  <2>2. IsFiniteSet(Retries(a))
    BY <2>1, FS_Subset
  <2> QED BY <2>2, FS_CardinalityType
<1> QED BY <1>1, <1>2, <1>3

\* Requests but r have what they had to enqueue.
OthersAsk(rs, rs2, r) == \A q \in Requests : q # r => rs2[q].todo = rs[q].todo

LEMMA TodosLess ==
  ASSUME NEW rs \in [Requests -> Asks], NEW r \in Requests, rs[r].todo # <<>>,
         Len(rs[r].todo) <= MaxJobs, NEW rs2, OthersAsk(rs, rs2, r), rs2[r].todo = Tail(rs[r].todo)
  PROVE  Cardinality(Todos(rs2)) <= Cardinality(Todos(rs)) - 1
<1>1. /\ rs[r].todo \in Seq(Sources) /\ Len(rs[r].todo) \in Nat
      /\ Len(rs2[r].todo) = Len(rs[r].todo) - 1 /\ 1 \in 1..Len(rs[r].todo)
  <2>1. rs[r].todo \in Seq(Sources)
    BY DEF Asks
  <2> QED BY <2>1, TailOf
<1> DEFINE last == <<r, Len(rs[r].todo)>>
<1>2. last \in Todos(rs)
  BY <1>1, CountsAre DEF Todos
<1>3. Todos(rs2) \in SUBSET (Todos(rs) \ {last})
  <2> SUFFICES ASSUME NEW q \in Todos(rs2) PROVE q \in Todos(rs) /\ q # last
    OBVIOUS
  <2>1. q \in Requests \X (1..MaxJobs) /\ q[1] \in Requests /\ q[2] \in 1..MaxJobs
        /\ q[2] <= Len(rs2[q[1]].todo)
    BY DEF Todos
  <2>2. CASE q[1] = r
    <3>1. q[2] <= Len(rs[r].todo) - 1 /\ q[2] \in Nat
      <4>1. q[2] <= Len(rs2[r].todo)
        BY <2>1, <2>2, Zenon
      <4>2. q[2] \in 1..MaxJobs /\ MaxJobs \in Nat
        BY <2>1, CountsAre
      <4> QED BY <1>1, <4>1, <4>2
    <3> QED BY <1>1, <2>1, <2>2, <3>1 DEF Todos
  <2>3. CASE q[1] # r
    <3>1. rs2[q[1]].todo = rs[q[1]].todo
      BY <2>1, <2>3 DEF OthersAsk
    <3> QED BY <2>1, <2>3, <3>1 DEF Todos
  <2> QED BY <2>2, <2>3
<1> HIDE DEF last
<1>4. IsFiniteSet(Todos(rs) \ {last}) /\ Cardinality(Todos(rs) \ {last}) = Cardinality(Todos(rs)) - 1
  BY <1>2, CountsAre, FS_RemoveElement
<1>5. Cardinality(Todos(rs2)) <= Cardinality(Todos(rs) \ {last})
  BY <1>3, <1>4, FS_Subset
<1> QED BY <1>4, <1>5

LEMMA TodosMore ==
  ASSUME NEW rs, NEW r \in Requests, NEW list \in Seq(Sources),
         NEW rs2, OthersAsk(rs, rs2, r), rs2[r].todo = list
  PROVE  Cardinality(Todos(rs2)) <= Cardinality(Todos(rs)) + Len(list)
<1> DEFINE more == {r} \X (1..Len(list))
<1>1. Len(list) \in Nat
  OBVIOUS
<1>2. IsFiniteSet(more) /\ Cardinality(more) = Len(list)
  <2>1. IsFiniteSet(1..Len(list)) /\ Cardinality(1..Len(list)) = Len(list)
    <3>1. 1 \in Int /\ Len(list) \in Int
      BY <1>1
    <3>2. Cardinality(1..Len(list)) = IF 1 > Len(list) THEN 0 ELSE Len(list) - 1 + 1
      BY <3>1, FS_Interval
    <3> QED BY SMTT(90), <1>1, <3>1, <3>2, FS_Interval
  <2>2. IsFiniteSet({r}) /\ Cardinality({r}) = 1
    BY FS_Singleton
  <2>3. IsFiniteSet(more) /\ Cardinality(more) = Cardinality({r}) * Cardinality(1..Len(list))
    BY <2>1, <2>2, FS_Product
  <2>4. 1 * Len(list) = Len(list)
    BY <1>1
  <2> QED BY <2>1, <2>2, <2>3, <2>4
<1>3. Todos(rs2) \in SUBSET (Todos(rs) \union more)
  <2> SUFFICES ASSUME NEW q \in Todos(rs2), q \notin Todos(rs) PROVE q \in more
    OBVIOUS
  <2>1. q \in Requests \X (1..MaxJobs) /\ q[1] \in Requests /\ q[2] \in 1..MaxJobs
        /\ q[2] <= Len(rs2[q[1]].todo)
    BY DEF Todos
  <2>2. q[1] = r
    BY <2>1 DEF Todos, OthersAsk
  <2>3. q[2] \in 1..Len(list)
    BY <1>1, <2>1, <2>2
  <2>4. q = <<q[1], q[2]>>
    BY <2>1
  <2> QED BY <2>2, <2>3, <2>4
<1> HIDE DEF more
<1>4. /\ IsFiniteSet(Todos(rs) \union more)
      /\ Cardinality(Todos(rs) \union more)
           = Cardinality(Todos(rs)) + Cardinality(more) - Cardinality(Todos(rs) \cap more)
  BY <1>2, CountsAre, FS_Union
<1>5. Cardinality(Todos(rs) \cap more) \in Nat
  BY <1>2, CountsAre, FS_Intersection, FS_CardinalityType
<1>6. Cardinality(Todos(rs2)) <= Cardinality(Todos(rs) \union more)
  BY <1>3, <1>4, FS_Subset
<1>7. Cardinality(Todos(rs2)) \in Nat /\ Cardinality(Todos(rs)) \in Nat
  BY CountsAre
<1> QED BY <1>1, <1>2, <1>4, <1>5, <1>6, <1>7

LEMMA RetriesTail ==
  ASSUME NEW a \in Seq(Notes), a # <<>>
  PROVE  /\ Cardinality(Retries(Tail(a))) <= Cardinality(Retries(a))
         /\ Head(a).by = "retry" => Cardinality(Retries(Tail(a))) <= Cardinality(Retries(a)) - 1
<1> PICK t : t = Tail(a)
  OBVIOUS
<1>1. /\ t \in Seq(Notes) /\ Len(a) \in Nat /\ Len(t) = Len(a) - 1
      /\ 1 \in 1..Len(a) /\ Head(a) = a[1]
      /\ \A i \in 1..Len(t) : i + 1 \in 1..Len(a) /\ t[i] = a[i + 1]
  BY TailOf
<1> DEFINE rest == Retries(a) \ {1}
           shift == [i \in Retries(t) |-> i + 1]
<1>2. DOMAIN a = 1..Len(a) /\ DOMAIN t = 1..Len(t)
  BY <1>1
<1>3. \A i \in Retries(t) : i \in Nat /\ i + 1 \in rest
  BY <1>1, <1>2 DEF Retries
<1>4. shift \in Injection(Retries(t), rest)
  <2>1. shift \in [Retries(t) -> rest]
    BY <1>3
  <2>2. \A i, k \in Retries(t) : shift[i] = shift[k] => i = k
    BY <1>3
  <2> HIDE DEF shift, rest
  <2> QED BY <2>1, <2>2 DEF Injection, IsInjective
<1>5. /\ IsFiniteSet(Retries(a)) /\ Cardinality(Retries(a)) \in Nat
      /\ IsFiniteSet(Retries(t)) /\ Cardinality(Retries(t)) \in Nat
  BY <1>1, CountsAre
<1>6. /\ IsFiniteSet(rest)
      /\ Cardinality(rest) = IF 1 \in Retries(a) THEN Cardinality(Retries(a)) - 1
                             ELSE Cardinality(Retries(a))
  BY <1>5, FS_RemoveElement
<1> HIDE DEF shift, rest
<1>7. Cardinality(Retries(t)) <= Cardinality(rest)
  BY <1>4, <1>6, FS_Injection
<1>8. Head(a).by = "retry" => 1 \in Retries(a)
  BY <1>1, <1>2 DEF Retries
<1> QED BY <1>5, <1>6, <1>7, <1>8

LEMMA RetriesMore ==
  ASSUME NEW a \in Seq(Notes), NEW n \in Notes
  PROVE  Cardinality(Retries(Append(a, n))) <= Cardinality(Retries(a)) + 1
<1> PICK b : b = Append(a, n)
  OBVIOUS
<1>1. /\ b \in Seq(Notes) /\ Len(b) = Len(a) + 1 /\ Len(a) \in Nat
      /\ \A i \in 1..Len(a) : b[i] = a[i]
  OBVIOUS
<1>2. IsFiniteSet(Retries(a)) /\ Cardinality(Retries(a)) \in Nat
  BY CountsAre
<1>3. Retries(b) \in SUBSET (Retries(a) \union {Len(a) + 1})
  BY <1>1 DEF Retries
<1>4. /\ IsFiniteSet(Retries(a) \union {Len(a) + 1})
      /\ Cardinality(Retries(a) \union {Len(a) + 1}) <= Cardinality(Retries(a)) + 1
  <2> DEFINE n1 == Len(a) + 1
             c == Cardinality(Retries(a))
  <2> HIDE DEF n1
  <2>1. /\ IsFiniteSet(Retries(a) \union {n1})
        /\ Cardinality(Retries(a) \union {n1}) = IF n1 \in Retries(a) THEN c ELSE c + 1
    BY <1>2, FS_AddElement
  <2> HIDE DEF c
  <2>2. c \in Nat
    BY <1>2 DEF c
  <2>3. Cardinality(Retries(a) \union {n1}) <= c + 1
    BY <2>1, <2>2
  <2> QED BY <2>1, <2>3 DEF c, n1
<1>5. Cardinality(Retries(b)) <= Cardinality(Retries(a) \union {Len(a) + 1})
  BY <1>3, <1>4, FS_Subset
<1>6. Cardinality(Retries(b)) \in Nat /\ Cardinality(Retries(a) \union {Len(a) + 1}) \in Nat
  BY <1>1, <1>4, CountsAre, FS_CardinalityType
<1> QED BY <1>2, <1>4, <1>5, <1>6

-----------------------------------------------------------------------------
(* A turn passes on.                                                         *)

OthersStay(rs, rs2, r) == \A q \in Requests : q # r => rs2[q] = rs[q]
After(ts, r, todo)     == IF todo = <<>> THEN Tail(ts) ELSE Append(Tail(ts), r)

LEMMA Lengthens ==
  ASSUME NEW T, NEW list \in Seq(T), NEW x \in T
  PROVE  Append(list, x) \in Seq(T) /\ Longer(list, Append(list, x), x)
BY OneMore DEF Longer

LEMMA TurnPasses ==
  ASSUME NEW ts, NEW rs, TurnsOK(ts, rs), ts # <<>>, NEW r, r = Head(ts),
         NEW todo, todo = Tail(rs[r].todo),
         NEW rs2 \in [Requests -> Asks], OthersStay(rs, rs2, r), rs2[r].todo = todo,
         rs2[r].pc = IF todo = <<>> THEN "done" ELSE rs[r].pc,
         NEW next, next = After(ts, r, todo)
  PROVE  TurnsOK(next, rs2)
<1>1. /\ ts \in Seq(Requests) /\ \A i \in 1..Len(ts) : rs[ts[i]].todo # <<>> /\ rs[ts[i]].pc = "queueing"
      /\ \A i, k \in 1..Len(ts) : ts[i] = ts[k] => i = k
  BY DEF TurnsOK
<1> PICK rest : rest = Tail(ts)
  OBVIOUS
<1>2. /\ rest \in Seq(Requests) /\ Len(ts) \in Nat /\ Len(rest) = Len(ts) - 1
      /\ 1 \in 1..Len(ts) /\ r = ts[1] /\ r \in Requests
      /\ \A i \in 1..Len(rest) : i + 1 \in 1..Len(ts) /\ rest[i] = ts[i + 1]
  BY <1>1, TailOf
<1>3. \A i \in 1..Len(rest) : rest[i] # r
  <2> SUFFICES ASSUME NEW i \in 1..Len(rest), rest[i] = r PROVE FALSE
    OBVIOUS
  <2>1. i + 1 \in 1..Len(ts) /\ ts[i + 1] = ts[1] /\ i + 1 # 1
    BY <1>2
  <2> QED BY <1>1, <1>2, <2>1
<1>4. \A i, k \in 1..Len(rest) : rest[i] = rest[k] => i = k
  <2> SUFFICES ASSUME NEW i \in 1..Len(rest), NEW k \in 1..Len(rest), rest[i] = rest[k] PROVE i = k
    OBVIOUS
  <2>1. i + 1 \in 1..Len(ts) /\ k + 1 \in 1..Len(ts) /\ ts[i + 1] = ts[k + 1]
    BY <1>2
  <2>2. i + 1 = k + 1
    BY <1>1, <2>1
  <2> QED BY <1>2, <2>2
<1>5. \A i \in 1..Len(rest) : rs2[rest[i]].todo # <<>> /\ rs2[rest[i]].pc = "queueing"
  <2> SUFFICES ASSUME NEW i \in 1..Len(rest)
               PROVE  rs2[rest[i]].todo # <<>> /\ rs2[rest[i]].pc = "queueing"
    OBVIOUS
  <2>1. PICK k \in 1..Len(ts) : rest[i] = ts[k]
    BY <1>2
  <2>2. rest[i] \in Requests /\ rest[i] # r
    BY <1>2, <1>3
  <2>3. rs2[rest[i]] = rs[ts[k]]
    BY <2>1, <2>2 DEF OthersStay
  <2> QED BY <1>1, <2>3
<1>6. CASE todo = <<>>
  <2>1. next = rest
    BY <1>6 DEF After
  <2>2. rest \in Seq(Requests)
    BY <1>2
  <2>3. TurnsOK(rest, rs2)
    BY ZenonT(90), <1>4, <1>5, <2>2 DEF TurnsOK
  <2> QED BY <2>1, <2>3, Zenon
<1>7. CASE todo # <<>>
  <2>1. rs2[r].todo # <<>> /\ rs2[r].pc = "queueing"
    BY <1>1, <1>2, <1>7
  <2>2. next = Append(rest, r)
    BY <1>7 DEF After
  <2>3. /\ next \in Seq(Requests) /\ Len(rest) \in Nat /\ Len(next) = Len(rest) + 1
        /\ \A i \in 1..Len(rest) : next[i] = rest[i]
        /\ next[Len(rest) + 1] = r
    <3>1. rest \in Seq(Requests) /\ r \in Requests
      BY <1>2
    <3>2. Append(rest, r) \in Seq(Requests) /\ Longer(rest, Append(rest, r), r)
      BY <3>1, Lengthens, Zenon
    <3> QED BY <2>2, <3>2, Zenon DEF Longer
  <2>4. \A i \in 1..Len(next) : i \in 1..Len(rest) \/ i = Len(rest) + 1
    BY <2>3
  <2>5. \A i \in 1..Len(next) : rs2[next[i]].todo # <<>> /\ rs2[next[i]].pc = "queueing"
    BY ZenonT(90), <1>5, <2>1, <2>3, <2>4
  <2>6. \A i, k \in 1..Len(next) : next[i] = next[k] => i = k
    <3> SUFFICES ASSUME NEW i \in 1..Len(next), NEW k \in 1..Len(next), next[i] = next[k]
                 PROVE  i = k
      OBVIOUS
    <3>1. CASE i \in 1..Len(rest) /\ k \in 1..Len(rest)
      BY <1>4, <2>3, <3>1
    <3>2. CASE i = Len(rest) + 1 /\ k = Len(rest) + 1
      BY <3>2
    <3>3. CASE i \in 1..Len(rest) /\ k = Len(rest) + 1
      BY <1>3, <2>3, <3>3
    <3>4. CASE i = Len(rest) + 1 /\ k \in 1..Len(rest)
      BY <1>3, <2>3, <3>4
    <3> QED BY <2>4, <3>1, <3>2, <3>3, <3>4
  <2> QED BY ZenonT(90), <2>3, <2>5, <2>6 DEF TurnsOK
<1> QED BY <1>6, <1>7

\* The record called for in the name of the request whose turn it is.
NextCall(ts, rs) ==
  LET q == Head(ts)
  IN  IF ts = <<>> THEN <<>> ELSE <<Fresh("enqueue", q, Head(rs[q].todo), rs[q].batch)>>

LEMMA FreshIs ==
  ASSUME NEW by \in {"enqueue", "retry"}, NEW r \in 0..MaxRequests, NEW s \in Sources,
         NEW b \in Requests
  PROVE  /\ Fresh(by, r, s, b) \in Notes /\ Fresh(by, r, s, b).by = by
         /\ \A js, p, d : RecordOK(js, p, d, Fresh(by, r, s, b))
         /\ ~ByDrain(Fresh(by, r, s, b)) /\ ByNew(Fresh(by, r, s, b))
         /\ AllNew(<<Fresh(by, r, s, b)>>)
<1> PICK n : n = Fresh(by, r, s, b)
  OBVIOUS
<1>1. n.by = by /\ n.job = 0 /\ n.state = "queued"
  BY DEF Fresh
<1>2. n \in Notes
  BY DEF Fresh, Notes, States, Errors
<1>3. \A js, p, d : RecordOK(js, p, d, n)
  BY <1>1 DEF RecordOK, ByNew, ByDrain
<1>4. ~ByDrain(n) /\ ByNew(n)
  BY <1>1 DEF ByNew, ByDrain
<1>5. AllNew(<<n>>)
  BY <1>1, <1>4 DEF AllNew
<1> QED BY <1>1, <1>2, <1>3, <1>4, <1>5

LEMMA NextCallIs ==
  ASSUME NEW ts, NEW rs, TurnsOK(ts, rs)
  PROVE  /\ NextCall(ts, rs) \in Seq(Notes) /\ AllNew(NextCall(ts, rs))
         /\ CallsOK(ts, rs, NextCall(ts, rs)) /\ NoRetries(NextCall(ts, rs))
<1>1. CASE ts = <<>>
  <2>1. NextCall(ts, rs) = <<>>
    BY <1>1 DEF NextCall
  <2> QED BY <2>1 DEF AllNew, CallsOK, NoRetries
<1>2. CASE ts # <<>>
  <2>1. PICK q : q = Head(ts)
    OBVIOUS
  <2>2. q \in Requests /\ rs[q] \in Asks /\ rs[q].todo # <<>>
    BY <1>2, <2>1, TailOf DEF TurnsOK
  <2>3. Head(rs[q].todo) \in Sources /\ rs[q].batch \in Requests
    <3>1. rs[q].todo \in Seq(Sources) /\ rs[q].batch \in Requests
      BY <2>2 DEF Asks
    <3> QED BY <2>2, <3>1, TailOf
  <2>4. q \in 0..MaxRequests
    BY <2>2, CountsAre DEF Requests
  <2>5. PICK n : n = Fresh("enqueue", q, Head(rs[q].todo), rs[q].batch)
    OBVIOUS
  <2>6. n \in Notes /\ AllNew(<<n>>) /\ n.by = "enqueue"
    BY <2>3, <2>4, <2>5, FreshIs
  <2>7. NextCall(ts, rs) = <<n>> /\ <<n>> \in Seq(Notes)
    BY <1>2, <2>1, <2>5, <2>6 DEF NextCall
  <2>8. Called(ts, rs, n)
    BY <1>2, <2>1, <2>5 DEF Called, Fresh
  <2>9. \A i \in 1..Len(<<n>>) : i = 1 /\ <<n>>[i] = n
    OBVIOUS
  <2> QED BY <2>6, <2>7, <2>8, <2>9 DEF CallsOK, NoRetries
<1> QED BY <1>1, <1>2

-----------------------------------------------------------------------------
(* What every step keeps.                                                    *)

TurnsInv ==
  /\ TurnsOK(turns, requests)
  /\ CallsOK(turns, requests, appends)
  /\ RoomOK(Len(jobs), requests, appends)
GrantTypes ==
  /\ jobGrants \in [JobIds -> Grant \union {NoGrant}]
  /\ batchGrants \in [Requests -> Grant \union {NoGrant}]
  /\ revision \in 0..MaxEdits /\ cancels \in Nat
JobsInv == QueueInv /\ TurnsInv /\ GrantTypes

\* What JobsInv says of the variables' types.
LEMMA TypesAre ==
  ASSUME JobsInv
  PROVE  /\ jobs \in Seq(Job) /\ Len(jobs) \in Nat /\ Len(jobs) <= MaxJobs
         /\ \A j \in 1..Len(jobs) :
              /\ j \in JobIds /\ jobs[j] \in Job
              /\ jobs[j].source \in Sources /\ jobs[j].batch \in Requests
              /\ jobs[j].state \in States /\ jobs[j].error \in Errors
         /\ appends \in Seq(Notes) /\ drain \in [Sources -> Drains]
         /\ pending \in [Sources -> Seq(Nat)] /\ order \in Seq(Sources)
         /\ turns \in Seq(Requests) /\ requests \in [Requests -> Asks]
<1>1. /\ jobs \in Seq(Job) /\ Len(jobs) \in Nat /\ appends \in Seq(Notes)
      /\ drain \in [Sources -> Drains] /\ pending \in [Sources -> Seq(Nat)] /\ order \in Seq(Sources)
  BY DEF JobsInv, QueueInv, QueueOK, QueueTypes
<1>2. Len(jobs) <= MaxJobs
  <2>1. Len(jobs) + Cardinality(Todos(requests)) + Cardinality(Retries(appends)) <= MaxJobs
    BY DEF JobsInv, TurnsInv, RoomOK
  <2>2. Cardinality(Todos(requests)) \in Nat /\ Cardinality(Retries(appends)) \in Nat /\ MaxJobs \in Nat
    BY <1>1, CountsAre
  <2> QED BY <1>1, <2>1, <2>2
<1>3. ASSUME NEW j \in 1..Len(jobs)
      PROVE  /\ j \in JobIds /\ jobs[j] \in Job
             /\ jobs[j].source \in Sources /\ jobs[j].batch \in Requests
             /\ jobs[j].state \in States /\ jobs[j].error \in Errors
  <2>1. jobs[j] \in Job
    BY <1>1
  <2>2. j \in JobIds
    BY <1>1, <1>2, CountsAre DEF JobIds
  <2> QED BY <2>1, <2>2 DEF Job
<1>4. turns \in Seq(Requests) /\ requests \in [Requests -> Asks]
  BY DEF JobsInv, TurnsInv, TurnsOK
<1> QED BY <1>1, <1>2, <1>3, <1>4

\* There is room after a step that takes no more of it.
LEMMA RoomStays ==
  ASSUME NEW n \in Nat, NEW rs, NEW a \in Seq(Notes), RoomOK(n, rs, a),
         NEW m \in Nat, NEW rs2, NEW a2 \in Seq(Notes),
         m + Cardinality(Todos(rs2)) + Cardinality(Retries(a2))
           <= n + Cardinality(Todos(rs)) + Cardinality(Retries(a)),
         \A r \in Requests : Len(rs2[r].todo) <= MaxJobs
  PROVE  RoomOK(m, rs2, a2)
<1>1. /\ Cardinality(Todos(rs)) \in Nat /\ Cardinality(Todos(rs2)) \in Nat
      /\ Cardinality(Retries(a)) \in Nat /\ Cardinality(Retries(a2)) \in Nat /\ MaxJobs \in Nat
  BY CountsAre
<1>2. n + Cardinality(Todos(rs)) + Cardinality(Retries(a)) <= MaxJobs
  BY DEF RoomOK
<1>3. m + Cardinality(Todos(rs2)) + Cardinality(Retries(a2)) <= MaxJobs
  BY <1>1, <1>2
<1> QED BY <1>3 DEF RoomOK

\* The head of the records on their way, and what is behind it.
LEMMA HeadIs ==
  ASSUME JobsInv, appends # <<>>
  PROVE  /\ Tail(appends) \in Seq(Notes) /\ Head(appends) \in Notes
         /\ RecordOK(jobs, pending, drain, Head(appends))
         /\ Head(appends).source \in Sources /\ Head(appends).batch \in Requests
         /\ CallsOK(turns, requests, Tail(appends))
         /\ Head(appends).by = "enqueue" =>
              NoCalls(Tail(appends)) /\ Called(turns, requests, Head(appends))
         /\ RoomOK(Len(jobs), requests, Tail(appends))
         /\ Head(appends).by = "retry" => RoomOK(Len(jobs) + 1, requests, Tail(appends))
<1>1. appends \in Seq(Notes) /\ Len(jobs) \in Nat
  BY TypesAre
<1>2. Tail(appends) \in Seq(Notes) /\ Head(appends) \in Notes
      /\ RecordOK(jobs, pending, drain, Head(appends))
  BY <1>1, RecordsTail DEF JobsInv, QueueInv, QueueOK
<1>3. Head(appends).source \in Sources /\ Head(appends).batch \in Requests
  BY <1>2 DEF Notes
<1>4. /\ CallsOK(turns, requests, Tail(appends))
      /\ Head(appends).by = "enqueue" =>
           NoCalls(Tail(appends)) /\ Called(turns, requests, Head(appends))
  BY <1>1, CallsTail DEF JobsInv, TurnsInv
<1>5. RoomOK(Len(jobs), requests, appends)
  BY DEF JobsInv, TurnsInv
<1>6. /\ Cardinality(Todos(requests)) \in Nat /\ Cardinality(Retries(appends)) \in Nat
      /\ Cardinality(Retries(Tail(appends))) \in Nat
  BY <1>1, <1>2, CountsAre
<1>7. /\ Cardinality(Retries(Tail(appends))) <= Cardinality(Retries(appends))
      /\ Head(appends).by = "retry" =>
           Cardinality(Retries(Tail(appends))) <= Cardinality(Retries(appends)) - 1
  BY <1>1, RetriesTail
<1>8. \A r \in Requests : Len(requests[r].todo) <= MaxJobs
  BY <1>5 DEF RoomOK
<1>9. RoomOK(Len(jobs), requests, Tail(appends))
  <2>1. Len(jobs) + Cardinality(Todos(requests)) + Cardinality(Retries(Tail(appends)))
          <= Len(jobs) + Cardinality(Todos(requests)) + Cardinality(Retries(appends))
    BY <1>1, <1>6, <1>7
  <2> QED BY <1>1, <1>2, <1>5, <1>8, <2>1, RoomStays
<1>10. ASSUME Head(appends).by = "retry" PROVE RoomOK(Len(jobs) + 1, requests, Tail(appends))
  <2>1. Len(jobs) + 1 \in Nat
    BY <1>1
  <2>2. Len(jobs) + 1 + Cardinality(Todos(requests)) + Cardinality(Retries(Tail(appends)))
          <= Len(jobs) + Cardinality(Todos(requests)) + Cardinality(Retries(appends))
    BY <1>1, <1>6, <1>7, <1>10
  <2> QED BY <1>1, <1>2, <1>5, <1>8, <2>1, <2>2, RoomStays
<1> QED BY <1>2, <1>3, <1>4, <1>9, <1>10

\* The record of a new job, and the arrays that get it.
LEMMA NewJoins ==
  ASSUME JobsInv, appends # <<>>, ByNew(Head(appends)),
         NEW s, s = Head(appends).source, NEW j, j = Len(jobs) + 1
  PROVE  /\ With(Head(appends)) \in Seq(Job) /\ Len(With(Head(appends))) = Len(jobs) + 1
         /\ \A i \in 1..Len(jobs) : With(Head(appends))[i] = jobs[i]
         /\ With(Head(appends))[Len(jobs) + 1].batch = Head(appends).batch
         /\ With(Head(appends))[Len(jobs) + 1].state = "queued"
         /\ QueueOK(With(Head(appends)), Keys(s), Pushed(s, j), drain, Tail(appends))
<1> PICK a : a = Head(appends)
  OBVIOUS
<1> DEFINE job == [source |-> a.source, batch |-> a.batch, state |-> a.state, error |-> a.error]
<1>1. a \in Notes /\ RecordOK(jobs, pending, drain, a) /\ s \in Sources /\ jobs \in Seq(Job)
  BY HeadIs, TypesAre
<1>2. a.job = 0 /\ a.state = "queued"
  BY <1>1 DEF RecordOK
<1>3. job \in Job
  BY <1>1 DEF Notes, Job
<1>4. job.state = "queued" /\ job.source = s /\ job.batch = a.batch
  BY <1>2
<1>5. With(a) = Append(jobs, job)
  BY <1>2 DEF With
<1> HIDE DEF job
<1> PICK js2 : js2 = Append(jobs, job)
  OBVIOUS
<1>6. /\ js2 \in Seq(Job) /\ Len(js2) = Len(jobs) + 1 /\ js2[Len(jobs) + 1] = job
      /\ \A i \in 1..Len(jobs) : js2[i] = jobs[i]
  BY <1>1, <1>3, OneMore
<1>7. Joins(jobs, js2, order, Keys(s), pending, Pushed(s, j), s)
  BY <1>4, <1>6 DEF Joins, Keys, Pushed
<1>8. QueueOK(js2, Keys(s), Pushed(s, j), drain, Tail(appends))
  BY <1>1, <1>7, JoinKeeps DEF JobsInv, QueueInv
<1> QED BY <1>4, <1>5, <1>6, <1>8

\* And the drains that are scheduled then, with the record of another new job.
Joined ==
  \E later \in Seq(Notes) :
    /\ AllNew(later) /\ NoRetries(later)
    /\ appends # <<>> /\ ByNew(Head(appends)) /\ jobs' = With(Head(appends))
    /\ Schedule(Keys(Head(appends).source), Pushed(Head(appends).source, Len(jobs) + 1), drain,
                Tail(appends), With(Head(appends)), later)

LEMMA EnqueuedKeeps ==
  ASSUME JobsInv, Enqueued
  PROVE  JobsInv' /\ Joined
<1> PICK a : a = Head(appends)
  OBVIOUS
<1> PICK r : r = a.req
  OBVIOUS
<1> PICK todo : todo = Tail(requests[r].todo)
  BY ZenonT(90)
<1> DEFINE made == requests[r].made \union {Len(jobs) + 1}
<1> HIDE DEF made
<1>1. appends # <<>> /\ a.by = "enqueue" /\ ByNew(a)
  BY ZenonT(90) DEF Enqueued, Lands, ByNew
<1>2. /\ Tail(appends) \in Seq(Notes) /\ NoCalls(Tail(appends)) /\ Called(turns, requests, a)
      /\ RoomOK(Len(jobs), requests, Tail(appends)) /\ a.source \in Sources
  BY <1>1, HeadIs
<1>3. /\ turns # <<>> /\ r = Head(turns) /\ TurnsOK(turns, requests)
      /\ requests \in [Requests -> Asks] /\ turns \in Seq(Requests) /\ Len(jobs) \in Nat
  BY <1>2, TypesAre DEF Called, JobsInv, TurnsInv
<1>4. r \in Requests /\ requests[r].todo # <<>>
  BY <1>3, TailOf DEF TurnsOK
<1>5. requests[r] \in Asks /\ requests[r].todo \in Seq(Sources) /\ requests[r].made \subseteq Nat
      /\ requests[r].grant \in Grant \union {NoGrant}
  BY <1>3, <1>4 DEF Asks
<1>6. todo \in Seq(Sources)
  BY SMTT(90), <1>4, <1>5, TailOf
<1>7. requests' = [requests EXCEPT ![r].todo = todo, ![r].made = made,
                                   ![r].pc = IF todo = <<>> THEN "done" ELSE @]
  BY ZenonT(90) DEF Enqueued, made
<1>8. requests' \in [Requests -> Asks] /\ OthersStay(requests, requests', r)
      /\ requests'[r].todo = todo /\ requests'[r].batch = requests[r].batch
      /\ requests'[r].pc = (IF todo = <<>> THEN "done" ELSE requests[r].pc)
  <2>1. made \in SUBSET Nat
    BY SMTT(90), <1>3, <1>5 DEF made
  <2>2. requests'[r] = [requests[r] EXCEPT !.todo = todo, !.made = made,
                                           !.pc = IF todo = <<>> THEN "done" ELSE @]
    BY ZenonT(90), <1>3, <1>4, <1>7
  <2>3. requests'[r] \in Asks /\ requests'[r].todo = todo /\ requests'[r].batch = requests[r].batch
        /\ requests'[r].pc = (IF todo = <<>> THEN "done" ELSE requests[r].pc)
    BY ZenonT(90), <1>5, <1>6, <2>1, <2>2 DEF Asks
  <2>4. OthersStay(requests, requests', r)
    <3> SUFFICES ASSUME NEW q \in Requests, q # r PROVE requests'[q] = requests[q]
      BY DEF OthersStay
    <3> QED BY ZenonT(90), <1>3, <1>7
  <2>5. requests' \in [Requests -> Asks]
    BY ZenonT(90), <1>3, <1>7, <2>3, <2>4 DEF OthersStay
  <2> QED BY <2>3, <2>4, <2>5
<1>9. turns' = After(turns, r, todo)
  BY ZenonT(90) DEF Enqueued, After
<1>10. TurnsOK(turns', requests')
  BY <1>3, <1>8, <1>9, TurnPasses
<1>11. jobs' = With(a) /\ Schedule(Keys(a.source), Pushed(a.source, Len(jobs) + 1), drain,
                                   Tail(appends), With(a), NextCall(turns', requests'))
  <2> DEFINE next == After(turns, r, todo)
             call == IF next = <<>> THEN <<>>
                     ELSE LET q == Head(next)
                          IN  <<Fresh("enqueue", q,
                                      IF q = r THEN Head(todo) ELSE Head(requests[q].todo),
                                      requests[q].batch)>>
  <2>1. jobs' = With(a) /\ Schedule(Keys(a.source), Pushed(a.source, Len(jobs) + 1), drain,
                                    Tail(appends), With(a), call)
    BY ZenonT(90) DEF Enqueued, After
  <2> HIDE DEF next
  <2>2. next = turns'
    BY <1>9 DEF next
  <2>3. call = NextCall(turns', requests')
    <3>1. CASE turns' = <<>>
      BY <2>2, <3>1 DEF NextCall
    <3>2. CASE turns' # <<>>
      <4> PICK q : q = Head(turns')
        OBVIOUS
      <4>1. q \in Requests
        BY <1>10, <3>2, TailOf DEF TurnsOK
      <4>2. (IF q = r THEN Head(todo) ELSE Head(requests[q].todo)) = Head(requests'[q].todo)
            /\ requests[q].batch = requests'[q].batch
        BY <1>8, <4>1 DEF OthersStay
      <4> QED BY <2>2, <3>2, <4>2 DEF NextCall
    <3> QED BY <3>1, <3>2
  <2> QED BY ZenonT(90), <2>1, <2>3
<1>12. /\ NextCall(turns', requests') \in Seq(Notes) /\ AllNew(NextCall(turns', requests'))
       /\ CallsOK(turns', requests', NextCall(turns', requests'))
       /\ NoRetries(NextCall(turns', requests'))
  BY <1>10, NextCallIs
<1>13. /\ QueueOK(With(a), Keys(a.source), Pushed(a.source, Len(jobs) + 1), drain, Tail(appends))
       /\ Len(With(a)) = Len(jobs) + 1
  BY <1>1, NewJoins
<1>14. /\ QueueOK(With(a), order', pending', drain', appends')
       /\ Adds(Tail(appends), appends', NextCall(turns', requests'))
  BY <1>11, <1>12, <1>13, ScheduleKeeps
<1>15. CallsOK(turns', requests', appends') /\ Retries(appends') = Retries(Tail(appends))
  <2>1. CallsOK(turns', requests', Tail(appends))
    BY <1>2 DEF NoCalls, CallsOK
  <2> QED BY <1>2, <1>12, <1>14, <2>1, AddsKeeps
<1>16. RoomOK(Len(jobs'), requests', appends')
  <2>1. Len(jobs') = Len(jobs) + 1 /\ Len(jobs) + 1 \in Nat
    BY <1>3, <1>11, <1>13
  <2>2. /\ Len(requests[r].todo) <= MaxJobs /\ MaxJobs \in Nat
        /\ \A q \in Requests : Len(requests[q].todo) <= MaxJobs
    BY <1>2, <1>4, CountsAre DEF RoomOK
  <2>3. OthersAsk(requests, requests', r)
    BY <1>8 DEF OthersStay, OthersAsk
  <2>4. Cardinality(Todos(requests')) <= Cardinality(Todos(requests)) - 1
    BY <1>3, <1>4, <1>8, <2>2, <2>3, TodosLess
  <2>5. appends' \in Seq(Notes)
    BY <1>14 DEF QueueOK, QueueTypes
  <2>6. Cardinality(Todos(requests)) \in Nat /\ Cardinality(Todos(requests')) \in Nat
        /\ Cardinality(Retries(Tail(appends))) \in Nat
    BY <1>2, CountsAre
  <2>7. Len(jobs) + 1 + Cardinality(Todos(requests')) + Cardinality(Retries(appends'))
          <= Len(jobs) + Cardinality(Todos(requests)) + Cardinality(Retries(Tail(appends)))
    BY <1>3, <1>15, <2>4, <2>6
  <2>8. Len(requests'[r].todo) <= MaxJobs
    <3>1. Len(requests[r].todo) \in Nat /\ Len(todo) = Len(requests[r].todo) - 1
      BY <1>4, <1>5, TailOf
    <3> QED BY <1>8, <2>2, <3>1
  <2>9. \A q \in Requests : Len(requests'[q].todo) <= MaxJobs
    BY ZenonT(90), <1>8, <2>2, <2>8 DEF OthersStay
  <2> QED BY <1>2, <1>3, <2>1, <2>5, <2>7, <2>9, RoomStays
<1>17. GrantTypes'
  <2>1. jobGrants' = IF todo = <<>> /\ requests[r].grant # NoGrant
                     THEN [i \in JobIds |-> IF i \in made THEN requests[r].grant ELSE jobGrants[i]]
                     ELSE jobGrants
    BY ZenonT(90) DEF Enqueued, made
  <2>2. jobGrants \in [JobIds -> Grant \union {NoGrant}]
    BY DEF JobsInv, GrantTypes
  <2>3. jobGrants' \in [JobIds -> Grant \union {NoGrant}]
    BY SMTT(90), <1>5, <2>1, <2>2
  <2>4. UNCHANGED <<batchGrants, revision, cancels>>
    BY ZenonT(90) DEF Enqueued
  <2> QED BY <2>3, <2>4 DEF JobsInv, GrantTypes
<1>18. Joined
  BY <1>1, <1>11, <1>12 DEF Joined
<1> QED BY <1>10, <1>11, <1>14, <1>15, <1>16, <1>17, <1>18 DEF JobsInv, QueueInv, TurnsInv

LEMMA RetriedKeeps ==
  ASSUME JobsInv, Retried
  PROVE  JobsInv'
<1> PICK a : a = Head(appends)
  OBVIOUS
<1>1. appends # <<>> /\ a.by = "retry" /\ ByNew(a)
  BY DEF Retried, Lands, ByNew
<1>2. /\ Tail(appends) \in Seq(Notes) /\ CallsOK(turns, requests, Tail(appends))
      /\ RoomOK(Len(jobs) + 1, requests, Tail(appends)) /\ a.source \in Sources
  BY <1>1, HeadIs
<1>3. /\ jobs' = With(a)
      /\ Schedule(Keys(a.source), Pushed(a.source, Len(jobs) + 1), drain, Tail(appends), With(a), <<>>)
      /\ UNCHANGED <<turns, requests, jobGrants, batchGrants, revision, cancels>>
  BY DEF Retried
<1>4. /\ QueueOK(With(a), Keys(a.source), Pushed(a.source, Len(jobs) + 1), drain, Tail(appends))
      /\ Len(With(a)) = Len(jobs) + 1
  BY <1>1, NewJoins
<1>5. <<>> \in Seq(Notes) /\ AllNew(<<>>) /\ NoCalls(<<>>) /\ NoRetries(<<>>)
      /\ CallsOK(turns, requests, <<>>)
  BY DEF AllNew, NoCalls, NoRetries, CallsOK
<1>6. /\ QueueOK(With(a), order', pending', drain', appends')
      /\ Adds(Tail(appends), appends', <<>>)
  BY <1>3, <1>4, <1>5, ScheduleKeeps
<1>7. CallsOK(turns, requests, appends') /\ Retries(appends') = Retries(Tail(appends))
  BY <1>2, <1>5, <1>6, AddsKeeps
<1>8. RoomOK(Len(jobs'), requests, appends')
  BY <1>2, <1>3, <1>4, <1>7 DEF RoomOK
<1> QED BY <1>3, <1>6, <1>7, <1>8 DEF JobsInv, QueueInv, TurnsInv, GrantTypes

LEMMA RetryKeeps ==
  ASSUME JobsInv, NEW j \in JobIds, Retry(j)
  PROVE  JobsInv'
<1> PICK n : n = Fresh("retry", 0, jobs[j].source, jobs[j].batch)
  OBVIOUS
<1>1. /\ appends' = Append(appends, n) /\ j \in DOMAIN jobs /\ Room(1)
      /\ UNCHANGED <<jobs, order, pending, drain, turns, requests, jobGrants, batchGrants,
                     revision, cancels>>
  BY DEF Retry
<1>2. /\ appends \in Seq(Notes) /\ Len(jobs) \in Nat /\ jobs \in Seq(Job)
      /\ jobs[j].source \in Sources /\ jobs[j].batch \in Requests
  <2>1. j \in 1..Len(jobs)
    BY <1>1, TypesAre
  <2> QED BY <2>1, TypesAre
<1>3. 0 \in 0..MaxRequests
  BY CountsAre
<1>4. n \in Notes /\ n.by = "retry" /\ RecordOK(jobs, pending, drain, n) /\ ~ByDrain(n)
  BY <1>2, <1>3, FreshIs
<1>5. QueueOK(jobs, order, pending, drain, Append(appends, n))
  BY <1>4, CallKeeps DEF JobsInv, QueueInv
<1>6. Adds(appends, Append(appends, n), <<n>>) /\ <<n>> \in Seq(Notes)
  BY <1>2, <1>4, AddsOne
<1>7. NoCalls(<<n>>) /\ CallsOK(turns, requests, <<n>>)
  <2>1. \A i \in 1..Len(<<n>>) : <<n>>[i] = n
    OBVIOUS
  <2> QED BY <1>4, <2>1 DEF NoCalls, CallsOK
<1>8. CallsOK(turns, requests, Append(appends, n))
  BY <1>2, <1>6, <1>7, AddsKeeps DEF JobsInv, TurnsInv
<1>9. RoomOK(Len(jobs), requests, Append(appends, n))
  <2>1. Cardinality(Retries(Append(appends, n))) <= Cardinality(Retries(appends)) + 1
    BY <1>2, <1>4, RetriesMore
  <2>2. Append(appends, n) \in Seq(Notes)
    BY <1>5 DEF QueueOK, QueueTypes
  <2>3. /\ Cardinality(Todos(requests)) \in Nat /\ Cardinality(Retries(appends)) \in Nat
        /\ Cardinality(Retries(Append(appends, n))) \in Nat /\ MaxJobs \in Nat
    BY <1>2, <2>2, CountsAre
  <2>4. Len(jobs) + (Cardinality(Todos(requests)) + Cardinality(Retries(appends))) + 1 <= MaxJobs
    BY <1>1 DEF Room, ToCome, Todos, Retries
  <2>5. Len(jobs) + Cardinality(Todos(requests)) + Cardinality(Retries(Append(appends, n))) <= MaxJobs
    BY <1>2, <2>1, <2>3, <2>4
  <2> QED BY <2>5 DEF RoomOK, JobsInv, TurnsInv
<1> QED BY <1>1, <1>5, <1>8, <1>9 DEF JobsInv, QueueInv, TurnsInv, GrantTypes

\* A request takes the last turn, and calls for its first record if that is the first.
LEMMA TurnTaken ==
  ASSUME NEW ts, NEW rs, TurnsOK(ts, rs), NEW r \in Requests, rs[r].pc = "idle",
         NEW rs2 \in [Requests -> Asks], OthersStay(rs, rs2, r),
         rs2[r].pc = "queueing", rs2[r].todo # <<>>
  PROVE  /\ TurnsOK(Append(ts, r), rs2)
         /\ \A a : CallsOK(ts, rs, a) => CallsOK(Append(ts, r), rs2, a)
<1> PICK us : us = Append(ts, r)
  OBVIOUS
<1>1. /\ ts \in Seq(Requests)
      /\ \A i \in 1..Len(ts) : rs[ts[i]].todo # <<>> /\ rs[ts[i]].pc = "queueing" /\ ts[i] \in Requests
      /\ \A i, k \in 1..Len(ts) : ts[i] = ts[k] => i = k
  BY DEF TurnsOK
<1>2. us \in Seq(Requests) /\ Longer(ts, us, r)
  <2>1. Append(ts, r) \in Seq(Requests) /\ Longer(ts, Append(ts, r), r)
    BY <1>1, Lengthens, Zenon
  <2> QED BY <2>1, Zenon
<1>3. /\ Len(ts) \in Nat /\ Len(us) = Len(ts) + 1 /\ us[Len(ts) + 1] = r
      /\ \A i \in 1..Len(ts) : us[i] = ts[i]
      /\ \A i \in 1..Len(us) : i \in 1..Len(ts) \/ i = Len(ts) + 1
  BY <1>2 DEF Longer
<1>4. \A i \in 1..Len(ts) : ts[i] # r /\ rs2[ts[i]] = rs[ts[i]]
  BY <1>1 DEF OthersStay
<1>5. \A i \in 1..Len(us) : rs2[us[i]].todo # <<>> /\ rs2[us[i]].pc = "queueing"
  BY <1>1, <1>3, <1>4
<1>6. \A i, k \in 1..Len(us) : us[i] = us[k] => i = k
  <2> SUFFICES ASSUME NEW i \in 1..Len(us), NEW k \in 1..Len(us), us[i] = us[k]
               PROVE  i = k
    OBVIOUS
  <2>1. CASE i \in 1..Len(ts) /\ k \in 1..Len(ts)
    BY <1>1, <1>3, <2>1
  <2>2. CASE i = Len(ts) + 1 /\ k = Len(ts) + 1
    BY <2>2
  <2>3. CASE i \in 1..Len(ts) /\ k = Len(ts) + 1
    BY <1>3, <1>4, <2>3
  <2>4. CASE i = Len(ts) + 1 /\ k \in 1..Len(ts)
    BY <1>3, <1>4, <2>4
  <2> QED BY <1>3, <2>1, <2>2, <2>3, <2>4
<1>7. TurnsOK(us, rs2)
  BY <1>2, <1>5, <1>6, Zenon DEF TurnsOK
<1>8. ASSUME NEW a, CallsOK(ts, rs, a) PROVE CallsOK(us, rs2, a)
  <2>1. ASSUME NEW n, Called(ts, rs, n) PROVE Called(us, rs2, n)
    <3>1. ts # <<>>
      BY <2>1 DEF Called
    <3>2. 1 \in 1..Len(ts) /\ Head(ts) = ts[1]
      BY <1>1, <3>1, TailOf
    <3>3. us # <<>> /\ Head(us) = us[1]
      BY <1>2, <1>3
    <3>4. Head(us) = Head(ts) /\ rs2[Head(us)] = rs[Head(ts)]
      BY <1>3, <1>4, <3>2, <3>3
    <3> QED BY <2>1, <3>3, <3>4 DEF Called
  <2> QED BY <1>8, <2>1 DEF CallsOK
<1> QED BY <1>7, <1>8

LEMMA QueueBatchKeeps ==
  ASSUME JobsInv, NEW r \in Requests, NEW sources \in Seq(Sources), sources # <<>>,
         NEW trust \in BOOLEAN, NEW force \in SUBSET Sources, NEW b \in Requests,
         QueueBatch(r, sources, trust, force, b)
  PROVE  JobsInv'
<1> PICK g : g = GrantFor(trust, force)
  OBVIOUS
<1> PICK ask : ask = [pc |-> "queueing", batch |-> b, grant |-> g, todo |-> sources, made |-> {}]
  OBVIOUS
<1> PICK n : n = Fresh("enqueue", r, Head(sources), b)
  OBVIOUS
<1>1. /\ requests[r].pc = "idle" /\ Room(Len(sources))
      /\ requests' = [requests EXCEPT ![r] = ask]
      /\ batchGrants' = BatchGrant(b, g) /\ turns' = Append(turns, r)
      /\ appends' = IF turns = <<>> THEN Append(appends, n) ELSE appends
      /\ UNCHANGED <<jobs, order, pending, drain, jobGrants, revision, cancels>>
  BY DEF QueueBatch
<1>2. /\ TurnsOK(turns, requests) /\ requests \in [Requests -> Asks] /\ turns \in Seq(Requests)
      /\ Len(jobs) \in Nat /\ appends \in Seq(Notes)
  BY TypesAre DEF JobsInv, TurnsInv
<1>3. g \in Grant \union {NoGrant}
  <2>1. revision \in 0..MaxEdits
    BY DEF JobsInv, GrantTypes
  <2> QED BY <2>1 DEF GrantFor, Grant
<1>4. ask \in Asks /\ ask.pc = "queueing" /\ ask.todo = sources /\ ask.batch = b
  BY <1>3 DEF Asks
<1>5. /\ requests' \in [Requests -> Asks] /\ OthersStay(requests, requests', r)
      /\ requests'[r] = ask
  BY <1>1, <1>2, <1>4 DEF OthersStay
<1>6. /\ TurnsOK(turns', requests')
      /\ \A a : CallsOK(turns, requests, a) => CallsOK(turns', requests', a)
  BY <1>1, <1>2, <1>4, <1>5, TurnTaken
<1>7. n \in Notes /\ n.by = "enqueue" /\ RecordOK(jobs, pending, drain, n) /\ ~ByDrain(n)
  <2>1. r \in 0..MaxRequests /\ Head(sources) \in Sources
    BY CountsAre, TailOf DEF Requests
  <2> QED BY <2>1, FreshIs
<1>8. \A i \in 1..Len(<<n>>) : i = 1 /\ <<n>>[i] = n
  OBVIOUS
<1>9. QueueOK(jobs, order, pending, drain, appends')
  <2>1. CASE turns = <<>>
    BY <1>1, <1>7, <2>1, CallKeeps DEF JobsInv, QueueInv
  <2>2. CASE turns # <<>>
    BY <1>1, <2>2 DEF JobsInv, QueueInv
  <2> QED BY <2>1, <2>2
<1>10. CallsOK(turns', requests', appends') /\ Retries(appends') = Retries(appends)
       /\ appends' \in Seq(Notes)
  <2>1. CallsOK(turns, requests, appends)
    BY DEF JobsInv, TurnsInv
  <2>2. CASE turns # <<>>
    BY <1>1, <1>2, <1>6, <2>1, <2>2
  <2>3. CASE turns = <<>>
    <3>1. NoCalls(appends)
      BY <2>1, <2>3 DEF NoCalls, CallsOK, Called
    <3>2. turns' # <<>> /\ Head(turns') = r
      <4>1. turns' = <<r>>
        BY <1>1, <2>3
      <4> QED BY <4>1
    <3>3. Called(turns', requests', n)
      BY <1>4, <1>5, <3>2 DEF Called, Fresh
    <3>4. CallsOK(turns', requests', <<n>>) /\ NoRetries(<<n>>)
      BY <1>7, <1>8, <3>3 DEF CallsOK, NoRetries
    <3>5. Adds(appends, appends', <<n>>) /\ <<n>> \in Seq(Notes)
      BY <1>1, <1>2, <1>7, <2>3, AddsOne
    <3>6. CallsOK(turns', requests', appends)
      BY <1>6, <2>1
    <3> QED BY <1>2, <3>1, <3>4, <3>5, <3>6, AddsKeeps, AddedBehind
  <2> QED BY <2>2, <2>3
<1>11. RoomOK(Len(jobs), requests', appends')
  <2>1. OthersAsk(requests, requests', r)
    BY <1>5 DEF OthersStay, OthersAsk
  <2>2. Cardinality(Todos(requests')) <= Cardinality(Todos(requests)) + Len(sources)
    BY <1>4, <1>5, <2>1, TodosMore
  <2>3. /\ Cardinality(Todos(requests)) \in Nat /\ Cardinality(Retries(appends)) \in Nat
        /\ Cardinality(Todos(requests')) \in Nat /\ MaxJobs \in Nat /\ Len(sources) \in Nat
    BY <1>2, CountsAre
  <2>4. Len(jobs) + (Cardinality(Todos(requests)) + Cardinality(Retries(appends))) + Len(sources)
          <= MaxJobs
    BY <1>1 DEF Room, ToCome, Todos, Retries
  <2>5. Len(jobs) + Cardinality(Todos(requests')) + Cardinality(Retries(appends')) <= MaxJobs
    BY SMTT(90), <1>2, <1>10, <2>2, <2>3, <2>4
  <2>6. Len(sources) <= MaxJobs
    BY <1>2, <2>3, <2>4
  <2>7. \A q \in Requests : Len(requests'[q].todo) <= MaxJobs
    BY <1>4, <1>5, <2>6 DEF OthersStay, JobsInv, TurnsInv, RoomOK
  <2> QED BY <2>5, <2>7 DEF RoomOK
<1>12. GrantTypes'
  BY <1>1, <1>3 DEF JobsInv, GrantTypes, BatchGrant
<1> QED BY <1>1, <1>6, <1>9, <1>10, <1>11, <1>12 DEF JobsInv, QueueInv, TurnsInv

LEMMA StartKeeps ==
  ASSUME JobsInv, NEW r \in Requests, Start(r) \/ \E j \in JobIds : Confirm(r, j)
  PROVE  JobsInv'
<1>1. CASE Start(r)
  <2>1. PICK sources \in Batch, trust \in BOOLEAN, force \in SUBSET Sources :
          QueueBatch(r, sources, trust, force, r)
    BY <1>1 DEF Start
  <2>2. sources \in Seq(Sources) /\ sources # <<>>
    BY JobsAssumption
  <2> QED BY <2>1, <2>2, QueueBatchKeeps
<1>2. ASSUME NEW j \in JobIds, Confirm(r, j) PROVE JobsInv'
  <2>1. PICK force \in SUBSET {jobs[j].source} :
          QueueBatch(r, <<jobs[j].source>>, TRUE, force, jobs[j].batch)
    BY <1>2 DEF Confirm
  <2>2. jobs[j].source \in Sources /\ jobs[j].batch \in Requests
    <3>1. j \in 1..Len(jobs)
      BY <1>2, TypesAre DEF Confirm
    <3> QED BY <3>1, TypesAre
  <2> PICK s \in Sources : s = jobs[j].source
    BY <2>2
  <2>3. <<s>> \in Seq(Sources) /\ <<s>> # <<>> /\ force \in SUBSET Sources
    OBVIOUS
  <2> QED BY <2>1, <2>2, <2>3, QueueBatchKeeps
<1> QED BY <1>1, <1>2

\* What a step that leaves requests alone does to their turns and their room: nothing.
LEMMA TurnsStay ==
  ASSUME JobsInv, NEW b \in Seq(Notes), CallsOK(turns, requests, b), RoomOK(Len(jobs), requests, b),
         UNCHANGED <<turns, requests>>, Len(jobs') = Len(jobs),
         NEW later \in Seq(Notes), NoCalls(later), NoRetries(later), Adds(b, appends', later)
  PROVE  TurnsInv'
<1>1. CallsOK(turns, requests, later)
  BY DEF NoCalls, CallsOK
<1>2. CallsOK(turns, requests, appends') /\ Retries(appends') = Retries(b)
  BY <1>1, AddsKeeps
<1>3. RoomOK(Len(jobs'), requests, appends')
  BY <1>2 DEF RoomOK
<1> QED BY <1>2, <1>3 DEF TurnsInv, JobsInv

\* A record of a known job that is called for.
Changes(n, by, j, state) ==
  /\ n \in Notes /\ ~ByNew(n) /\ n.by = by /\ n.job = j /\ n.source = jobs[j].source
  /\ n.batch = jobs[j].batch /\ n.state = state
  /\ <<n>> \in Seq(Notes) /\ NoCalls(<<n>>) /\ NoRetries(<<n>>)
  /\ Adds(appends, Append(appends, n), <<n>>)

LEMMA ChangeIs ==
  ASSUME JobsInv, NEW by \in {"cancel", "run", "report", "finish"}, NEW j \in 1..Len(jobs),
         NEW state \in States, NEW error \in Errors
  PROVE  Changes(Change(by, j, state, error), by, j, state)
<1> PICK n : n = Change(by, j, state, error)
  OBVIOUS
<1>1. /\ n.by = by /\ n.job = j /\ n.source = jobs[j].source /\ n.batch = jobs[j].batch
      /\ n.state = state
  BY DEF Change
<1>2. jobs[j].source \in Sources /\ jobs[j].batch \in Requests /\ j \in Nat /\ appends \in Seq(Notes)
  BY TypesAre
<1>3. 0 \in 0..MaxRequests
  BY CountsAre
<1>4. n \in Notes
  BY <1>2, <1>3 DEF Change, Notes
<1>5. \A i \in 1..Len(<<n>>) : <<n>>[i] = n
  OBVIOUS
<1>6. ~ByNew(n) /\ NoCalls(<<n>>) /\ NoRetries(<<n>>)
  BY <1>1, <1>5 DEF ByNew, NoCalls, NoRetries
<1>7. <<n>> \in Seq(Notes) /\ Adds(appends, Append(appends, n), <<n>>)
  BY <1>2, <1>4, AddsOne
<1> QED BY <1>1, <1>4, <1>6, <1>7 DEF Changes

\* Drains that are where they were, at the arrays they had.
LEMMA TouchKeeps ==
  ASSUME NEW js, NEW o, NEW p, NEW d, NEW a, QueueOK(js, o, p, d, a), NEW d2 \in [Sources -> Drains],
         \A s \in Sources : d2[s].pc = d[s].pc /\ d2[s].own = d[s].own /\ d2[s].shared = d[s].shared
  PROVE  QueueOK(js, o, p, d2, a)
<1>1. SameArrays(p, d, d2)
  BY DEF SameArrays, HeldOf, At
<1>2. QueueTypes(js, o, p, d2, a) /\ js \in Seq(Job) /\ a \in Seq(Notes)
  BY DEF QueueOK, QueueTypes
<1>3. \A j \in 1..Len(js) : js[j].source \in Sources
  <2>1. \A j \in 1..Len(js) : js[j] \in Job
    BY <1>2
  <2> QED BY <2>1 DEF Job
<1>4. \A i \in 1..Len(a) : a[i].source \in Sources
  <2>1. \A i \in 1..Len(a) : a[i] \in Notes
    BY <1>2
  <2> QED BY <2>1 DEF Notes
<1>5. ArraysOK(js, p, d2)
  BY <1>1 DEF QueueOK, ArraysOK, SameArrays
<1>6. RecordsOK(js, p, d2, a)
  <2> SUFFICES ASSUME NEW i \in 1..Len(a) PROVE RecordOK(js, p, d2, a[i])
    BY DEF RecordsOK
  <2>1. RecordOK(js, p, d, a[i]) /\ a[i].source \in Sources
    BY <1>4 DEF QueueOK, RecordsOK
  <2>2. d2[a[i].source].pc = d[a[i].source].pc /\ At(p, d2, a[i].source) = At(p, d, a[i].source)
    BY <1>1, <2>1 DEF SameArrays
  <2> QED BY <2>1, <2>2 DEF RecordOK
<1>7. PassedOK(js, p, d2)
  BY <1>1 DEF QueueOK, PassedOK, SameArrays
<1>8. DrivenOK(js, p, d2)
  BY <1>1, <1>3 DEF QueueOK, DrivenOK, SameArrays
<1>9. ListedOK(js, p, d2, a)
  BY <1>1, <1>3 DEF QueueOK, ListedOK, SameArrays
<1>10. SlotsOK(d2)
  <2>1. ActiveIn(d2) = ActiveIn(d)
    BY DEF ActiveIn
  <2> QED BY <2>1 DEF QueueOK, SlotsOK
<1> QED BY <1>2, <1>5, <1>6, <1>7, <1>8, <1>9, <1>10 DEF QueueOK

LEMMA CancelKeeps ==
  ASSUME JobsInv, NEW j \in JobIds, Cancel(j)
  PROVE  JobsInv'
<1> PICK s : s = jobs[j].source
  OBVIOUS
<1>1. /\ j \in 1..Len(jobs) /\ s \in Sources /\ jobs[j].error \in Errors
      /\ drain \in [Sources -> Drains] /\ pending \in [Sources -> Seq(Nat)] /\ appends \in Seq(Notes)
  <2>1. j \in 1..Len(jobs)
    BY TypesAre DEF Cancel
  <2> QED BY <2>1, TypesAre
<1>2. UNCHANGED <<jobs, turns, requests, batchGrants, revision>> /\ cancels' = cancels + 1
  BY DEF Cancel
<1>3. drain[s] \in Drains /\ drain[s].own \in Seq(Nat) /\ Held(s) \in Seq(Nat)
  <2>1. drain[s] \in Drains /\ pending[s] \in Seq(Nat)
    BY <1>1
  <2>2. drain[s].own \in Seq(Nat)
    BY <2>1 DEF Drains
  <2> QED BY <2>1, <2>2 DEF Held
<1>4. CASE jobs[j].state = "queued"
  <2> PICK n : n = Change("cancel", j, "cancelled", jobs[j].error)
    OBVIOUS
  <2>1. /\ DropPending(s, j) /\ appends' = Append(appends, n) /\ UNCHANGED jobGrants
    BY <1>4 DEF Cancel
  <2>2. "cancelled" \in States
    BY DEF States
  <2>3. /\ n \in Notes /\ ~ByNew(n) /\ n.by = "cancel" /\ n.job = j /\ n.source = s
        /\ n.batch = jobs[j].batch /\ n.state = "cancelled"
        /\ <<n>> \in Seq(Notes) /\ NoCalls(<<n>>) /\ NoRetries(<<n>>)
        /\ Adds(appends, Append(appends, n), <<n>>)
    <3>1. Changes(n, "cancel", j, "cancelled")
      BY <1>1, <2>2, ChangeIs
    <3> QED BY <3>1 DEF Changes
  <2>4. ~ByDrain(n) /\ RecordOK(jobs, pending, drain, n)
    BY <1>1, <2>3 DEF ByDrain, RecordOK
  <2>5. QueueOK(jobs, order, pending, drain, appends')
    BY <2>1, <2>3, <2>4, CallKeeps DEF JobsInv, QueueInv
  <2>6. QueueOK(jobs, order', pending', drain', appends')
    <3>1. CASE pending[s] = <<>>
      BY <2>1, <2>5, <3>1 DEF DropPending
    <3>2. CASE pending[s] # <<>>
      <4>1. Without(pending[s], j) \in Seq(Nat)
        BY <1>1, WithoutIs
      <4> PICK rest \in Seq(Nat) : rest = Without(pending[s], j)
        BY <4>1
      <4>2. /\ pending' = [pending EXCEPT ![s] = rest]
            /\ order' = IF rest = <<>> THEN Without(order, s) ELSE order
            /\ drain' = IF s \in Active
                        THEN [drain EXCEPT ![s].own = Held(s), ![s].shared = FALSE] ELSE drain
        BY <2>1, <3>2 DEF DropPending
      <4>3. /\ pending' \in [Sources -> Seq(Nat)] /\ pending'[s] = rest
            /\ \A u \in Sources : u # s => pending'[u] = pending[u]
        BY <1>1, <4>2
      <4>6. order' = IF pending'[s] = <<>> THEN Without(order, s) ELSE order
        BY <4>2, <4>3
      <4>4. CASE s \in Active
        <5>1. drain' = [drain EXCEPT ![s] = [drain[s] EXCEPT !.own = Held(s), !.shared = FALSE]]
          BY <1>1, <4>2, <4>4
        <5>2. [drain[s] EXCEPT !.own = Held(s), !.shared = FALSE] \in Drains
          BY <1>3 DEF Drains
        <5>3. drain' \in [Sources -> Drains] /\ \A u \in Sources : u # s => drain'[u] = drain[u]
          BY <1>1, <5>1, <5>2
        <5>4. drain'[s] = [drain[s] EXCEPT !.own = Held(s), !.shared = FALSE]
          BY <1>1, <5>1
        <5>5. drain'[s].pc = drain[s].pc /\ drain'[s].own = Held(s) /\ drain'[s].shared = FALSE
          BY <1>3, <5>4 DEF Drains
        <5>6. HeldOf(pending', drain', s) = HeldOf(pending, drain, s)
          BY <5>5 DEF HeldOf, Held
        <5>7. Drops(pending, pending', drain, drain', s, j)
          BY <4>3, <5>3, <5>5, <5>6 DEF Drops
        <5>8. \E i \in 1..Len(appends') : appends'[i].job = j /\ appends'[i].by = "cancel"
          BY <1>1, <2>1, <2>3, OneMore
        <5> QED BY <1>1, <2>5, <3>2, <4>6, <5>7, <5>8, DropKeeps
      <4>5. CASE s \notin Active
        <5>1. drain' = drain /\ drain[s].pc = "idle"
          BY <1>1, <4>2, <4>5 DEF Active
        <5>2. Drops(pending, pending', drain, drain', s, j)
          BY <1>1, <4>3, <5>1 DEF Drops
        <5>3. \E i \in 1..Len(appends') : appends'[i].job = j /\ appends'[i].by = "cancel"
          BY <1>1, <2>1, <2>3, OneMore
        <5> QED BY <1>1, <2>5, <3>2, <4>6, <5>2, <5>3, DropKeeps
      <4> QED BY <4>4, <4>5
    <3> QED BY <3>1, <3>2
  <2>7. TurnsInv'
    BY <1>1, <1>2, <2>1, <2>3, TurnsStay DEF JobsInv, TurnsInv
  <2>8. GrantTypes'
    BY <1>2, <2>1 DEF JobsInv, GrantTypes
  <2> QED BY <1>2, <2>6, <2>7, <2>8 DEF JobsInv, QueueInv
<1>5. CASE jobs[j].state # "queued"
  <2>1. /\ drain' = IF s \in Active THEN [drain EXCEPT ![s].aborted = TRUE] ELSE drain
        /\ jobGrants' = [jobGrants EXCEPT ![j] = NoGrant]
        /\ UNCHANGED <<order, pending, appends>>
    BY <1>5 DEF Cancel
  <2>2. /\ drain' \in [Sources -> Drains]
        /\ \A t \in Sources : /\ drain'[t].pc = drain[t].pc /\ drain'[t].own = drain[t].own
                              /\ drain'[t].shared = drain[t].shared
    <3>1. CASE s \in Active
      <4>1. drain' = [drain EXCEPT ![s] = [drain[s] EXCEPT !.aborted = TRUE]]
        BY <1>1, <2>1, <3>1
      <4>2. [drain[s] EXCEPT !.aborted = TRUE] \in Drains
        BY <1>3 DEF Drains
      <4>3. /\ [drain[s] EXCEPT !.aborted = TRUE].pc = drain[s].pc
            /\ [drain[s] EXCEPT !.aborted = TRUE].own = drain[s].own
            /\ [drain[s] EXCEPT !.aborted = TRUE].shared = drain[s].shared
        BY <1>3 DEF Drains
      <4> QED BY <1>1, <4>1, <4>2, <4>3
    <3>2. CASE s \notin Active
      BY <1>1, <2>1, <3>2
    <3> QED BY <3>1, <3>2
  <2>3. QueueOK(jobs, order, pending, drain', appends)
    BY <2>2, TouchKeeps DEF JobsInv, QueueInv
  <2>4. GrantTypes'
    BY <1>2, <2>1 DEF JobsInv, GrantTypes
  <2> QED BY <1>2, <2>1, <2>3, <2>4 DEF JobsInv, QueueInv, TurnsInv
<1> QED BY <1>4, <1>5

\* A record of a known job lands; the records behind it stay, and only runs are added.
LEMMA KnownLands ==
  ASSUME JobsInv, appends # <<>>, ~ByNew(Head(appends)), UNCHANGED <<turns, requests>>,
         jobs' = With(Head(appends)), Adds(Tail(appends), appends', <<>>)
  PROVE  /\ Relabelled(jobs, jobs', Head(appends))
         /\ Head(appends).job \in JobIds /\ Head(appends).job \in 1..Len(jobs)
         /\ TurnsInv'
<1> PICK a : a = Head(appends)
  OBVIOUS
<1>1. /\ a \in Notes /\ RecordOK(jobs, pending, drain, a) /\ Tail(appends) \in Seq(Notes)
      /\ CallsOK(turns, requests, Tail(appends)) /\ RoomOK(Len(jobs), requests, Tail(appends))
  BY HeadIs
<1>2. Relabelled(jobs, jobs', a)
  BY <1>1, WithKnown, TypesAre
<1>3. a.job \in 1..Len(jobs) /\ Len(jobs') = Len(jobs)
  BY <1>2 DEF Relabelled
<1>4. a.job \in JobIds
  BY <1>3, TypesAre
<1>5. <<>> \in Seq(Notes) /\ NoCalls(<<>>) /\ NoRetries(<<>>)
  BY DEF NoCalls, NoRetries
<1>6. TurnsInv'
  BY <1>1, <1>3, <1>5, TurnsStay
<1> QED BY <1>2, <1>3, <1>4, <1>6

LEMMA ForgetKeeps ==
  ASSUME GrantTypes, NEW js, NEW j, Forget(js, j), UNCHANGED <<revision, cancels>>
  PROVE  GrantTypes'
BY DEF Forget, GrantTypes

LEMMA CancelledKeeps ==
  ASSUME JobsInv, Cancelled
  PROVE  JobsInv'
<1> PICK a : a = Head(appends)
  OBVIOUS
<1>1. /\ appends # <<>> /\ a.by = "cancel" /\ jobs' = With(a) /\ Forget(With(a), a.job)
      /\ appends' = Tail(appends)
      /\ UNCHANGED <<order, pending, drain, turns, requests, revision, cancels>>
  BY DEF Cancelled, Lands
<1>2. ~ByNew(a) /\ a.state = "cancelled" /\ Tail(appends) \in Seq(Notes)
  <2>1. RecordOK(jobs, pending, drain, a) /\ Tail(appends) \in Seq(Notes)
    BY <1>1, HeadIs
  <2> QED BY <1>1, <2>1 DEF RecordOK, ByNew
<1>3. Adds(Tail(appends), appends', <<>>)
  BY <1>1, <1>2, AddsOne
<1>4. Relabelled(jobs, jobs', a) /\ TurnsInv'
  BY <1>1, <1>2, <1>3, KnownLands
<1>5. QueueOK(jobs', order, pending, drain, Tail(appends))
  BY <1>1, <1>2, <1>4, SettleKeeps DEF JobsInv, QueueInv
<1>6. GrantTypes'
  BY <1>1, ForgetKeeps DEF JobsInv
<1> QED BY <1>1, <1>4, <1>5, <1>6 DEF JobsInv, QueueInv

\* The record of a run, or of its progress, and the drain that goes on at it.
LEMMA RunLands ==
  ASSUME JobsInv, appends # <<>>, Head(appends).by \in {"run", "report"},
         jobs' = With(Head(appends)), appends' = Tail(appends),
         NEW new \in Drains, new.pc \in Driving,
         new.own = drain[Head(appends).source].own, new.shared = drain[Head(appends).source].shared,
         drain' = [drain EXCEPT ![Head(appends).source] = new],
         UNCHANGED <<order, pending, turns, requests, jobGrants, batchGrants, revision, cancels>>
  PROVE  JobsInv'
<1> PICK a : a = Head(appends)
  OBVIOUS
<1>1. ~ByNew(a) /\ a.source \in Sources /\ Tail(appends) \in Seq(Notes) /\ drain \in [Sources -> Drains]
  BY HeadIs, TypesAre DEF ByNew
<1>2. Adds(Tail(appends), appends', <<>>)
  BY <1>1, AddsOne
<1>3. Relabelled(jobs, jobs', a) /\ TurnsInv'
  BY <1>1, <1>2, KnownLands
<1>4. StepsOn(drain, drain', a.source)
  BY <1>1 DEF StepsOn
<1>5. QueueOK(jobs', order, pending, drain', Tail(appends))
  BY <1>3, <1>4, RunsKeep DEF JobsInv, QueueInv
<1> QED BY <1>3, <1>5 DEF JobsInv, QueueInv, GrantTypes

LEMMA StartedKeeps ==
  ASSUME JobsInv, Started
  PROVE  JobsInv'
<1> PICK a : a = Head(appends)
  OBVIOUS
<1> PICK g : g = IF jobGrants[a.job] # NoGrant THEN jobGrants[a.job] ELSE batchGrants[a.batch]
  OBVIOUS
<1> PICK d : d = drain[a.source]
  OBVIOUS
<1>1. /\ appends # <<>> /\ a.by = "run" /\ jobs' = With(a) /\ appends' = Tail(appends)
      /\ drain' = [drain EXCEPT ![a.source].pc = "planning", ![a.source].grant = g]
      /\ UNCHANGED <<order, pending, turns, requests, jobGrants, batchGrants, revision, cancels>>
  BY DEF Started, Lands
<1>2. /\ a.source \in Sources /\ a.batch \in Requests /\ d \in Drains /\ Tail(appends) \in Seq(Notes)
      /\ drain \in [Sources -> Drains] /\ RecordOK(jobs, pending, drain, a)
  BY <1>1, HeadIs, TypesAre
<1>3. a.job \in JobIds
  <2>1. a.job \in 1..Len(jobs)
    BY <1>1, <1>2 DEF RecordOK, ByNew
  <2> QED BY <2>1, TypesAre
<1>4. g \in Grant \union {NoGrant}
  BY <1>2, <1>3 DEF JobsInv, GrantTypes
<1> PICK new : new = [d EXCEPT !.pc = "planning", !.grant = g]
  OBVIOUS
<1>5. new \in Drains /\ new.pc \in Driving /\ new.own = d.own /\ new.shared = d.shared
  BY <1>2, <1>4 DEF Drains, Pcs, Driving
<1>6. drain' = [drain EXCEPT ![a.source] = new]
  BY <1>1, <1>2
<1> QED BY <1>1, <1>5, <1>6, RunLands

LEMMA ReportedKeeps ==
  ASSUME JobsInv, Reported
  PROVE  JobsInv'
<1> PICK a : a = Head(appends)
  OBVIOUS
<1> PICK d : d = drain[a.source]
  OBVIOUS
<1>1. /\ appends # <<>> /\ a.by = "report" /\ jobs' = With(a) /\ appends' = Tail(appends)
      /\ drain' = [drain EXCEPT ![a.source].pc = "mutating"]
      /\ UNCHANGED <<order, pending, turns, requests, jobGrants, batchGrants, revision, cancels>>
  BY DEF Reported, Lands
<1>2. a.source \in Sources /\ d \in Drains /\ drain \in [Sources -> Drains]
  BY <1>1, HeadIs, TypesAre
<1> PICK new : new = [d EXCEPT !.pc = "mutating"]
  OBVIOUS
<1>3. new \in Drains /\ new.pc \in Driving /\ new.own = d.own /\ new.shared = d.shared
  BY <1>2 DEF Drains, Pcs, Driving
<1>4. drain' = [drain EXCEPT ![a.source] = new]
  BY <1>1, <1>2
<1> QED BY <1>1, <1>3, <1>4, RunLands

\* The job a drain is at.
LEMMA CurrentIs ==
  ASSUME JobsInv, NEW s \in Sources, drain[s].pc # "idle"
  PROVE  /\ Current(s) = At(pending, drain, s)
         /\ Current(s) \in 1..Len(jobs) /\ Current(s) \in JobIds /\ jobs[Current(s)].source = s
         /\ jobs[Current(s)].error \in Errors /\ jobs[Current(s)].batch \in Requests
         /\ drain[s] \in Drains
<1>1. Current(s) = At(pending, drain, s)
  BY DEF Current, At, Held, HeldOf
<1>2. /\ QueueTypes(jobs, order, pending, drain, appends)
      /\ HeldOf(pending, drain, s) # <<>> /\ OfSource(jobs, s, HeldOf(pending, drain, s))
  BY DEF JobsInv, QueueInv, QueueOK, ArraysOK
<1>3. Current(s) \in 1..Len(jobs) /\ jobs[Current(s)].source = s
  BY <1>1, <1>2, AtIs
<1> QED BY <1>1, <1>3, TypesAre

\* A drain comes to one of its own steps.
Comes(s, new) ==
  /\ new \in Drains /\ new.pc \in Driving
  /\ new.own = drain[s].own /\ new.shared = drain[s].shared
  /\ drain' = [drain EXCEPT ![s] = new]

LEMMA ComesKeeps ==
  ASSUME JobsInv, NEW s \in Sources, drain[s].pc \in {"planning", "mutating"},
         NEW new, Comes(s, new)
  PROVE  /\ QueueOK(jobs, order, pending, drain', appends) /\ NoneOf(appends, s)
         /\ At(pending, drain', s) = Current(s)
<1>1. StepsOn(drain, drain', s)
  BY TypesAre DEF StepsOn, Comes
<1>2. /\ QueueOK(jobs, order, pending, drain', appends) /\ NoneOf(appends, s)
      /\ SameArrays(pending, drain, drain')
  BY <1>1, DriveKeeps DEF JobsInv, QueueInv
<1> QED BY <1>2, CurrentIs DEF SameArrays

\* And calls for the record that step awaits.
LEMMA DriveNotes ==
  ASSUME JobsInv, NEW s \in Sources, drain[s].pc \in {"planning", "mutating"},
         NEW new, Comes(s, new), NEW by \in {"report", "finish"}, new.pc = Awaits(by),
         NEW state \in States, NEW error \in Errors,
         by = "report" => state = "running", by = "finish" => state \notin {"queued", "running"},
         appends' = Append(appends, Change(by, Current(s), state, error)),
         UNCHANGED <<jobs, order, pending, turns, requests>>
  PROVE  QueueInv' /\ TurnsInv'
<1> PICK n : n = Change(by, Current(s), state, error)
  OBVIOUS
<1>1. Current(s) \in 1..Len(jobs) /\ jobs[Current(s)].source = s
  BY CurrentIs
<1>2. Changes(n, by, Current(s), state)
  BY <1>1, ChangeIs
<1>3. /\ n \in Notes /\ ~ByNew(n) /\ n.by = by /\ n.job = Current(s) /\ n.source = s
      /\ n.batch = jobs[Current(s)].batch /\ n.state = state
      /\ <<n>> \in Seq(Notes) /\ NoCalls(<<n>>) /\ NoRetries(<<n>>)
      /\ Adds(appends, appends', <<n>>)
  BY <1>1, <1>2 DEF Changes
<1>4. /\ QueueOK(jobs, order, pending, drain', appends) /\ NoneOf(appends, s)
      /\ At(pending, drain', s) = Current(s)
  BY ComesKeeps
<1>5. drain'[s] = new
  BY TypesAre DEF Comes
<1>6. RecordOK(jobs, pending, drain', n)
  BY <1>1, <1>3, <1>4, <1>5 DEF RecordOK, ByDrain
<1>7. QueueOK(jobs, order, pending, drain', appends')
  BY <1>3, <1>4, <1>6, DriveCalls
<1>8. TurnsInv'
  BY <1>3, TypesAre, TurnsStay DEF JobsInv, TurnsInv
<1> QED BY <1>7, <1>8 DEF QueueInv

LEMMA EndsKeeps ==
  ASSUME JobsInv, NEW s \in Sources, drain[s].pc \in {"planning", "mutating"},
         NEW state \in {"completed", "failed", "cancelled", "awaiting"}, NEW error \in Errors,
         Ends(s, state, error),
         UNCHANGED <<jobs, order, pending, turns, requests, batchGrants, revision, cancels>>,
         jobGrants' \in [JobIds -> Grant \union {NoGrant}]
  PROVE  JobsInv'
<1> PICK new : new = [drain[s] EXCEPT !.pc = "finishing"]
  OBVIOUS
<1>1. drain[s] \in Drains /\ drain \in [Sources -> Drains]
  BY CurrentIs, TypesAre
<1>2. new \in Drains /\ new.pc = "finishing" /\ new.own = drain[s].own /\ new.shared = drain[s].shared
  BY <1>1 DEF Drains, Pcs
<1>3. Comes(s, new)
  BY <1>1, <1>2 DEF Comes, Ends, Driving
<1>4. new.pc = Awaits("finish")
  BY <1>2 DEF Awaits
<1>5. /\ appends' = Append(appends, Change("finish", Current(s), state, error))
      /\ state \in States /\ state \notin {"queued", "running"}
  BY DEF Ends, States
<1>6. QueueInv' /\ TurnsInv'
  BY <1>3, <1>4, <1>5, DriveNotes
<1>7. GrantTypes'
  BY DEF JobsInv, GrantTypes
<1> QED BY <1>6, <1>7 DEF JobsInv

LEMMA ThrowsEnds ==
  ASSUME JobsInv, NEW s \in Sources, drain[s].pc # "idle", Throws(s)
  PROVE  \E state \in {"completed", "failed", "cancelled", "awaiting"}, error \in Errors :
           Ends(s, state, error)
BY CurrentIs DEF Throws, Errors

LEMMA PlanKeeps ==
  ASSUME JobsInv, NEW s \in Sources, Plan(s)
  PROVE  JobsInv'
<1>1. /\ drain[s].pc = "planning"
      /\ UNCHANGED <<jobs, order, pending, turns, requests, jobGrants, batchGrants, revision, cancels>>
  BY DEF Plan
<1>2. /\ drain[s] \in Drains /\ drain \in [Sources -> Drains] /\ revision \in Nat
      /\ jobs[Current(s)].error \in Errors
      /\ jobGrants \in [JobIds -> Grant \union {NoGrant}]
  BY <1>1, CurrentIs, TypesAre DEF JobsInv, GrantTypes
<1>3. CASE \E state \in {"completed", "failed", "cancelled", "awaiting"}, error \in Errors :
             Ends(s, state, error)
  BY <1>1, <1>2, <1>3, EndsKeeps
<1>4. CASE drain' = [drain EXCEPT ![s].pc = "mutating", ![s].rev = revision] /\ UNCHANGED appends
  <2> PICK new : new = [drain[s] EXCEPT !.pc = "mutating", !.rev = revision]
    OBVIOUS
  <2>1. new \in Drains /\ new.pc = "mutating" /\ new.own = drain[s].own /\ new.shared = drain[s].shared
    BY <1>2 DEF Drains, Pcs
  <2>2. Comes(s, new)
    BY <1>2, <1>4, <2>1 DEF Comes, Driving
  <2>3. QueueOK(jobs, order, pending, drain', appends)
    BY <1>1, <2>2, ComesKeeps
  <2> QED BY <1>1, <1>4, <2>3 DEF JobsInv, QueueInv, TurnsInv, GrantTypes
<1>5. CASE /\ drain' = [drain EXCEPT ![s].pc = "reporting", ![s].rev = revision]
           /\ appends' = Append(appends, Change("report", Current(s), "running",
                                                jobs[Current(s)].error))
  <2> PICK new : new = [drain[s] EXCEPT !.pc = "reporting", !.rev = revision]
    OBVIOUS
  <2>1. new \in Drains /\ new.pc = "reporting" /\ new.own = drain[s].own /\ new.shared = drain[s].shared
    BY <1>2 DEF Drains, Pcs
  <2>2. Comes(s, new) /\ new.pc = Awaits("report")
    BY <1>2, <1>5, <2>1 DEF Comes, Driving, Awaits
  <2>3. "running" \in States
    BY DEF States
  <2>4. QueueInv' /\ TurnsInv'
    BY <1>1, <1>2, <1>5, <2>2, <2>3, DriveNotes
  <2> QED BY <1>1, <2>4 DEF JobsInv, GrantTypes
<1>6. "failed" \in {"completed", "failed", "cancelled", "awaiting"}
      /\ "awaiting" \in {"completed", "failed", "cancelled", "awaiting"}
      /\ {"confirm", "final", "force"} \subseteq Errors
  BY DEF Errors
<1>7. Throws(s) => \E state \in {"completed", "failed", "cancelled", "awaiting"}, error \in Errors :
                     Ends(s, state, error)
  BY <1>1, ThrowsEnds
<1> QED BY <1>3, <1>4, <1>5, <1>6, <1>7 DEF Plan

LEMMA MutateKeeps ==
  ASSUME JobsInv, NEW s \in Sources, Mutate(s)
  PROVE  JobsInv'
<1>1. /\ drain[s].pc = "mutating"
      /\ UNCHANGED <<jobs, order, pending, turns, requests, batchGrants, revision, cancels>>
  BY DEF Mutate
<1>2. jobs[Current(s)].error \in Errors /\ jobGrants \in [JobIds -> Grant \union {NoGrant}]
  BY <1>1, CurrentIs DEF JobsInv, GrantTypes
<1>3. jobGrants' \in [JobIds -> Grant \union {NoGrant}]
  BY <1>2 DEF Mutate
<1>4. \E state \in {"completed", "failed", "cancelled", "awaiting"}, error \in Errors :
        Ends(s, state, error)
  BY <1>1, <1>2, ThrowsEnds DEF Mutate, Errors
<1> QED BY <1>1, <1>3, <1>4, EndsKeeps

LEMMA FinishedKeeps ==
  ASSUME JobsInv, Finished
  PROVE  JobsInv'
<1> PICK a : a = Head(appends)
  OBVIOUS
<1> PICK s : s = a.source
  OBVIOUS
<1>1. /\ appends # <<>> /\ a.by = "finish" /\ jobs' = With(a) /\ Forget(With(a), a.job)
      /\ Advance(s, With(a), Tail(appends))
      /\ UNCHANGED <<turns, requests, revision, cancels>>
  BY DEF Finished, Lands
<1>2. /\ RecordOK(jobs, pending, drain, a) /\ s \in Sources /\ a \in Notes
      /\ Tail(appends) \in Seq(Notes) /\ jobs \in Seq(Job) /\ appends \in Seq(Notes)
  BY <1>1, HeadIs, TypesAre
<1>3. /\ ~ByNew(a) /\ ByDrain(a) /\ a.state \notin {"queued", "running"}
      /\ a.job = At(pending, drain, s) /\ drain[s].pc = "finishing"
  BY <1>1, <1>2 DEF RecordOK, ByNew, ByDrain, Awaits
<1>4. Relabelled(jobs, jobs', a)
  BY <1>1, <1>2, <1>3, WithKnown
<1>5. QueueOK(jobs', order, pending, drain, Tail(appends))
  BY <1>1, <1>3, <1>4, SettleKeeps DEF JobsInv, QueueInv
<1>6. NoneOf(Tail(appends), s)
  <2>1. RecordsOK(jobs, pending, drain, appends) /\ AloneOK(appends)
    BY DEF JobsInv, QueueInv, QueueOK
  <2>2. \A i \in 1..Len(Tail(appends)) :
          ByDrain(Tail(appends)[i]) => Tail(appends)[i].source # a.source
    BY <1>1, <1>2, <1>3, <2>1, RecordsTail
  <2> QED BY <2>2 DEF NoneOf
<1>7. jobs'[At(pending, drain, s)].state \notin {"queued", "running"}
  BY <1>3, <1>4 DEF Relabelled
<1>8. QueueOK(jobs', order', pending', drain', appends') /\ Adds(Tail(appends), appends', <<>>)
  <2>1. Advance(s, jobs', Tail(appends)) /\ drain[s].pc # "idle"
    BY <1>1, <1>3
  <2> QED BY <1>2, <1>5, <1>6, <1>7, <2>1, AdvanceKeeps
<1>9. TurnsInv'
  BY <1>1, <1>3, <1>8, KnownLands
<1>10. GrantTypes'
  BY <1>1, ForgetKeeps DEF JobsInv
<1> QED BY <1>8, <1>9, <1>10 DEF JobsInv, QueueInv

LEMMA SkipKeeps ==
  ASSUME JobsInv, NEW s \in Sources, Skip(s)
  PROVE  JobsInv'
<1>1. /\ drain[s].pc = "skipping" /\ Advance(s, jobs, appends)
      /\ UNCHANGED <<jobs, turns, requests, jobGrants, batchGrants, revision, cancels>>
  BY DEF Skip
<1>2. /\ QueueOK(jobs, order, pending, drain, appends) /\ PassedOK(jobs, pending, drain)
      /\ DrivenOK(jobs, pending, drain) /\ RecordsOK(jobs, pending, drain, appends)
      /\ appends \in Seq(Notes)
  BY TypesAre DEF JobsInv, QueueInv, QueueOK
<1>3. At(pending, drain, s) \in 1..Len(jobs) /\ jobs[At(pending, drain, s)].source = s
  BY <1>1, CurrentIs
<1>4. jobs[At(pending, drain, s)].state \notin {"queued", "running"}
  BY <1>1, <1>2, <1>3 DEF PassedOK, DrivenOK, Driving
<1>5. NoneOf(appends, s)
  BY <1>1, <1>2 DEF NoneOf, RecordsOK, RecordOK, ByDrain, Awaits
<1>6. QueueOK(jobs, order', pending', drain', appends') /\ Adds(appends, appends', <<>>)
  BY <1>1, <1>2, <1>4, <1>5, AdvanceKeeps
<1>7. <<>> \in Seq(Notes) /\ NoCalls(<<>>) /\ NoRetries(<<>>)
  BY DEF NoCalls, NoRetries
<1>8. TurnsInv'
  BY <1>1, <1>2, <1>6, <1>7, TurnsStay DEF JobsInv, TurnsInv
<1> QED BY <1>1, <1>6, <1>8 DEF JobsInv, QueueInv, GrantTypes

\* A request that has not been made has nothing to enqueue, and nothing enqueued.
IdleOK(rs) ==
  \A r \in Requests : rs[r].pc = "idle" =>
    rs[r].todo = <<>> /\ rs[r].made = {} /\ rs[r].grant = NoGrant

\* A new job that is on its way has its room.
LEMMA NewHasRoom ==
  ASSUME JobsInv, appends # <<>>, ByNew(Head(appends))
  PROVE  Len(jobs) + 1 <= MaxJobs
<1>1. /\ Len(jobs) \in Nat /\ Tail(appends) \in Seq(Notes) /\ requests \in [Requests -> Asks]
      /\ turns \in Seq(Requests)
  BY HeadIs, TypesAre
<1>2. /\ Cardinality(Todos(requests)) \in Nat /\ MaxJobs \in Nat
      /\ Cardinality(Retries(Tail(appends))) \in Nat
  BY <1>1, CountsAre
<1>3. CASE Head(appends).by = "retry"
  <2>1. Len(jobs) + 1 + Cardinality(Todos(requests)) + Cardinality(Retries(Tail(appends))) <= MaxJobs
    BY <1>3, HeadIs DEF RoomOK
  <2> QED BY <1>1, <1>2, <2>1
<1>4. CASE Head(appends).by = "enqueue"
  <2>1. Called(turns, requests, Head(appends)) /\ TurnsOK(turns, requests)
    BY <1>4, HeadIs DEF JobsInv, TurnsInv
  <2> PICK r : r = Head(turns)
    OBVIOUS
  <2>2. r \in Requests /\ requests[r].todo # <<>>
    BY <1>1, <2>1, TailOf DEF Called, TurnsOK
  <2> PICK rs2 : rs2 = [q \in Requests |-> IF q = r THEN [requests[q] EXCEPT !.todo = Tail(@)]
                                           ELSE requests[q]]
    OBVIOUS
  <2>3. OthersAsk(requests, rs2, r) /\ rs2[r].todo = Tail(requests[r].todo)
    <3>1. requests[r] \in Asks /\ rs2[r] = [requests[r] EXCEPT !.todo = Tail(@)]
      BY <1>1, <2>2
    <3>2. rs2[r].todo = Tail(requests[r].todo)
      BY <3>1 DEF Asks
    <3> QED BY <3>2 DEF OthersAsk
  <2>4. Len(requests[r].todo) <= MaxJobs
    BY <2>2, HeadIs DEF RoomOK
  <2>5. Cardinality(Todos(rs2)) <= Cardinality(Todos(requests)) - 1 /\ Cardinality(Todos(rs2)) \in Nat
    BY <1>1, <2>2, <2>3, <2>4, TodosLess, CountsAre
  <2>6. Len(jobs) + Cardinality(Todos(requests)) + Cardinality(Retries(Tail(appends))) <= MaxJobs
    BY HeadIs DEF RoomOK
  <2> QED BY <1>1, <1>2, <2>5, <2>6
<1> QED BY <1>3, <1>4 DEF ByNew

\* What the process finds: the journal, with the record being written or without.
LEMMA FoundIs ==
  ASSUME JobsInv,
         NEW file \in {jobs} \union {With(a) : a \in IF appends = <<>> THEN {} ELSE {Head(appends)}}
  PROVE  /\ Interrupted(file) \in Seq(Job) /\ Len(Interrupted(file)) <= MaxJobs
         /\ \A j \in 1..Len(Interrupted(file)) : Interrupted(file)[j].state # "running"
<1>1. file \in Seq(Job) /\ Len(file) <= MaxJobs
  <2>1. CASE file = jobs
    BY <2>1, TypesAre
  <2>2. CASE appends # <<>> /\ file = With(Head(appends)) /\ ByNew(Head(appends))
    BY <2>2, NewJoins, NewHasRoom
  <2>3. CASE appends # <<>> /\ file = With(Head(appends)) /\ ~ByNew(Head(appends))
    <3>1. Relabelled(jobs, file, Head(appends))
      BY <2>3, HeadIs, TypesAre, WithKnown
    <3> QED BY <3>1, TypesAre DEF Relabelled
  <2> QED BY <2>1, <2>2, <2>3
<1> PICK js : js = Interrupted(file)
  OBVIOUS
<1>2. \A j \in 1..Len(file) :
        /\ file[j] \in Job
        /\ [file[j] EXCEPT !.state = "failed", !.error = "retryable"] \in Job
        /\ [file[j] EXCEPT !.state = "failed", !.error = "retryable"].state = "failed"
  <2> SUFFICES ASSUME NEW j \in 1..Len(file)
               PROVE  /\ file[j] \in Job
                      /\ [file[j] EXCEPT !.state = "failed", !.error = "retryable"] \in Job
                      /\ [file[j] EXCEPT !.state = "failed", !.error = "retryable"].state = "failed"
    OBVIOUS
  <2>1. file[j] \in Job
    BY <1>1
  <2> QED BY <2>1 DEF Job, States, Errors
<1>3. js = [j \in 1..Len(file) |-> IF file[j].state = "running"
                                   THEN [file[j] EXCEPT !.state = "failed", !.error = "retryable"]
                                   ELSE file[j]]
  <2>1. DOMAIN file = 1..Len(file)
    BY <1>1
  <2> QED BY <2>1 DEF Interrupted
<1>4. js \in [1..Len(file) -> Job] /\ Len(file) \in Nat
  <2>1. Len(file) \in Nat
    BY <1>1
  <2>2. \A j \in 1..Len(file) :
          (IF file[j].state = "running"
           THEN [file[j] EXCEPT !.state = "failed", !.error = "retryable"] ELSE file[j]) \in Job
    BY <1>2
  <2> QED BY <1>3, <2>1, <2>2, Zenon
<1>5. js \in Seq(Job) /\ Len(js) = Len(file)
  BY <1>4
<1>6. \A j \in 1..Len(file) : js[j].state # "running"
  BY <1>2, <1>3
<1> QED BY <1>1, <1>5, <1>6

\* What a restart queues of the journal it finds, named.
LEMMA RestartIs ==
  ASSUME Restart
  PROVE  \E file, js, f, o, p, d :
           /\ file \in {jobs} \union {With(a) : a \in IF appends = <<>> THEN {} ELSE {Head(appends)}}
           /\ js = Interrupted(file) /\ f = Ascending(FirstJobs(js))
           /\ o = [k \in DOMAIN f |-> js[f[k]].source]
           /\ p = [s \in Sources |-> Ascending(QueuedAt(js, s))]
           /\ d = [s \in Sources |-> Asleep]
           /\ jobs' = js /\ Schedule(o, p, d, <<>>, js, <<>>)
<1>1. PICK file \in {jobs} \union {With(a) : a \in IF appends = <<>> THEN {} ELSE {Head(appends)}} :
        /\ jobs' = Interrupted(file)
        /\ Schedule([k \in DOMAIN Ascending(FirstJobs(Interrupted(file))) |->
                       Interrupted(file)[Ascending(FirstJobs(Interrupted(file)))[k]].source],
                    [s \in Sources |-> Ascending(QueuedAt(Interrupted(file), s))],
                    [s \in Sources |-> Asleep], <<>>, Interrupted(file), <<>>)
  BY ZenonT(90) DEF Restart, FirstJobs, QueuedAt
<1> WITNESS file, Interrupted(file), Ascending(FirstJobs(Interrupted(file))),
            [k \in DOMAIN Ascending(FirstJobs(Interrupted(file))) |->
               Interrupted(file)[Ascending(FirstJobs(Interrupted(file)))[k]].source],
            [s \in Sources |-> Ascending(QueuedAt(Interrupted(file), s))],
            [s \in Sources |-> Asleep]
<1> QED BY ZenonT(90), <1>1

LEMMA RestartKeeps ==
  ASSUME JobsInv, IdleOK(requests), Restart
  PROVE  JobsInv'
<1>1. PICK file, js, f, o, p, d :
        /\ file \in {jobs} \union {With(a) : a \in IF appends = <<>> THEN {} ELSE {Head(appends)}}
        /\ js = Interrupted(file) /\ f = Ascending(FirstJobs(js))
        /\ o = [k \in DOMAIN f |-> js[f[k]].source]
        /\ p = [s \in Sources |-> Ascending(QueuedAt(js, s))]
        /\ d = [s \in Sources |-> Asleep]
        /\ jobs' = js /\ Schedule(o, p, d, <<>>, js, <<>>)
  BY RestartIs
<1> /\ file \in {jobs} \union {With(a) : a \in IF appends = <<>> THEN {} ELSE {Head(appends)}}
    /\ js = Interrupted(file) /\ f = Ascending(FirstJobs(js))
    /\ o = [k \in DOMAIN f |-> js[f[k]].source]
    /\ p = [s \in Sources |-> Ascending(QueuedAt(js, s))]
    /\ d = [s \in Sources |-> Asleep]
  BY <1>1
<1>2. jobs' = js /\ Schedule(o, p, d, <<>>, js, <<>>)
  BY <1>1
<1>3. /\ js \in Seq(Job) /\ Len(js) <= MaxJobs /\ Len(js) \in Nat
      /\ \A j \in 1..Len(js) : js[j].state # "running"
  BY FoundIs
<1>4. QueueOK(js, o, p, d, <<>>)
  BY <1>3, RestoredKeeps
<1>5. <<>> \in Seq(Notes) /\ AllNew(<<>>) /\ NoCalls(<<>>) /\ NoRetries(<<>>)
  BY DEF AllNew, NoCalls, NoRetries
<1>6. QueueOK(js, order', pending', drain', appends') /\ Adds(<<>>, appends', <<>>)
  BY <1>2, <1>4, <1>5, ScheduleKeeps
<1>7. NoCalls(appends') /\ Retries(appends') = {}
  <2>1. NoCalls(appends') /\ Retries(appends') = Retries(<<>>)
    BY <1>5, <1>6, AddsKeeps
  <2>2. Retries(<<>>) = {}
    BY DEF Retries
  <2> QED BY <2>1, <2>2
<1>8. /\ turns' = <<>>
      /\ requests' = [r \in Requests |-> IF requests[r].pc = "idle" THEN requests[r]
                                         ELSE [requests[r] EXCEPT !.pc = "done", !.grant = NoGrant,
                                                                  !.todo = <<>>, !.made = {}]]
      /\ jobGrants' = [j \in JobIds |-> NoGrant] /\ batchGrants' = [b \in Requests |-> NoGrant]
      /\ UNCHANGED <<revision, cancels>>
  BY ZenonT(90) DEF Restart
<1>9. \A r \in Requests : requests'[r] \in Asks /\ requests'[r].todo = <<>>
  <2> SUFFICES ASSUME NEW r \in Requests
               PROVE  requests'[r] \in Asks /\ requests'[r].todo = <<>>
    OBVIOUS
  <2>1. requests[r] \in Asks
    BY TypesAre
  <2>2. CASE requests[r].pc = "idle"
    BY <1>8, <2>1, <2>2 DEF IdleOK
  <2>3. CASE requests[r].pc # "idle"
    <3>1. requests'[r] = [requests[r] EXCEPT !.pc = "done", !.grant = NoGrant,
                                             !.todo = <<>>, !.made = {}]
      BY <1>8, <2>3
    <3> PICK q : q = requests[r]
      OBVIOUS
    <3>2. [q EXCEPT !.pc = "done", !.grant = NoGrant, !.todo = <<>>, !.made = {}] \in Asks
      <4>1. q \in Asks /\ <<>> \in Seq(Sources) /\ {} \in SUBSET Nat
        BY <2>1
      <4> QED BY ZenonT(90), <4>1 DEF Asks
    <3>3. [q EXCEPT !.pc = "done", !.grant = NoGrant, !.todo = <<>>, !.made = {}].todo = <<>>
      BY <2>1 DEF Asks
    <3> QED BY <3>1, <3>2, <3>3, Zenon
  <2> QED BY <2>2, <2>3
<1>10. TurnsOK(turns', requests')
  <2>1. requests' \in [Requests -> Asks]
    BY <1>8, <1>9
  <2>2. TurnsOK(<<>>, requests')
    BY <2>1 DEF TurnsOK
  <2> QED BY <1>8, <2>2, Zenon
<1>11. CallsOK(turns', requests', appends')
  BY <1>7 DEF NoCalls, CallsOK
<1>12. RoomOK(Len(jobs'), requests', appends')
  <2>1. \A r \in Requests : Len(requests'[r].todo) = 0
    BY <1>9
  <2>2. Todos(requests') = {}
    <3>1. \A q \in Requests \X (1..MaxJobs) : q[1] \in Requests /\ q[2] \in 1..MaxJobs
      OBVIOUS
    <3>2. \A n \in 1..MaxJobs : ~(n <= 0)
      BY CountsAre
    <3> QED BY <2>1, <3>1, <3>2 DEF Todos
  <2>3. Cardinality({}) = 0
    BY FS_EmptySet
  <2>4. Len(jobs') + Cardinality(Todos(requests')) + Cardinality(Retries(appends')) <= MaxJobs
    BY <1>2, <1>3, <1>7, <2>2, <2>3
  <2> QED BY <2>1, <2>4, CountsAre DEF RoomOK
<1>13. GrantTypes'
  BY ZenonT(90), <1>8 DEF JobsInv, GrantTypes
<1> QED BY SMTT(90), <1>2, <1>6, <1>10, <1>11, <1>12, <1>13 DEF JobsInv, QueueInv, TurnsInv

\* No step makes a request without making it so.
LEMMA IdleKeeps ==
  ASSUME JobsInv, IdleOK(requests), [Next]_vars
  PROVE  IdleOK(requests')
<1>1. CASE UNCHANGED requests
  BY <1>1
<1>2. ASSUME NEW r \in Requests, NEW sources, NEW trust, NEW force, NEW b,
             QueueBatch(r, sources, trust, force, b)
      PROVE  IdleOK(requests')
  <2> PICK ask : ask = [pc |-> "queueing", batch |-> b, grant |-> GrantFor(trust, force),
                        todo |-> sources, made |-> {}]
    OBVIOUS
  <2>1. requests' = [requests EXCEPT ![r] = ask] /\ ask.pc # "idle"
    BY <1>2 DEF QueueBatch
  <2>2. requests \in [Requests -> Asks]
    BY TypesAre
  <2> QED BY <2>1, <2>2 DEF IdleOK
<1>3. CASE Enqueued
  <2> PICK r : r = Head(appends).req
    OBVIOUS
  <2> PICK todo : todo = Tail(requests[r].todo)
    OBVIOUS
  <2> PICK made : made = requests[r].made \union {Len(jobs) + 1}
    BY ZenonT(90)
  <2>1. requests' = [requests EXCEPT ![r].todo = todo, ![r].made = made,
                                     ![r].pc = IF todo = <<>> THEN "done" ELSE @]
    BY ZenonT(90), <1>3 DEF Enqueued
  <2>2. r \in Requests /\ requests[r].pc = "queueing"
    <3>1. Called(turns, requests, Head(appends)) /\ TurnsOK(turns, requests)
      BY ZenonT(90), <1>3, HeadIs DEF Enqueued, Lands, JobsInv, TurnsInv
    <3> QED BY SMTT(90), <3>1, TailOf DEF Called, TurnsOK
  <2>3. requests \in [Requests -> Asks] /\ requests[r] \in Asks
    BY SMTT(90), <2>2, TypesAre
  <2>4. requests'[r] = [requests[r] EXCEPT !.todo = todo, !.made = made,
                                           !.pc = IF todo = <<>> THEN "done" ELSE @]
        /\ \A q \in Requests : q # r => requests'[q] = requests[q]
    BY ZenonT(90), <2>1, <2>2, <2>3
  <2>5. requests'[r].pc # "idle"
    BY <2>2, <2>3, <2>4 DEF Asks
  <2> QED BY <2>4, <2>5 DEF IdleOK
<1>4. CASE Restart
  <2>1. requests' = [r \in Requests |-> IF requests[r].pc = "idle" THEN requests[r]
                                        ELSE [requests[r] EXCEPT !.pc = "done", !.grant = NoGrant,
                                                                 !.todo = <<>>, !.made = {}]]
    BY <1>4 DEF Restart
  <2>2. \A r \in Requests : requests[r] \in Asks
    BY TypesAre
  <2>3. \A r \in Requests : requests[r].pc # "idle" => requests'[r].pc = "done"
    BY ZenonT(90), <2>1, <2>2 DEF Asks
  <2> QED BY <2>1, <2>3, Zenon DEF IdleOK
<1>5. Next \/ UNCHANGED vars
  OBVIOUS
<1>6. CASE \E r \in Requests : Start(r) \/ \E j \in JobIds : Confirm(r, j)
  BY <1>2, <1>6 DEF Start, Confirm
<1>7. CASE \E j \in JobIds : Retry(j) \/ Cancel(j)
  BY <1>1, <1>7 DEF Retry, Cancel
<1>8. CASE Retried \/ Cancelled \/ Started \/ Reported \/ Finished
  BY <1>1, <1>8 DEF Retried, Cancelled, Started, Reported, Finished
<1>9. CASE \E s \in Sources : Works(s)
  BY <1>1, <1>9 DEF Works, Plan, Mutate, Skip
<1>10. CASE Serve \/ EditConfig \/ UNCHANGED vars
  BY <1>1, <1>10 DEF Serve, EditConfig, vars
<1> QED BY <1>3, <1>4, <1>5, <1>6, <1>7, <1>8, <1>9, <1>10 DEF Next, AppendLands

LEMMA JobsStart ==
  ASSUME Init
  PROVE  JobsInv /\ IdleOK(requests)
<1>1. /\ jobs = <<>> /\ appends = <<>> /\ order = <<>> /\ turns = <<>>
      /\ pending = [s \in Sources |-> <<>>] /\ drain = [s \in Sources |-> Asleep]
      /\ requests = [r \in Requests |-> [pc |-> "idle", batch |-> r, grant |-> NoGrant,
                                         todo |-> <<>>, made |-> {}]]
      /\ jobGrants = [j \in JobIds |-> NoGrant] /\ batchGrants = [b \in Requests |-> NoGrant]
      /\ revision = 0 /\ cancels = 0
  BY DEF Init
<1>2. QueueInv
  <2>1. <<>> \in Seq(Job) /\ \A j \in 1..Len(<<>>) : <<>>[j].state # "running"
    OBVIOUS
  <2>2. /\ \A s \in Sources : QueuedAt(<<>>, s) = {}
        /\ FirstJobs(<<>>) = {}
    BY DEF QueuedAt, FirstJobs
  <2>3. Ascending({}) = <<>>
    <3>1. {} \subseteq Nat /\ IsFiniteSet({}) /\ Cardinality({}) = 0
      BY FS_EmptySet
    <3>2. Ascending({}) \in Seq(Nat) /\ Len(Ascending({})) = 0
      BY <3>1, Ascends
    <3> QED BY <3>2
  <2>4. pending = [s \in Sources |-> Ascending(QueuedAt(<<>>, s))]
    BY <1>1, <2>2, <2>3
  <2> PICK f : f = Ascending(FirstJobs(<<>>))
    OBVIOUS
  <2>5. f = <<>>
    BY <2>2, <2>3
  <2>6. order = [k \in DOMAIN f |-> <<>>[f[k]].source]
    BY <1>1, <2>5
  <2>7. QueueOK(<<>>, order, pending, drain, <<>>)
    BY ZenonT(90), <1>1, <2>1, <2>4, <2>6, RestoredKeeps
  <2> QED BY <1>1, <2>7 DEF QueueInv
<1>3. requests \in [Requests -> Asks] /\ \A r \in Requests : requests[r].todo = <<>>
  <2>1. \A r \in Requests : [pc |-> "idle", batch |-> r, grant |-> NoGrant,
                             todo |-> <<>>, made |-> {}] \in Asks
    BY DEF Asks
  <2> QED BY <1>1, <2>1
<1>4. TurnsOK(turns, requests) /\ CallsOK(turns, requests, appends)
  BY <1>1, <1>3 DEF TurnsOK, CallsOK
<1>5. RoomOK(Len(jobs), requests, appends)
  <2>1. \A r \in Requests : Len(requests[r].todo) = 0
    BY <1>3
  <2>2. Todos(requests) = {}
    <3>1. \A q \in Requests \X (1..MaxJobs) : q[1] \in Requests /\ q[2] \in 1..MaxJobs
      OBVIOUS
    <3>2. \A n \in 1..MaxJobs : ~(n <= 0)
      BY CountsAre
    <3> QED BY <2>1, <3>1, <3>2 DEF Todos
  <2>3. Retries(appends) = {} /\ Cardinality({}) = 0 /\ Len(jobs) = 0
    BY <1>1, FS_EmptySet DEF Retries
  <2> QED BY <2>1, <2>2, <2>3, CountsAre DEF RoomOK
<1>6. GrantTypes
  BY <1>1, JobsAssumption DEF GrantTypes
<1>7. IdleOK(requests)
  BY <1>1 DEF IdleOK
<1> QED BY <1>2, <1>4, <1>5, <1>6, <1>7 DEF JobsInv, TurnsInv

LEMMA StepKeeps ==
  ASSUME JobsInv, IdleOK(requests), [Next]_vars
  PROVE  JobsInv' /\ IdleOK(requests')
<1>1. IdleOK(requests')
  BY IdleKeeps
<1>2. CASE \E r \in Requests : Start(r) \/ \E j \in JobIds : Confirm(r, j)
  BY <1>1, <1>2, StartKeeps
<1>3. CASE \E j \in JobIds : Retry(j) \/ Cancel(j)
  BY <1>1, <1>3, RetryKeeps, CancelKeeps
<1>4. CASE AppendLands
  BY <1>1, <1>4, EnqueuedKeeps, RetriedKeeps, CancelledKeeps, StartedKeeps, ReportedKeeps, FinishedKeeps
     DEF AppendLands
<1>5. CASE \E s \in Sources : Works(s)
  BY <1>1, <1>5, PlanKeeps, MutateKeeps, SkipKeeps DEF Works
<1>6. CASE Restart
  BY <1>1, <1>6, RestartKeeps
<1>7. CASE Serve \/ UNCHANGED vars
  BY <1>7 DEF Serve, vars, JobsInv, QueueInv, TurnsInv, GrantTypes
<1>8. CASE EditConfig
  <2>1. revision' \in 0..MaxEdits
    BY <1>8, JobsAssumption DEF EditConfig, JobsInv, GrantTypes
  <2> QED BY <1>8, <2>1 DEF EditConfig, JobsInv, QueueInv, TurnsInv, GrantTypes
<1> QED BY <1>1, <1>2, <1>3, <1>4, <1>5, <1>6, <1>7, <1>8 DEF Next

\* What every step keeps holds of every behaviour.
THEOREM JobsHold == Spec => [](JobsInv /\ IdleOK(requests))
<1>1. Init => JobsInv /\ IdleOK(requests)
  BY JobsStart
<1>2. (JobsInv /\ IdleOK(requests)) /\ [Next]_vars => (JobsInv /\ IdleOK(requests))'
  BY StepKeeps
<1> QED BY <1>1, <1>2, PTL DEF Spec

-----------------------------------------------------------------------------
(* What the queue promises.                                                  *)

\* A queued job is where a drain will find it, or its cancellation is on its way
\* (queueJob, dropPending, processSource).
THEOREM QueuedStaysListed == Spec => []QueuedIsListed
<1>1. ASSUME JobsInv PROVE QueuedIsListed
  <2>1. ListedOK(jobs, pending, drain, appends)
    BY <1>1 DEF JobsInv, QueueInv, QueueOK
  <2>2. DOMAIN jobs = 1..Len(jobs) /\ DOMAIN appends = 1..Len(appends)
    BY <1>1, TypesAre
  <2>3. \A j \in 1..Len(jobs) : jobs[j].source \in Sources
    BY <1>1, TypesAre
  <2> QED BY <2>1, <2>2, <2>3 DEF ListedOK, QueuedIsListed, Active, Held, HeldOf
<1> QED BY <1>1, JobsHold, PTL

\* A job recorded as running is the one its source's drain is at (runJob,
\* markInterruptedOnRecovery).
THEOREM RunningStaysDriven == Spec => []RunningIsDriven
<1>1. ASSUME JobsInv PROVE RunningIsDriven
  <2>1. DrivenOK(jobs, pending, drain)
    BY <1>1 DEF JobsInv, QueueInv, QueueOK
  <2>2. DOMAIN jobs = 1..Len(jobs)
    BY <1>1, TypesAre
  <2>3. \A j \in 1..Len(jobs) : jobs[j].source \in Sources
    BY <1>1, TypesAre
  <2> QED BY <2>1, <2>2 DEF DrivenOK, RunningIsDriven, Driving, At, Current, Held, HeldOf
<1> QED BY <1>1, JobsHold, PTL

\* Every variable stays within its type, the map has the keys of its arrays, each
\* once, and no more sources are worked on than maxConcurrentSources.
THEOREM JobsTypeCorrect == Spec => []TypeOK
<1>1. ASSUME JobsInv PROVE TypeOK
  <2>1. /\ jobs \in Seq(Job) /\ Len(jobs) <= MaxJobs /\ Len(jobs) \in Nat
        /\ appends \in Seq(Notes) /\ drain \in [Sources -> Drains]
        /\ pending \in [Sources -> Seq(Nat)] /\ order \in Seq(Sources) /\ MaxJobs \in Nat
    BY <1>1, TypesAre, CountsAre
  <2>2. /\ ArraysOK(jobs, pending, drain) /\ KeysOK(order, pending)
        /\ RecordsOK(jobs, pending, drain, appends) /\ SlotsOK(drain)
    BY <1>1 DEF JobsInv, QueueInv, QueueOK
  <2>3. appends \in Seq(Record)
    <3>1. \A i \in 1..Len(appends) : appends[i] \in Record
      <4> SUFFICES ASSUME NEW i \in 1..Len(appends) PROVE appends[i] \in Record
        OBVIOUS
      <4> PICK n : n = appends[i]
        OBVIOUS
      <4>1. n \in Notes /\ RecordOK(jobs, pending, drain, n)
        BY <2>1, <2>2 DEF RecordsOK
      <4>2. n.job = 0 \/ n.job \in 1..Len(jobs)
        BY <4>1 DEF RecordOK
      <4>3. n.job \in 0..MaxJobs
        BY <2>1, <4>2
      <4>4. n \in Record
        BY <4>1, <4>3 DEF Notes, Record
      <4> QED BY <4>4
    <3> PICK list : list = appends
      OBVIOUS
    <3>2. list \in Seq(Notes) /\ \A i \in 1..Len(list) : list[i] \in Record
      BY <2>1, <3>1
    <3>3. list \in Seq(Record)
      BY <3>2
    <3> QED BY <3>3
  <2>4. pending \in [Sources -> Seq(JobIds)]
    <3>1. \A s \in Sources : pending[s] \in Seq(JobIds)
      <4> SUFFICES ASSUME NEW s \in Sources PROVE pending[s] \in Seq(JobIds)
        OBVIOUS
      <4> PICK list : list = pending[s]
        OBVIOUS
      <4>1. list \in Seq(Nat) /\ \A i \in 1..Len(list) : list[i] \in 1..Len(jobs)
        BY <2>1, <2>2 DEF ArraysOK, OfSource
      <4>2. \A i \in 1..Len(list) : list[i] \in JobIds
        BY <2>1, <4>1 DEF JobIds
      <4>3. list \in Seq(JobIds)
        BY <4>1, <4>2
      <4> QED BY <4>3
    <3> QED BY <2>1, <3>1
  <2>5. ToSet(order) = {s \in Sources : pending[s] # <<>>} /\ IsInjective(order)
    <3>1. DOMAIN order = 1..Len(order) /\ \A i \in 1..Len(order) : order[i] \in Sources
      BY <2>1
    <3>2. \A s \in Sources : (\E i \in 1..Len(order) : order[i] = s) <=> pending[s] # <<>>
      BY <2>2 DEF KeysOK, Contains
    <3>3. ToSet(order) = {order[i] : i \in 1..Len(order)}
      BY <3>1 DEF ToSet
    <3>4. ToSet(order) = {s \in Sources : pending[s] # <<>>}
      BY <3>1, <3>2, <3>3
    <3>5. IsInjective(order)
      BY <2>2, <3>1 DEF KeysOK, IsInjective
    <3> QED BY <3>4, <3>5
  <2>6. \A s \in Sources :
          /\ drain[s].pc \in {"idle", "starting", "skipping", "planning", "reporting",
                              "mutating", "finishing"}
          /\ drain[s].grant \in Grant \union {NoGrant}
          /\ drain[s].pc # "idle" => Held(s) # <<>>
    <3> SUFFICES ASSUME NEW s \in Sources
                 PROVE  /\ drain[s].pc \in Pcs
                        /\ drain[s].grant \in Grant \union {NoGrant}
                        /\ drain[s].pc # "idle" => Held(s) # <<>>
      BY DEF Pcs
    <3>1. drain[s] \in Drains
      BY <2>1
    <3>2. drain[s].pc # "idle" => Held(s) # <<>>
      BY <2>2 DEF ArraysOK, Held, HeldOf
    <3> QED BY <3>1, <3>2 DEF Drains
  <2>7. Cardinality(Active) <= MaxConcurrent
    BY <2>2 DEF SlotsOK, ActiveIn, Active
  <2>8. /\ jobGrants \in [JobIds -> Grant \union {NoGrant}]
        /\ batchGrants \in [Requests -> Grant \union {NoGrant}]
    BY <1>1 DEF JobsInv, GrantTypes
  <2> QED BY <2>1, <2>3, <2>4, <2>5, <2>6, <2>7, <2>8 DEF TypeOK, Job
<1> QED BY <1>1, JobsHold, PTL

-----------------------------------------------------------------------------
(* Confirmations: whoever holds one was given it by a request for its batch,  *)
(* and git is at a source under one that is of the configuration as loaded.   *)

Given(rs, g, b) == \E r \in Requests : rs[r].grant = g /\ rs[r].batch = b
Busy == {"planning", "reporting", "mutating"}

JobGrantsOK(js, rs, jg) ==
  \A j \in JobIds : jg[j] # NoGrant => j \in 1..Len(js) /\ Given(rs, jg[j], js[j].batch)
BatchGrantsOK(rs, bg) == \A b \in Requests : bg[b] # NoGrant => Given(rs, bg[b], b)
WorkOK(js, p, d, rs, s) ==
  d[s].pc \in Busy =>
    /\ d[s].grant # NoGrant => Given(rs, d[s].grant, js[At(p, d, s)].batch)
    /\ d[s].pc # "planning" => d[s].grant # NoGrant /\ d[s].grant.rev = d[s].rev
MadeOK(js, rs) ==
  \A r \in Requests : \A j \in rs[r].made : j \in 1..Len(js) /\ js[j].batch = rs[r].batch
GrantsInv ==
  /\ JobGrantsOK(jobs, requests, jobGrants)
  /\ BatchGrantsOK(requests, batchGrants)
  /\ \A s \in Sources : WorkOK(jobs, pending, drain, requests, s)
  /\ MadeOK(jobs, requests)

\* Jobs are added and keep their batches, requests keep what they gave, grants go.
JobsGo(js, js2) ==
  \A j \in 1..Len(js) : j \in 1..Len(js2) /\ js2[j].batch = js[j].batch
AsksGo(rs, rs2) ==
  \A r \in Requests : rs[r].grant # NoGrant => rs2[r].grant = rs[r].grant /\ rs2[r].batch = rs[r].batch
Fewer(f, f2, S) == \A x \in S : f2[x] # NoGrant => f2[x] = f[x]
\* A drain at work was at it before, at the same job.
Follows(p, d, p2, d2, s) ==
  d2[s].pc \in Busy => /\ d2[s].pc = d[s].pc /\ d2[s].grant = d[s].grant /\ d2[s].rev = d[s].rev
                       /\ At(p2, d2, s) = At(p, d, s)

LEMMA GivenStays ==
  ASSUME NEW rs, NEW rs2, AsksGo(rs, rs2), NEW g, g # NoGrant, NEW b, Given(rs, g, b)
  PROVE  Given(rs2, g, b)
BY DEF Given, AsksGo

LEMMA JobGrantsStay ==
  ASSUME NEW js, NEW rs, NEW jg, JobGrantsOK(js, rs, jg), NEW js2, JobsGo(js, js2),
         NEW rs2, AsksGo(rs, rs2), NEW jg2, Fewer(jg, jg2, JobIds)
  PROVE  JobGrantsOK(js2, rs2, jg2)
<1> SUFFICES ASSUME NEW j \in JobIds, jg2[j] # NoGrant
             PROVE  j \in 1..Len(js2) /\ Given(rs2, jg2[j], js2[j].batch)
  BY DEF JobGrantsOK
<1>1. jg2[j] = jg[j]
  BY DEF Fewer
<1>2. j \in 1..Len(js) /\ Given(rs, jg[j], js[j].batch)
  BY <1>1 DEF JobGrantsOK
<1>3. j \in 1..Len(js2) /\ js2[j].batch = js[j].batch
  BY <1>2 DEF JobsGo
<1> QED BY <1>1, <1>2, <1>3, GivenStays

LEMMA BatchGrantsStay ==
  ASSUME NEW rs, NEW bg, BatchGrantsOK(rs, bg), NEW rs2, AsksGo(rs, rs2),
         NEW bg2, Fewer(bg, bg2, Requests)
  PROVE  BatchGrantsOK(rs2, bg2)
BY GivenStays DEF BatchGrantsOK, Fewer

LEMMA WorkStays ==
  ASSUME NEW js, NEW p, NEW d, NEW rs, NEW s, WorkOK(js, p, d, rs, s),
         d[s].pc # "idle" => At(p, d, s) \in 1..Len(js),
         NEW js2, JobsGo(js, js2), NEW rs2, AsksGo(rs, rs2),
         NEW p2, NEW d2, Follows(p, d, p2, d2, s)
  PROVE  WorkOK(js2, p2, d2, rs2, s)
<1> SUFFICES ASSUME d2[s].pc \in Busy
             PROVE  /\ d2[s].grant # NoGrant => Given(rs2, d2[s].grant, js2[At(p2, d2, s)].batch)
                    /\ d2[s].pc # "planning" => d2[s].grant # NoGrant /\ d2[s].grant.rev = d2[s].rev
  BY DEF WorkOK
<1>1. /\ d2[s].pc = d[s].pc /\ d2[s].grant = d[s].grant /\ d2[s].rev = d[s].rev
      /\ At(p2, d2, s) = At(p, d, s)
  BY DEF Follows
<1>2. At(p, d, s) \in 1..Len(js)
  BY <1>1 DEF Busy
<1>3. js2[At(p2, d2, s)].batch = js[At(p, d, s)].batch
  BY <1>1, <1>2 DEF JobsGo
<1>4. /\ d[s].grant # NoGrant => Given(rs, d[s].grant, js[At(p, d, s)].batch)
      /\ d[s].pc # "planning" => d[s].grant # NoGrant /\ d[s].grant.rev = d[s].rev
  BY <1>1 DEF WorkOK
<1>5. ASSUME d2[s].grant # NoGrant PROVE Given(rs2, d2[s].grant, js2[At(p2, d2, s)].batch)
  BY <1>1, <1>3, <1>4, <1>5, GivenStays
<1> QED BY <1>1, <1>4, <1>5

\* A step that gives no job and no batch anything, and no drain that is in order.
LEMMA GrantsStay ==
  ASSUME JobsInv, GrantsInv, JobsGo(jobs, jobs'), UNCHANGED requests,
         Fewer(jobGrants, jobGrants', JobIds), Fewer(batchGrants, batchGrants', Requests),
         \A s \in Sources : \/ Follows(pending, drain, pending', drain', s)
                            \/ WorkOK(jobs', pending', drain', requests', s)
  PROVE  GrantsInv'
<1>1. AsksGo(requests, requests')
  BY DEF AsksGo
<1>2. JobGrantsOK(jobs', requests', jobGrants')
  BY <1>1, JobGrantsStay DEF GrantsInv
<1>3. BatchGrantsOK(requests', batchGrants')
  BY <1>1, BatchGrantsStay DEF GrantsInv
<1>4. ASSUME NEW s \in Sources, Follows(pending, drain, pending', drain', s)
      PROVE  WorkOK(jobs', pending', drain', requests', s)
  <2>1. WorkOK(jobs, pending, drain, requests, s) /\ Follows(pending, drain, pending', drain', s)
    BY <1>4 DEF GrantsInv
  <2>2. drain[s].pc # "idle" => At(pending, drain, s) \in 1..Len(jobs)
    BY CurrentIs
  <2> QED BY <1>1, <2>1, <2>2, WorkStays
<1>5. MadeOK(jobs', requests')
  BY DEF GrantsInv, MadeOK, JobsGo
<1> QED BY <1>2, <1>3, <1>4, <1>5 DEF GrantsInv

\* Drains that scheduleProcessing starts are not at work yet.
LEMMA ScheduleFollows ==
  ASSUME NEW js, NEW o, NEW p, NEW d, NEW a, NEW later, Schedule(o, p, d, a, js, later)
  PROVE  \A s \in Sources : Follows(p, d, pending', drain', s)
<1> SUFFICES ASSUME NEW s \in Sources, drain'[s].pc \in Busy
             PROVE  drain'[s] = d[s] /\ At(pending', drain', s) = At(p, d, s)
  BY DEF Follows
<1> PICK chosen : chosen = Chosen(o, d)
  OBVIOUS
<1>1. /\ pending' = p
      /\ drain' = [u \in Sources |-> IF Contains(chosen, u)
                                     THEN [Asleep EXCEPT !.pc = Begins(js, Head(p[u]))] ELSE d[u]]
  BY DEF Schedule
<1>2. ~Contains(chosen, s)
  <2> SUFFICES ASSUME Contains(chosen, s) PROVE FALSE
    OBVIOUS
  <2>1. drain'[s] = [Asleep EXCEPT !.pc = Begins(js, Head(p[s]))]
    BY <1>1
  <2>2. drain'[s].pc = Begins(js, Head(p[s]))
    BY <2>1 DEF Asleep
  <2> QED BY <2>2 DEF Begins, Busy
<1>3. drain'[s] = d[s]
  BY <1>1, <1>2
<1> QED BY <1>1, <1>3 DEF At, HeldOf

\* A new job is behind the one a drain is at.
LEMMA PushedBehind ==
  ASSUME JobsInv, NEW s \in Sources, NEW j \in Nat, NEW t \in Sources, drain[t].pc # "idle"
  PROVE  At(Pushed(s, j), drain, t) = At(pending, drain, t)
<1>1. pending \in [Sources -> Seq(Nat)] /\ pending[t] \in Seq(Nat)
  BY TypesAre
<1>2. Pushed(s, j)[t] = IF t = s THEN Append(pending[t], j) ELSE pending[t]
  BY <1>1 DEF Pushed
<1>3. HeldOf(pending, drain, t) # <<>>
  BY DEF JobsInv, QueueInv, QueueOK, ArraysOK
<1>4. CASE drain[t].shared
  <2>1. pending[t] # <<>>
    BY <1>3, <1>4 DEF HeldOf
  <2>2. Head(Append(pending[t], j)) = Head(pending[t])
    BY <1>1, <2>1
  <2> QED BY <1>2, <1>4, <2>2 DEF At, HeldOf
<1>5. CASE ~drain[t].shared
  BY <1>5 DEF At, HeldOf
<1> QED BY <1>4, <1>5

\* The record of a new job lands.
LEMMA NewFollows ==
  ASSUME JobsInv, appends # <<>>, ByNew(Head(appends)), NEW later,
         Schedule(Keys(Head(appends).source), Pushed(Head(appends).source, Len(jobs) + 1), drain,
                  Tail(appends), With(Head(appends)), later),
         jobs' = With(Head(appends))
  PROVE  /\ JobsGo(jobs, jobs') /\ Len(jobs) + 1 \in 1..Len(jobs')
         /\ jobs'[Len(jobs) + 1].batch = Head(appends).batch
         /\ \A s \in Sources : Follows(pending, drain, pending', drain', s)
<1> PICK a : a = Head(appends)
  OBVIOUS
<1>1. a.source \in Sources /\ Len(jobs) \in Nat /\ Len(jobs) + 1 \in Nat
  BY HeadIs, TypesAre
<1>2. /\ Len(jobs') = Len(jobs) + 1 /\ jobs'[Len(jobs) + 1].batch = a.batch
      /\ \A i \in 1..Len(jobs) : jobs'[i] = jobs[i]
  BY NewJoins
<1>3. JobsGo(jobs, jobs') /\ Len(jobs) + 1 \in 1..Len(jobs')
  BY <1>1, <1>2 DEF JobsGo
<1>4. ASSUME NEW s \in Sources PROVE Follows(pending, drain, pending', drain', s)
  <2>1. Follows(Pushed(a.source, Len(jobs) + 1), drain, pending', drain', s)
    BY ScheduleFollows
  <2>2. drain[s].pc # "idle" =>
          At(Pushed(a.source, Len(jobs) + 1), drain, s) = At(pending, drain, s)
    BY <1>1, PushedBehind
  <2> QED BY <2>1, <2>2 DEF Follows, Busy
<1> QED BY <1>2, <1>3, <1>4

LEMMA EnqueuedGrants ==
  ASSUME JobsInv, GrantsInv, Enqueued
  PROVE  GrantsInv'
<1> PICK a : a = Head(appends)
  OBVIOUS
<1> PICK r : r = a.req
  OBVIOUS
<1> PICK todo : todo = Tail(requests[r].todo)
  BY ZenonT(90)
<1> DEFINE new == Len(jobs) + 1
           made == requests[r].made \union {new}
<1>1. /\ appends # <<>> /\ a.by = "enqueue" /\ ByNew(a) /\ jobs' = With(a)
      /\ requests' = [requests EXCEPT ![r].todo = todo, ![r].made = made,
                                      ![r].pc = IF todo = <<>> THEN "done" ELSE @]
      /\ jobGrants' = IF todo = <<>> /\ requests[r].grant # NoGrant
                      THEN [i \in JobIds |-> IF i \in made THEN requests[r].grant ELSE jobGrants[i]]
                      ELSE jobGrants
      /\ batchGrants' = batchGrants
  BY ZenonT(90) DEF Enqueued, Lands, ByNew
<1>2. \E later : Schedule(Keys(a.source), Pushed(a.source, Len(jobs) + 1), drain, Tail(appends),
                          With(a), later)
  BY ZenonT(90) DEF Enqueued
<1> HIDE DEF made, new
<1>3. /\ JobsGo(jobs, jobs') /\ new \in 1..Len(jobs') /\ jobs'[new].batch = a.batch
      /\ \A s \in Sources : Follows(pending, drain, pending', drain', s)
  BY ZenonT(90), <1>1, <1>2, NewFollows DEF new
<1>4. /\ requests \in [Requests -> Asks] /\ r \in Requests /\ a.batch = requests[r].batch
      /\ jobGrants \in [JobIds -> Grant \union {NoGrant}]
  <2>1. Called(turns, requests, a)
    BY ZenonT(90), <1>1, HeadIs
  <2>2. turns \in Seq(Requests) /\ turns # <<>>
    BY <2>1, TypesAre DEF Called
  <2> QED BY SMTT(90), <2>1, <2>2, TypesAre, TailOf DEF Called, JobsInv, GrantTypes
<1>5. /\ requests'[r].grant = requests[r].grant /\ requests'[r].batch = requests[r].batch
      /\ requests'[r].made = made
      /\ \A q \in Requests : q # r => requests'[q] = requests[q]
  <2> PICK ask : ask = requests[r]
    OBVIOUS
  <2>1. ask \in Asks
    BY SMTT(90), <1>4
  <2>2. requests'[r] = [ask EXCEPT !.todo = todo, !.made = made,
                                   !.pc = IF todo = <<>> THEN "done" ELSE @]
    BY ZenonT(90), <1>1, <1>4
  <2>3. requests'[r].grant = ask.grant /\ requests'[r].batch = ask.batch /\ requests'[r].made = made
    BY ZenonT(90), <2>1, <2>2 DEF Asks
  <2>4. \A q \in Requests : q # r => requests'[q] = requests[q]
    BY ZenonT(90), <1>1, <1>4
  <2> QED BY <2>3, <2>4
<1>6. AsksGo(requests, requests')
  BY <1>5 DEF AsksGo
<1>7. MadeOK(jobs', requests')
  <2> SUFFICES ASSUME NEW q \in Requests, NEW j \in requests'[q].made
               PROVE  j \in 1..Len(jobs') /\ jobs'[j].batch = requests'[q].batch
    BY DEF MadeOK
  <2>1. CASE q = r /\ j = new
    BY <1>3, <1>4, <1>5, <2>1
  <2>2. CASE q # r \/ j # new
    <3>1. j \in requests[q].made /\ requests'[q].batch = requests[q].batch
      BY <1>5, <2>2 DEF made
    <3>2. j \in 1..Len(jobs) /\ jobs[j].batch = requests[q].batch
      BY <3>1 DEF GrantsInv, MadeOK
    <3> QED BY <1>3, <3>1, <3>2 DEF JobsGo
  <2> QED BY <2>1, <2>2
<1>8. JobGrantsOK(jobs', requests', jobGrants')
  <2>1. JobGrantsOK(jobs', requests', jobGrants)
    BY <1>3, <1>6, JobGrantsStay DEF GrantsInv, Fewer
  <2>2. ASSUME NEW j \in JobIds, jobGrants'[j] # NoGrant
        PROVE  j \in 1..Len(jobs') /\ Given(requests', jobGrants'[j], jobs'[j].batch)
    <3>1. jobGrants'[j] = jobGrants[j] \/ (j \in made /\ jobGrants'[j] = requests[r].grant)
      BY ZenonT(90), <1>1
    <3>2. CASE jobGrants'[j] = jobGrants[j]
      BY <2>1, <2>2, <3>2 DEF JobGrantsOK
    <3>3. CASE j \in made /\ jobGrants'[j] = requests[r].grant
      <4>1. j \in 1..Len(jobs') /\ jobs'[j].batch = requests'[r].batch
        BY SMTT(90), <1>4, <1>5, <1>7, <3>3 DEF MadeOK
      <4> QED BY <1>4, <1>5, <3>3, <4>1 DEF Given
    <3> QED BY SMTT(90), <3>1, <3>2, <3>3
  <2> QED BY <2>2 DEF JobGrantsOK
<1>9. BatchGrantsOK(requests', batchGrants')
  BY ZenonT(90), <1>1, <1>6, BatchGrantsStay DEF GrantsInv, Fewer
<1>10. ASSUME NEW s \in Sources PROVE WorkOK(jobs', pending', drain', requests', s)
  <2>1. WorkOK(jobs, pending, drain, requests, s) /\ Follows(pending, drain, pending', drain', s)
    BY <1>3 DEF GrantsInv
  <2>2. drain[s].pc # "idle" => At(pending, drain, s) \in 1..Len(jobs)
    BY CurrentIs
  <2> QED BY <1>3, <1>6, <2>1, <2>2, WorkStays
<1> QED BY <1>7, <1>8, <1>9, <1>10 DEF GrantsInv

LEMMA RetriedGrants ==
  ASSUME JobsInv, GrantsInv, Retried
  PROVE  GrantsInv'
<1> PICK a : a = Head(appends)
  OBVIOUS
<1>1. /\ appends # <<>> /\ ByNew(a) /\ jobs' = With(a)
      /\ Schedule(Keys(a.source), Pushed(a.source, Len(jobs) + 1), drain, Tail(appends), With(a), <<>>)
      /\ UNCHANGED <<requests, jobGrants, batchGrants>>
  BY DEF Retried, Lands, ByNew
<1>2. JobsGo(jobs, jobs') /\ \A s \in Sources : Follows(pending, drain, pending', drain', s)
  BY <1>1, NewFollows
<1> QED BY <1>1, <1>2, GrantsStay DEF Fewer

\* A request gives its confirmation to its batch.
LEMMA QueueBatchGrants ==
  ASSUME JobsInv, GrantsInv, IdleOK(requests), NEW r \in Requests, NEW sources,
         NEW trust, NEW force, NEW b \in Requests, QueueBatch(r, sources, trust, force, b)
  PROVE  GrantsInv'
<1> PICK g : g = GrantFor(trust, force)
  OBVIOUS
<1> PICK ask : ask = [pc |-> "queueing", batch |-> b, grant |-> g, todo |-> sources, made |-> {}]
  OBVIOUS
<1>1. /\ requests[r].pc = "idle" /\ requests' = [requests EXCEPT ![r] = ask]
      /\ batchGrants' = BatchGrant(b, g)
      /\ UNCHANGED <<jobs, pending, drain, jobGrants>>
  BY DEF QueueBatch
<1>2. requests \in [Requests -> Asks] /\ batchGrants \in [Requests -> Grant \union {NoGrant}]
  BY TypesAre DEF JobsInv, GrantTypes
<1>3. requests'[r] = ask /\ \A q \in Requests : q # r => requests'[q] = requests[q]
  BY <1>1, <1>2
<1>4. AsksGo(requests, requests')
  BY <1>1, <1>3 DEF AsksGo, IdleOK
<1>5. JobsGo(jobs, jobs')
  BY <1>1 DEF JobsGo
<1>6. JobGrantsOK(jobs', requests', jobGrants')
  BY <1>1, <1>4, <1>5, JobGrantsStay DEF GrantsInv, Fewer
<1>7. BatchGrantsOK(requests', batchGrants')
  <2>1. BatchGrantsOK(requests', batchGrants)
    BY <1>4, BatchGrantsStay DEF GrantsInv, Fewer
  <2>2. Given(requests', g, b)
    BY <1>3 DEF Given
  <2>3. \A c \in Requests : batchGrants'[c] = batchGrants[c] \/ (c = b /\ batchGrants'[c] = g)
    BY <1>1, <1>2 DEF BatchGrant
  <2> QED BY <2>1, <2>2, <2>3 DEF BatchGrantsOK
<1>8. ASSUME NEW s \in Sources PROVE WorkOK(jobs', pending', drain', requests', s)
  <2>1. WorkOK(jobs, pending, drain, requests, s) /\ Follows(pending, drain, pending', drain', s)
    BY <1>1 DEF GrantsInv, Follows
  <2>2. drain[s].pc # "idle" => At(pending, drain, s) \in 1..Len(jobs)
    BY CurrentIs
  <2> QED BY <1>4, <1>5, <2>1, <2>2, WorkStays
<1>9. MadeOK(jobs', requests')
  BY <1>1, <1>3 DEF GrantsInv, MadeOK
<1> QED BY <1>6, <1>7, <1>8, <1>9 DEF GrantsInv

LEMMA StartGrants ==
  ASSUME JobsInv, GrantsInv, IdleOK(requests), NEW r \in Requests,
         Start(r) \/ \E j \in JobIds : Confirm(r, j)
  PROVE  GrantsInv'
<1>1. CASE Start(r)
  BY <1>1, QueueBatchGrants DEF Start
<1>2. ASSUME NEW j \in JobIds, Confirm(r, j) PROVE GrantsInv'
  <2>1. j \in 1..Len(jobs)
    BY <1>2, TypesAre DEF Confirm
  <2>2. jobs[j].batch \in Requests
    BY <2>1, TypesAre
  <2>3. PICK force \in SUBSET {jobs[j].source} :
          QueueBatch(r, <<jobs[j].source>>, TRUE, force, jobs[j].batch)
    BY <1>2 DEF Confirm
  <2> QED BY <2>2, <2>3, QueueBatchGrants
<1> QED BY <1>1, <1>2

LEMMA CancelGrants ==
  ASSUME JobsInv, GrantsInv, NEW j \in JobIds, Cancel(j)
  PROVE  GrantsInv'
<1> PICK s : s = jobs[j].source
  OBVIOUS
<1>1. /\ s \in Sources /\ drain \in [Sources -> Drains] /\ pending \in [Sources -> Seq(Nat)]
      /\ jobGrants \in [JobIds -> Grant \union {NoGrant}]
  <2>1. j \in 1..Len(jobs)
    BY TypesAre DEF Cancel
  <2> QED BY <2>1, TypesAre DEF JobsInv, GrantTypes
<1>2. UNCHANGED <<jobs, requests, batchGrants>>
  BY DEF Cancel
<1>3. drain[s] \in Drains
  BY <1>1
<1>4. ASSUME jobs[j].state = "queued"
      PROVE  /\ UNCHANGED jobGrants
             /\ \A t \in Sources : Follows(pending, drain, pending', drain', t)
  <2>1. DropPending(s, j) /\ UNCHANGED jobGrants
    BY <1>4 DEF Cancel
  <2>2. CASE pending[s] = <<>>
    BY <2>1, <2>2 DEF DropPending, Follows, At, HeldOf
  <2>3. CASE pending[s] # <<>>
    <3> PICK rest : rest = Without(pending[s], j)
      OBVIOUS
    <3>1. /\ pending' = [pending EXCEPT ![s] = rest]
          /\ drain' = IF s \in Active
                      THEN [drain EXCEPT ![s].own = Held(s), ![s].shared = FALSE] ELSE drain
      BY <2>1, <2>3 DEF DropPending
    <3>2. CASE s \in Active
      <4> PICK x, held : x = drain[s] /\ held = Held(s)
        OBVIOUS
      <4>1. drain' = [drain EXCEPT ![s] = [x EXCEPT !.own = held, !.shared = FALSE]]
        BY <1>1, <3>1, <3>2
      <4> PICK y : y = [x EXCEPT !.own = held, !.shared = FALSE]
        OBVIOUS
      <4>2. /\ y.pc = x.pc /\ y.grant = x.grant /\ y.rev = x.rev /\ y.own = held /\ ~y.shared
        BY <1>3 DEF Drains
      <4>3. drain'[s] = y /\ \A t \in Sources : t # s => drain'[t] = drain[t] /\ pending'[t] = pending[t]
        BY <1>1, <3>1, <4>1
      <4>4. HeldOf(pending', drain', s) = HeldOf(pending, drain, s)
        BY <4>2, <4>3 DEF HeldOf, Held
      <4> QED BY <2>1, <4>2, <4>3, <4>4 DEF Follows, At, HeldOf
    <3>3. CASE s \notin Active
      <4>1. drain' = drain /\ drain[s].pc = "idle"
        BY <1>1, <3>1, <3>3 DEF Active
      <4>2. \A t \in Sources : t # s => pending'[t] = pending[t]
        BY <1>1, <3>1
      <4> QED BY <2>1, <4>1, <4>2 DEF Follows, At, HeldOf, Busy
    <3> QED BY <3>2, <3>3
  <2> QED BY <2>2, <2>3
<1>5. ASSUME jobs[j].state # "queued"
      PROVE  /\ Fewer(jobGrants, jobGrants', JobIds)
             /\ \A t \in Sources : Follows(pending, drain, pending', drain', t)
  <2>1. /\ drain' = IF s \in Active THEN [drain EXCEPT ![s].aborted = TRUE] ELSE drain
        /\ jobGrants' = [jobGrants EXCEPT ![j] = NoGrant]
        /\ UNCHANGED pending
    BY <1>5 DEF Cancel
  <2>2. Fewer(jobGrants, jobGrants', JobIds)
    BY <1>1, <2>1 DEF Fewer
  <2> PICK x, y : x = drain[s] /\ y = [x EXCEPT !.aborted = TRUE]
    OBVIOUS
  <2>3. y.pc = x.pc /\ y.grant = x.grant /\ y.rev = x.rev /\ y.own = x.own /\ y.shared = x.shared
    BY <1>3 DEF Drains
  <2>4. CASE s \in Active
    <3>1. drain' = [drain EXCEPT ![s] = y]
      BY <1>1, <2>1, <2>4
    <3>2. drain'[s] = y /\ \A t \in Sources : t # s => drain'[t] = drain[t]
      BY <1>1, <3>1
    <3> QED BY <2>1, <2>2, <2>3, <3>2 DEF Follows, At, HeldOf
  <2>5. CASE s \notin Active
    BY <2>1, <2>2, <2>5 DEF Follows, At, HeldOf
  <2> QED BY <2>4, <2>5
<1>6. /\ Fewer(jobGrants, jobGrants', JobIds)
      /\ \A t \in Sources : Follows(pending, drain, pending', drain', t)
  BY <1>4, <1>5 DEF Fewer
<1>7. JobsGo(jobs, jobs')
  BY <1>2 DEF JobsGo
<1> QED BY <1>2, <1>6, <1>7, GrantsStay DEF Fewer

\* The record of a known job lands, and an ended job's confirmation is forgotten.
LEMMA RecordGoes ==
  ASSUME JobsInv, appends # <<>>, ~ByNew(Head(appends)), jobs' = With(Head(appends))
  PROVE  JobsGo(jobs, jobs')
<1>1. /\ Head(appends) \in Notes /\ RecordOK(jobs, pending, drain, Head(appends))
  BY HeadIs
<1>2. Relabelled(jobs, jobs', Head(appends))
  BY <1>1, WithKnown, TypesAre
<1> QED BY <1>2 DEF Relabelled, JobsGo

LEMMA ForgetGoes ==
  ASSUME JobsInv, NEW js, NEW j, Forget(js, j)
  PROVE  Fewer(jobGrants, jobGrants', JobIds) /\ Fewer(batchGrants, batchGrants', Requests)
<1>1. /\ jobGrants \in [JobIds -> Grant \union {NoGrant}]
      /\ batchGrants \in [Requests -> Grant \union {NoGrant}]
  BY DEF JobsInv, GrantTypes
<1> QED BY <1>1 DEF Forget, Fewer

LEMMA CancelledGrants ==
  ASSUME JobsInv, GrantsInv, Cancelled
  PROVE  GrantsInv'
<1> PICK a : a = Head(appends)
  OBVIOUS
<1>1. /\ appends # <<>> /\ ~ByNew(a) /\ jobs' = With(a) /\ Forget(With(a), a.job)
      /\ UNCHANGED <<pending, drain, requests>>
  BY DEF Cancelled, Lands, ByNew
<1>2. JobsGo(jobs, jobs')
  BY <1>1, RecordGoes
<1>3. Fewer(jobGrants, jobGrants', JobIds) /\ Fewer(batchGrants, batchGrants', Requests)
  BY <1>1, ForgetGoes
<1>4. \A s \in Sources : Follows(pending, drain, pending', drain', s)
  BY <1>1 DEF Follows
<1> QED BY <1>1, <1>2, <1>3, <1>4, GrantsStay

\* A drain comes to another of its steps, at the job it has.
LEMMA OneMoves ==
  ASSUME JobsInv, NEW s \in Sources, NEW new, drain' = [drain EXCEPT ![s] = new], UNCHANGED pending,
         new.own = drain[s].own, new.shared = drain[s].shared
  PROVE  /\ drain'[s] = new /\ At(pending', drain', s) = At(pending, drain, s)
         /\ \A t \in Sources : t # s => Follows(pending, drain, pending', drain', t)
<1>1. drain \in [Sources -> Drains]
  BY TypesAre
<1>2. drain'[s] = new /\ \A t \in Sources : t # s => drain'[t] = drain[t]
  BY <1>1
<1> QED BY <1>2 DEF At, HeldOf, Follows

\* A step of a run gives its drain a confirmation that somebody gave for its batch.
LEMMA MovesGrants ==
  ASSUME JobsInv, GrantsInv, NEW s \in Sources, NEW new, drain' = [drain EXCEPT ![s] = new],
         new.own = drain[s].own, new.shared = drain[s].shared,
         JobsGo(jobs, jobs'), UNCHANGED <<pending, requests>>,
         Fewer(jobGrants, jobGrants', JobIds), Fewer(batchGrants, batchGrants', Requests),
         At(pending, drain, s) \in 1..Len(jobs),
         new.pc \in Busy =>
           /\ new.grant # NoGrant => Given(requests, new.grant, jobs[At(pending, drain, s)].batch)
           /\ new.pc # "planning" => new.grant # NoGrant /\ new.grant.rev = new.rev
  PROVE  GrantsInv'
<1>1. /\ drain'[s] = new /\ At(pending', drain', s) = At(pending, drain, s)
      /\ \A t \in Sources : t # s => Follows(pending, drain, pending', drain', t)
  BY OneMoves
<1>2. jobs'[At(pending, drain, s)].batch = jobs[At(pending, drain, s)].batch
  BY DEF JobsGo
<1>3. WorkOK(jobs', pending', drain', requests', s)
  BY <1>1, <1>2 DEF WorkOK
<1>4. \A t \in Sources : \/ Follows(pending, drain, pending', drain', t)
                         \/ WorkOK(jobs', pending', drain', requests', t)
  BY <1>1, <1>3
<1> QED BY <1>4, GrantsStay

LEMMA StartedGrants ==
  ASSUME JobsInv, GrantsInv, Started
  PROVE  GrantsInv'
<1> PICK a : a = Head(appends)
  OBVIOUS
<1> PICK s, d : s = a.source /\ d = drain[s]
  OBVIOUS
<1> PICK g : g = IF jobGrants[a.job] # NoGrant THEN jobGrants[a.job] ELSE batchGrants[a.batch]
  OBVIOUS
<1>1. /\ appends # <<>> /\ a.by = "run" /\ jobs' = With(a)
      /\ drain' = [drain EXCEPT ![s].pc = "planning", ![s].grant = g]
      /\ UNCHANGED <<pending, requests, jobGrants, batchGrants>>
  BY DEF Started, Lands
<1>2. /\ s \in Sources /\ a.batch \in Requests /\ d \in Drains
      /\ drain \in [Sources -> Drains] /\ RecordOK(jobs, pending, drain, a) /\ ~ByNew(a)
  BY <1>1, HeadIs, TypesAre DEF ByNew
<1>3. /\ a.job \in 1..Len(jobs) /\ a.job = At(pending, drain, s) /\ a.batch = jobs[a.job].batch
      /\ a.job \in JobIds
  <2>1. /\ a.job \in 1..Len(jobs) /\ a.job = At(pending, drain, s) /\ a.batch = jobs[a.job].batch
    BY <1>1, <1>2 DEF RecordOK, ByDrain
  <2> QED BY <2>1, TypesAre
<1>4. g # NoGrant => Given(requests, g, a.batch)
  BY <1>2, <1>3 DEF GrantsInv, JobGrantsOK, BatchGrantsOK
<1> PICK new : new = [d EXCEPT !.pc = "planning", !.grant = g]
  OBVIOUS
<1>5. new.pc = "planning" /\ new.grant = g /\ new.own = d.own /\ new.shared = d.shared
  BY <1>2 DEF Drains
<1>6. drain' = [drain EXCEPT ![s] = new]
  BY <1>1, <1>2
<1>7. JobsGo(jobs, jobs')
  BY <1>1, <1>2, RecordGoes
<1>8. Fewer(jobGrants, jobGrants', JobIds) /\ Fewer(batchGrants, batchGrants', Requests)
  BY <1>1 DEF Fewer
<1>9. /\ new.grant # NoGrant => Given(requests, new.grant, jobs[At(pending, drain, s)].batch)
      /\ new.pc # "planning" => new.grant # NoGrant /\ new.grant.rev = new.rev
  BY <1>3, <1>4, <1>5
<1>10. new.own = drain[s].own /\ new.shared = drain[s].shared /\ UNCHANGED <<pending, requests>>
  BY <1>1, <1>5
<1> QED BY <1>2, <1>3, <1>6, <1>7, <1>8, <1>9, <1>10, MovesGrants

LEMMA ReportedGrants ==
  ASSUME JobsInv, GrantsInv, Reported
  PROVE  GrantsInv'
<1> PICK a : a = Head(appends)
  OBVIOUS
<1> PICK s, d : s = a.source /\ d = drain[s]
  OBVIOUS
<1>1. /\ appends # <<>> /\ a.by = "report" /\ jobs' = With(a)
      /\ drain' = [drain EXCEPT ![s].pc = "mutating"]
      /\ UNCHANGED <<pending, requests, jobGrants, batchGrants>>
  BY DEF Reported, Lands
<1>2. /\ s \in Sources /\ d \in Drains /\ drain \in [Sources -> Drains]
      /\ RecordOK(jobs, pending, drain, a) /\ ~ByNew(a)
  BY <1>1, HeadIs, TypesAre DEF ByNew
<1>3. d.pc = "reporting" /\ At(pending, drain, s) \in 1..Len(jobs)
  BY <1>1, <1>2 DEF RecordOK, ByDrain, Awaits
<1>4. /\ Given(requests, d.grant, jobs[At(pending, drain, s)].batch)
      /\ d.grant # NoGrant /\ d.grant.rev = d.rev
  BY <1>2, <1>3 DEF GrantsInv, WorkOK, Busy
<1> PICK new : new = [d EXCEPT !.pc = "mutating"]
  OBVIOUS
<1>5. /\ new.pc = "mutating" /\ new.grant = d.grant /\ new.rev = d.rev
      /\ new.own = d.own /\ new.shared = d.shared
  BY <1>2 DEF Drains
<1>6. drain' = [drain EXCEPT ![s] = new]
  BY <1>1, <1>2
<1>7. JobsGo(jobs, jobs')
  BY <1>1, <1>2, RecordGoes
<1>8. Fewer(jobGrants, jobGrants', JobIds) /\ Fewer(batchGrants, batchGrants', Requests)
  BY <1>1 DEF Fewer
<1>9. /\ new.grant # NoGrant => Given(requests, new.grant, jobs[At(pending, drain, s)].batch)
      /\ new.pc # "planning" => new.grant # NoGrant /\ new.grant.rev = new.rev
  BY <1>3, <1>4, <1>5
<1>10. new.own = drain[s].own /\ new.shared = drain[s].shared /\ UNCHANGED <<pending, requests>>
  BY <1>1, <1>5
<1> QED BY <1>2, <1>3, <1>6, <1>7, <1>8, <1>9, <1>10, MovesGrants

\* The last step of a run holds no confirmation.
LEMMA EndsGrants ==
  ASSUME JobsInv, GrantsInv, NEW s \in Sources, drain[s].pc # "idle",
         NEW state, NEW error, Ends(s, state, error), UNCHANGED <<jobs, pending, requests>>,
         Fewer(jobGrants, jobGrants', JobIds), Fewer(batchGrants, batchGrants', Requests)
  PROVE  GrantsInv'
<1> PICK d : d = drain[s]
  OBVIOUS
<1>1. d \in Drains /\ drain \in [Sources -> Drains] /\ At(pending, drain, s) \in 1..Len(jobs)
  BY CurrentIs, TypesAre
<1> PICK new : new = [d EXCEPT !.pc = "finishing"]
  OBVIOUS
<1>2. new.pc = "finishing" /\ new.own = d.own /\ new.shared = d.shared
  BY <1>1 DEF Drains
<1>3. drain' = [drain EXCEPT ![s] = new]
  BY <1>1 DEF Ends
<1>4. JobsGo(jobs, jobs') /\ new.pc \notin Busy
  BY <1>2 DEF JobsGo, Busy
<1> QED BY <1>1, <1>2, <1>3, <1>4, MovesGrants

LEMMA PlanGrants ==
  ASSUME JobsInv, GrantsInv, NEW s \in Sources, Plan(s)
  PROVE  GrantsInv'
<1> PICK d : d = drain[s]
  OBVIOUS
<1>1. d.pc = "planning" /\ UNCHANGED <<jobs, pending, requests, jobGrants, batchGrants, revision>>
  BY DEF Plan
<1>2. d \in Drains /\ drain \in [Sources -> Drains] /\ At(pending, drain, s) \in 1..Len(jobs)
  BY <1>1, CurrentIs, TypesAre
<1>3. /\ JobsGo(jobs, jobs') /\ UNCHANGED <<jobs, pending, requests>>
      /\ Fewer(jobGrants, jobGrants', JobIds) /\ Fewer(batchGrants, batchGrants', Requests)
  BY <1>1 DEF JobsGo, Fewer
<1>4. CASE \E state, error : Ends(s, state, error)
  BY <1>1, <1>3, <1>4, EndsGrants
<1>5. CASE \E pc \in {"mutating", "reporting"} :
             /\ drain' = [drain EXCEPT ![s].pc = pc, ![s].rev = revision]
             /\ ~Revised(d.grant) /\ d.grant # NoGrant
  <2>1. PICK pc \in {"mutating", "reporting"} :
             /\ drain' = [drain EXCEPT ![s].pc = pc, ![s].rev = revision]
             /\ ~Revised(d.grant) /\ d.grant # NoGrant
    BY <1>5
  <2>2. PICK new : new = [d EXCEPT !.pc = pc, !.rev = revision]
    OBVIOUS
  <2>3. /\ new.grant = d.grant /\ new.rev = revision /\ new.own = d.own /\ new.shared = d.shared
    BY <1>2, <2>2 DEF Drains
  <2>4. drain' = [drain EXCEPT ![s] = new]
    BY <1>2, <2>1, <2>2
  <2>5. d.grant.rev = revision
    BY <2>1 DEF Revised
  <2>6. Given(requests, d.grant, jobs[At(pending, drain, s)].batch)
    BY <1>1, <2>1 DEF GrantsInv, WorkOK, Busy
  <2>7. /\ new.grant # NoGrant => Given(requests, new.grant, jobs[At(pending, drain, s)].batch)
        /\ new.pc # "planning" => new.grant # NoGrant /\ new.grant.rev = new.rev
    BY <2>1, <2>3, <2>5, <2>6
  <2>8. new.own = drain[s].own /\ new.shared = drain[s].shared /\ UNCHANGED <<pending, requests>>
    BY <1>1, <2>3
  <2>9. At(pending, drain, s) \in 1..Len(jobs) /\ JobsGo(jobs, jobs')
        /\ Fewer(jobGrants, jobGrants', JobIds) /\ Fewer(batchGrants, batchGrants', Requests)
    BY <1>2, <1>3
  <2> QED BY <2>4, <2>7, <2>8, <2>9, MovesGrants
<1> QED BY <1>1, <1>4, <1>5 DEF Plan, Throws

LEMMA MutateGrants ==
  ASSUME JobsInv, GrantsInv, NEW s \in Sources, Mutate(s)
  PROVE  GrantsInv'
<1>1. drain[s].pc = "mutating" /\ UNCHANGED <<jobs, pending, requests, batchGrants>>
  BY DEF Mutate
<1>2. jobGrants \in [JobIds -> Grant \union {NoGrant}]
  BY DEF JobsInv, GrantTypes
<1>3. Fewer(jobGrants, jobGrants', JobIds) /\ Fewer(batchGrants, batchGrants', Requests)
  BY <1>1, <1>2 DEF Mutate, Fewer
<1>4. \E state, error : Ends(s, state, error)
  BY DEF Mutate, Throws
<1> QED BY <1>1, <1>3, <1>4, EndsGrants

\* A drain that goes on with its array is not at work yet, and the others stay.
LEMMA AdvanceFollows ==
  ASSUME JobsInv, NEW s \in Sources, NEW js, NEW a, Advance(s, js, a)
  PROVE  \A t \in Sources : Follows(pending, drain, pending', drain', t)
<1> PICK rest : rest = Tail(Held(s))
  OBVIOUS
<1> PICK p2 : p2 = IF drain[s].shared THEN [pending EXCEPT ![s] = rest] ELSE pending
  OBVIOUS
<1>1. drain \in [Sources -> Drains] /\ pending \in [Sources -> Seq(Nat)]
  BY TypesAre
<1>2. \A t \in Sources : t # s => p2[t] = pending[t]
  BY <1>1
<1>3. CASE rest = <<>>
  <2> PICK d2 : d2 = [drain EXCEPT ![s] = Asleep]
    OBVIOUS
  <2>1. \E o : Schedule(o, p2, d2, a, js, <<>>)
    BY <1>3 DEF Advance, Frees, Kept
  <2>2. \A t \in Sources : Follows(p2, d2, pending', drain', t)
    BY <2>1, ScheduleFollows
  <2>3. d2[s].pc = "idle" /\ \A t \in Sources : t # s => d2[t] = drain[t]
    BY <1>1 DEF Asleep
  <2> QED BY <1>2, <2>2, <2>3 DEF Follows, Busy, At, HeldOf
<1>4. CASE rest # <<>>
  <2> PICK own : own = IF drain[s].shared THEN <<>> ELSE rest
    OBVIOUS
  <2>1. /\ pending' = p2
        /\ drain' = [drain EXCEPT ![s].pc = Begins(js, Head(rest)), ![s].grant = NoGrant,
                                  ![s].own = own]
    BY <1>4 DEF Advance
  <2> PICK x, y : x = drain[s] /\ y = [x EXCEPT !.pc = Begins(js, Head(rest)), !.grant = NoGrant,
                                                !.own = own]
    OBVIOUS
  <2>2. y.pc = Begins(js, Head(rest))
    BY <1>1 DEF Drains
  <2>3. drain' = [drain EXCEPT ![s] = y]
    BY <1>1, <2>1
  <2>4. drain'[s] = y /\ \A t \in Sources : t # s => drain'[t] = drain[t]
    BY <1>1, <2>3
  <2>5. y.pc \notin Busy
    BY <2>2 DEF Begins, Busy
  <2>6. Follows(pending, drain, pending', drain', s)
    BY <2>4, <2>5 DEF Follows
  <2>7. ASSUME NEW t \in Sources, t # s PROVE Follows(pending, drain, pending', drain', t)
    <3>1. pending'[t] = pending[t] /\ drain'[t] = drain[t]
      BY <1>2, <2>1, <2>4, <2>7
    <3> QED BY <3>1 DEF Follows, At, HeldOf
  <2> QED BY <2>6, <2>7
<1> QED BY <1>3, <1>4

LEMMA FinishedGrants ==
  ASSUME JobsInv, GrantsInv, Finished
  PROVE  GrantsInv'
<1> PICK a : a = Head(appends)
  OBVIOUS
<1>1. /\ appends # <<>> /\ ~ByNew(a) /\ jobs' = With(a) /\ Forget(With(a), a.job)
      /\ Advance(a.source, With(a), Tail(appends)) /\ UNCHANGED requests
  BY DEF Finished, Lands, ByNew
<1>2. a.source \in Sources
  BY <1>1, HeadIs
<1>3. JobsGo(jobs, jobs')
  BY <1>1, RecordGoes
<1>4. Fewer(jobGrants, jobGrants', JobIds) /\ Fewer(batchGrants, batchGrants', Requests)
  BY <1>1, ForgetGoes
<1>5. \A s \in Sources : Follows(pending, drain, pending', drain', s)
  BY <1>1, <1>2, AdvanceFollows
<1> QED BY <1>1, <1>3, <1>4, <1>5, GrantsStay

LEMMA SkipGrants ==
  ASSUME JobsInv, GrantsInv, NEW s \in Sources, Skip(s)
  PROVE  GrantsInv'
<1>1. Advance(s, jobs, appends) /\ UNCHANGED <<jobs, requests, jobGrants, batchGrants>>
  BY DEF Skip
<1>2. \A t \in Sources : Follows(pending, drain, pending', drain', t)
  BY <1>1, AdvanceFollows
<1>3. /\ JobsGo(jobs, jobs')
      /\ Fewer(jobGrants, jobGrants', JobIds) /\ Fewer(batchGrants, batchGrants', Requests)
  BY <1>1 DEF JobsGo, Fewer
<1> QED BY <1>1, <1>2, <1>3, GrantsStay

\* Nobody holds anything when the process has come back.
LEMMA RestartGrants ==
  ASSUME JobsInv, IdleOK(requests), Restart
  PROVE  GrantsInv'
<1>1. \E o, p, a, js : Schedule(o, p, [s \in Sources |-> Asleep], a, js, <<>>)
  BY ZenonT(90) DEF Restart
<1>2. /\ requests' = [r \in Requests |-> IF requests[r].pc = "idle" THEN requests[r]
                                         ELSE [requests[r] EXCEPT !.pc = "done", !.grant = NoGrant,
                                                                  !.todo = <<>>, !.made = {}]]
      /\ jobGrants' = [j \in JobIds |-> NoGrant] /\ batchGrants' = [b \in Requests |-> NoGrant]
  BY ZenonT(90) DEF Restart
<1>3. JobGrantsOK(jobs', requests', jobGrants') /\ BatchGrantsOK(requests', batchGrants')
  BY <1>2 DEF JobGrantsOK, BatchGrantsOK
<1>4. ASSUME NEW s \in Sources PROVE drain'[s].pc \notin Busy
  <2> PICK d : d = [u \in Sources |-> Asleep]
    OBVIOUS
  <2>1. \E p : Follows(p, d, pending', drain', s)
    BY <1>1, ScheduleFollows
  <2>2. d[s].pc = "idle"
    BY DEF Asleep
  <2> QED BY <2>1, <2>2 DEF Follows, Busy
<1>5. \A s \in Sources : WorkOK(jobs', pending', drain', requests', s)
  BY <1>4 DEF WorkOK
<1>6. ASSUME NEW r \in Requests PROVE requests'[r].made = {}
  <2> PICK ask : ask = requests[r]
    OBVIOUS
  <2>1. ask \in Asks
    BY TypesAre
  <2>2. CASE ask.pc = "idle"
    BY <1>2, <2>2 DEF IdleOK
  <2>3. CASE ask.pc # "idle"
    <3>1. requests'[r] = [ask EXCEPT !.pc = "done", !.grant = NoGrant, !.todo = <<>>, !.made = {}]
      BY <1>2, <2>3
    <3> QED BY <2>1, <3>1 DEF Asks
  <2> QED BY <2>2, <2>3
<1> QED BY <1>3, <1>5, <1>6 DEF GrantsInv, MadeOK

LEMMA GrantsKept ==
  ASSUME JobsInv, IdleOK(requests), GrantsInv, [Next]_vars
  PROVE  GrantsInv'
<1>1. CASE UNCHANGED <<jobs, pending, drain, requests, jobGrants, batchGrants>>
  BY <1>1 DEF GrantsInv, JobGrantsOK, BatchGrantsOK, WorkOK, MadeOK, Given, At, HeldOf
<1>2. CASE \E r \in Requests : Start(r) \/ \E j \in JobIds : Confirm(r, j)
  BY <1>2, StartGrants
<1>3. CASE \E j \in JobIds : Retry(j) \/ Cancel(j)
  BY <1>1, <1>3, CancelGrants DEF Retry
<1>4. CASE AppendLands
  BY <1>4, EnqueuedGrants, RetriedGrants, CancelledGrants, StartedGrants, ReportedGrants,
     FinishedGrants DEF AppendLands
<1>5. CASE \E s \in Sources : Works(s)
  BY <1>5, PlanGrants, MutateGrants, SkipGrants DEF Works
<1>6. CASE Restart
  BY <1>6, RestartGrants
<1>7. CASE Serve \/ EditConfig \/ UNCHANGED vars
  BY <1>1, <1>7 DEF Serve, EditConfig, vars
<1> QED BY <1>2, <1>3, <1>4, <1>5, <1>6, <1>7 DEF Next

LEMMA GrantsStart ==
  ASSUME Init
  PROVE  GrantsInv
<1>1. /\ requests = [r \in Requests |-> [pc |-> "idle", batch |-> r, grant |-> NoGrant,
                                         todo |-> <<>>, made |-> {}]]
      /\ drain = [s \in Sources |-> Asleep]
      /\ jobGrants = [j \in JobIds |-> NoGrant] /\ batchGrants = [b \in Requests |-> NoGrant]
  BY DEF Init
<1>2. \A s \in Sources : drain[s].pc \notin Busy
  BY <1>1 DEF Asleep, Busy
<1> QED BY <1>1, <1>2 DEF GrantsInv, JobGrantsOK, BatchGrantsOK, WorkOK, MadeOK

\* Whatever is confirmed was confirmed for its batch since the process started, and
\* git runs only then (queueBatch, execute, loadValidConfig, maybeDeleteBatchGrant).
THEOREM GrantsHold == Spec => []GrantsInv
<1>1. Init => GrantsInv
  BY GrantsStart
<1>2. JobsInv /\ IdleOK(requests) /\ GrantsInv /\ [Next]_vars => GrantsInv'
  BY GrantsKept
<1> QED BY <1>1, <1>2, JobsHold, PTL DEF Spec

\* Git touches a source only under a confirmation given since the process started, for
\* the batch of the job and the configuration it has loaded (executePlannedAction,
\* loadValidConfig, maybeDeleteBatchGrant).
THEOREM TouchedIsConfirmed == Spec => []TouchedWhenConfirmed
<1>1. ASSUME JobsInv, GrantsInv PROVE TouchedWhenConfirmed
  <2> SUFFICES ASSUME NEW s \in Sources, drain[s].pc \in {"reporting", "mutating"}
               PROVE  /\ drain[s].grant # NoGrant /\ drain[s].grant.rev = drain[s].rev
                      /\ Given(requests, drain[s].grant, jobs[Current(s)].batch)
    BY DEF TouchedWhenConfirmed, Given
  <2>1. WorkOK(jobs, pending, drain, requests, s) /\ drain[s].pc \in Busy
    BY <1>1 DEF GrantsInv, Busy
  <2>2. Current(s) = At(pending, drain, s)
    BY <1>1, CurrentIs
  <2> QED BY <2>1, <2>2 DEF WorkOK
<1> QED BY <1>1, JobsHold, GrantsHold, PTL

-----------------------------------------------------------------------------
(* Order: the jobs of a source wait in the order they were enqueued, and one  *)
(* that a drain has passed is not queued, or its cancellation lands before    *)
(* the drain's next start does.                                               *)

\* The array whose first job a drain is at, or will be.
Line(p, d, s) == IF d[s].pc = "idle" \/ d[s].shared THEN p[s] ELSE d[s].own
Rising(list)  == \A k, l \in 1..Len(list) : k < l => list[k] < list[l]
\* Of a copy the map has, and the old array: what only the copy has came first or last.
Beside(list, line) ==
  \A k \in 1..Len(list) : \/ Contains(line, list[k])
                          \/ \A l \in 1..Len(line) : list[k] < line[l]
                          \/ \A l \in 1..Len(line) : line[l] < list[k]
RunOf(n, s) == n.by = "run" /\ n.source = s
Gone(a, s, i) ==
  \E k \in 1..Len(a) : /\ a[k].by = "cancel" /\ a[k].job = i
                       /\ \A l \in 1..Len(a) : RunOf(a[l], s) => k < l
QueuedOf(js, s, i) == i \in 1..Len(js) /\ js[i].source = s /\ js[i].state = "queued"
PastOK(js, a, s, line) ==
  line # <<>> => \A i \in 1..Len(js) : QueuedOf(js, s, i) /\ i < Head(line) => Gone(a, s, i)
LineOK(js, a, s, list, line) ==
  Rising(list) /\ Rising(line) /\ Beside(list, line) /\ PastOK(js, a, s, line)
OrderInv == \A s \in Sources : LineOK(jobs, appends, s, pending[s], Line(pending, drain, s))

\* Queued jobs were queued, and cancellations called for stay so until they land.
Goes(js, a, js2, a2) ==
  \A s \in Sources : \A i \in 1..Len(js) : QueuedOf(js2, s, i) =>
    QueuedOf(js, s, i) /\ (Gone(a, s, i) => Gone(a2, s, i))

LEMMA GoesOnTo ==
  ASSUME NEW js, NEW a, NEW js2, NEW a2, NEW a3, Goes(js, a, js2, a2), Goes(js2, a2, js2, a3)
  PROVE  Goes(js, a, js2, a3)
BY DEF Goes, QueuedOf

LEMMA LineStays ==
  ASSUME NEW js, NEW a, NEW s \in Sources, NEW list, NEW line, LineOK(js, a, s, list, line),
         Len(js) \in Nat, line # <<>> => Head(line) \in 1..(Len(js) + 1),
         NEW js2, Len(js2) \in Nat, NEW a2, Goes(js, a, js2, a2)
  PROVE  LineOK(js2, a2, s, list, line)
<1> SUFFICES ASSUME line # <<>>, NEW i \in 1..Len(js2), QueuedOf(js2, s, i), i < Head(line)
             PROVE  Gone(a2, s, i)
  BY DEF LineOK, PastOK
<1>1. i \in 1..Len(js)
  OBVIOUS
<1>2. QueuedOf(js, s, i) /\ (Gone(a, s, i) => Gone(a2, s, i))
  BY <1>1 DEF Goes
<1> QED BY <1>1, <1>2 DEF LineOK, PastOK

\* The head of the records lands.
LEMMA TailGoes ==
  ASSUME NEW js, NEW a \in Seq(Notes), a # <<>>, NEW js2,
         \A i \in 1..Len(js) : js2[i].state = "queued" =>
           /\ js[i].state = "queued" /\ js2[i].source = js[i].source
           /\ ~(Head(a).by = "cancel" /\ Head(a).job = i)
  PROVE  Goes(js, a, js2, Tail(a))
<1> SUFFICES ASSUME NEW s \in Sources, NEW i \in 1..Len(js), QueuedOf(js2, s, i)
             PROVE  QueuedOf(js, s, i) /\ (Gone(a, s, i) => Gone(Tail(a), s, i))
  BY DEF Goes
<1>1. QueuedOf(js, s, i) /\ ~(Head(a).by = "cancel" /\ Head(a).job = i)
  BY DEF QueuedOf
<1>2. ASSUME Gone(a, s, i) PROVE Gone(Tail(a), s, i)
  <2> PICK t : t = Tail(a)
    OBVIOUS
  <2>1. /\ Len(a) \in Nat /\ Len(t) = Len(a) - 1 /\ Head(a) = a[1]
        /\ \A l \in 1..Len(t) : l + 1 \in 1..Len(a) /\ t[l] = a[l + 1]
    BY TailOf
  <2>2. PICK k \in 1..Len(a) : /\ a[k].by = "cancel" /\ a[k].job = i
                               /\ \A l \in 1..Len(a) : RunOf(a[l], s) => k < l
    BY <1>2 DEF Gone
  <2>3. k # 1
    BY <1>1, <2>1, <2>2
  <2>4. k - 1 \in 1..Len(t) /\ t[k - 1] = a[k]
    BY <2>1, <2>3
  <2>5. \A l \in 1..Len(t) : RunOf(t[l], s) => k - 1 < l
    BY <2>1, <2>2
  <2>6. Gone(t, s, i)
    BY <2>2, <2>4, <2>5 DEF Gone
  <2> QED BY <2>6
<1> QED BY <1>1, <1>2

\* A record of a known job does, and one of a new job.
LEMMA KnownGoes ==
  ASSUME NEW js, NEW a \in Seq(Notes), a # <<>>, NEW js2, Relabelled(js, js2, Head(a)),
         Head(a).state # "queued"
  PROVE  Goes(js, a, js2, Tail(a))
<1>1. \A i \in 1..Len(js) : js2[i].state = "queued" =>
        /\ js[i].state = "queued" /\ js2[i].source = js[i].source
        /\ ~(Head(a).by = "cancel" /\ Head(a).job = i)
  BY DEF Relabelled
<1> QED BY <1>1, TailGoes

LEMMA NewGoes ==
  ASSUME NEW js, NEW a \in Seq(Notes), a # <<>>, ByNew(Head(a)), NEW js2,
         \A i \in 1..Len(js) : js2[i] = js[i]
  PROVE  Goes(js, a, js2, Tail(a))
<1>1. \A i \in 1..Len(js) : js2[i].state = "queued" =>
        /\ js[i].state = "queued" /\ js2[i].source = js[i].source
        /\ ~(Head(a).by = "cancel" /\ Head(a).job = i)
  BY DEF ByNew
<1> QED BY <1>1, TailGoes

\* More records are called for.
LEMMA MoreGoes ==
  ASSUME NEW js, NEW a \in Seq(Notes), NEW more \in Seq(Notes)
  PROVE  Goes(js, a, js, a \o more)
<1> SUFFICES ASSUME NEW s \in Sources, NEW i \in 1..Len(js), Gone(a, s, i)
             PROVE  Gone(a \o more, s, i)
  BY DEF Goes
<1> PICK all : all = a \o more
  OBVIOUS
<1>1. /\ Len(a) \in Nat /\ Len(all) \in Nat /\ Len(a) <= Len(all)
      /\ \A k \in 1..Len(a) : k \in 1..Len(all) /\ all[k] = a[k]
  OBVIOUS
<1>2. PICK k \in 1..Len(a) : /\ a[k].by = "cancel" /\ a[k].job = i
                             /\ \A l \in 1..Len(a) : RunOf(a[l], s) => k < l
  BY DEF Gone
<1>3. \A l \in 1..Len(all) : RunOf(all[l], s) => k < l
  <2> SUFFICES ASSUME NEW l \in 1..Len(all), RunOf(all[l], s) PROVE k < l
    OBVIOUS
  <2>1. l \in 1..Len(a) \/ l > Len(a)
    BY <1>1
  <2> QED BY <1>1, <1>2, <2>1
<1>4. k \in 1..Len(all) /\ all[k] = a[k]
  BY <1>1
<1>5. Gone(all, s, i)
  BY <1>2, <1>3, <1>4 DEF Gone
<1> QED BY <1>5

LEMMA AddsGoes ==
  ASSUME NEW js, NEW a \in Seq(Notes), NEW later \in Seq(Notes), NEW a2, Adds(a, a2, later)
  PROVE  Goes(js, a, js, a2)
<1>1. PICK recs \in Seq(Notes) : a2 = (a \o recs) \o later
  BY DEF Adds
<1>2. a \o recs \in Seq(Notes)
  OBVIOUS
<1>3. Goes(js, a, js, a \o recs) /\ Goes(js, a \o recs, js, a2)
  BY <1>1, <1>2, MoreGoes
<1> QED BY <1>3, GoesOnTo

\* A queued job that no array has is being cancelled.
NoRunOf(a, s) == \A l \in 1..Len(a) : ~RunOf(a[l], s)

LEMMA Astray ==
  ASSUME NEW js, NEW o, NEW p, NEW d, NEW a, QueueOK(js, o, p, d, a), NEW s \in Sources,
         NoRunOf(a, s), NEW i, QueuedOf(js, s, i),
         ~Contains(p[s], i), ~Contains(Line(p, d, s), i)
  PROVE  Gone(a, s, i)
<1>1. \/ Contains(p[s], i)
      \/ d[s].pc # "idle" /\ Contains(HeldOf(p, d, s), i)
      \/ \E k \in 1..Len(a) : a[k].job = i /\ a[k].by = "cancel"
  BY DEF QueueOK, ListedOK, QueuedOf
<1>2. \E k \in 1..Len(a) : a[k].job = i /\ a[k].by = "cancel"
  BY <1>1 DEF Line, HeldOf
<1> QED BY <1>2 DEF Gone, NoRunOf

LEMMA NoneRun ==
  ASSUME NEW js, NEW o, NEW p, NEW d, NEW a, QueueOK(js, o, p, d, a), NEW s \in Sources,
         d[s].pc # "starting"
  PROVE  NoRunOf(a, s)
<1> SUFFICES ASSUME NEW l \in 1..Len(a), RunOf(a[l], s) PROVE FALSE
  BY DEF NoRunOf
<1>1. RecordOK(js, p, d, a[l])
  BY DEF QueueOK, RecordsOK
<1> QED BY <1>1 DEF RecordOK, RunOf, ByDrain, Awaits

\* What is less than the head of a rising list is not on it.
LEMMA BeforeHead ==
  ASSUME NEW list \in Seq(Nat), Rising(list), list # <<>>, NEW i \in Nat, i < Head(list)
  PROVE  ~Contains(list, i)
<1> SUFFICES ASSUME NEW k \in 1..Len(list), list[k] = i PROVE FALSE
  BY DEF Contains
<1>1. Head(list) = list[1] /\ 1 \in 1..Len(list) /\ list[1] \in Nat /\ list[k] \in Nat
  OBVIOUS
<1>2. k = 1 \/ 1 < k
  OBVIOUS
<1> QED BY <1>1, <1>2 DEF Rising

\* Without a drain a rising array is in order.
LEMMA IdleLine ==
  ASSUME NEW js, NEW o, NEW p, NEW d, NEW a, QueueOK(js, o, p, d, a), NEW s \in Sources,
         d[s].pc = "idle", Rising(p[s])
  PROVE  LineOK(js, a, s, p[s], Line(p, d, s))
<1>1. Line(p, d, s) = p[s] /\ p[s] \in Seq(Nat) /\ NoRunOf(a, s)
  <2>1. p[s] \in Seq(Nat)
    BY DEF QueueOK, QueueTypes
  <2> QED BY <2>1, NoneRun DEF Line
<1>2. Beside(p[s], p[s])
  BY DEF Beside, Contains
<1>3. PastOK(js, a, s, p[s])
  <2> SUFFICES ASSUME p[s] # <<>>, NEW i \in 1..Len(js), QueuedOf(js, s, i), i < Head(p[s])
               PROVE  Gone(a, s, i)
    BY DEF PastOK
  <2>1. ~Contains(p[s], i)
    BY <1>1, BeforeHead
  <2> QED BY <1>1, <2>1, Astray
<1> QED BY <1>1, <1>2, <1>3 DEF LineOK

\* A new job goes behind all others.
AllBelow(list, new) == \A k \in 1..Len(list) : list[k] < new

LEMMA RisesBy ==
  ASSUME NEW list \in Seq(Nat), Rising(list), NEW new \in Nat, AllBelow(list, new)
  PROVE  Rising(Append(list, new))
<1> PICK more : more = Append(list, new)
  OBVIOUS
<1>1. /\ Len(list) \in Nat /\ Len(more) = Len(list) + 1 /\ more[Len(list) + 1] = new
      /\ \A k \in 1..Len(list) : more[k] = list[k]
  OBVIOUS
<1>2. \A k \in 1..Len(more) : k \in 1..Len(list) \/ k = Len(list) + 1
  BY <1>1
<1>3. Rising(more)
  <2> SUFFICES ASSUME NEW k \in 1..Len(more), NEW l \in 1..Len(more), k < l PROVE more[k] < more[l]
    BY DEF Rising
  <2>1. k \in 1..Len(list)
    BY <1>1, <1>2
  <2>2. CASE l \in 1..Len(list)
    BY <1>1, <2>1, <2>2 DEF Rising
  <2>3. CASE l = Len(list) + 1
    BY <1>1, <2>1, <2>3 DEF AllBelow
  <2> QED BY <1>2, <2>2, <2>3
<1> QED BY <1>3

Pushes(d, s, list, line, new, line2) ==
  IF d[s].pc = "idle" \/ d[s].shared THEN line = list /\ line2 = Append(list, new) ELSE line2 = line

LineWith(js, a, s, list, line, line2) == LineOK(js, a, s, list, line2) /\ Head(line2) = Head(line)

LEMMA PushLine ==
  ASSUME NEW js, NEW a, NEW s \in Sources, NEW list \in Seq(Nat), NEW line \in Seq(Nat),
         LineOK(js, a, s, list, line), line # <<>>, NEW new \in Nat,
         AllBelow(list, new), AllBelow(line, new),
         NEW d, NEW line2, Pushes(d, s, list, line, new, line2)
  PROVE  LineWith(js, a, s, Append(list, new), line, line2)
<1> PICK more : more = Append(list, new)
  OBVIOUS
<1>1. /\ Len(list) \in Nat /\ Len(more) = Len(list) + 1 /\ more[Len(list) + 1] = new
      /\ (\A k \in 1..Len(list) : more[k] = list[k]) /\ Rising(more)
      /\ \A k \in 1..Len(more) : k \in 1..Len(list) \/ k = Len(list) + 1
  <2>1. Rising(Append(list, new))
    BY RisesBy DEF LineOK
  <2>2. /\ Len(list) \in Nat /\ Len(more) = Len(list) + 1 /\ more[Len(list) + 1] = new
        /\ (\A k \in 1..Len(list) : more[k] = list[k])
    OBVIOUS
  <2> QED BY <2>1, <2>2
<1>2. CASE line2 = more /\ line = list
  <2>1. Beside(more, more)
    BY DEF Beside, Contains
  <2>2. more # <<>> /\ Head(more) = Head(list)
    BY <1>2
  <2> QED BY <1>1, <1>2, <2>1, <2>2 DEF LineOK, PastOK, LineWith
<1>3. CASE line2 = line
  <2>1. Beside(more, line)
    <3> SUFFICES ASSUME NEW k \in 1..Len(more)
                 PROVE  \/ Contains(line, more[k])
                        \/ \A l \in 1..Len(line) : more[k] < line[l]
                        \/ \A l \in 1..Len(line) : line[l] < more[k]
      BY DEF Beside
    <3>1. CASE k \in 1..Len(list)
      BY <1>1, <3>1 DEF LineOK, Beside
    <3>2. CASE k = Len(list) + 1
      BY <1>1, <3>2 DEF AllBelow
    <3> QED BY <1>1, <3>1, <3>2
  <2> QED BY <1>1, <1>3, <2>1 DEF LineOK, LineWith
<1>4. LineWith(js, a, s, more, line, line2)
  BY <1>2, <1>3 DEF Pushes, LineWith
<1> QED BY <1>4

\* A job that is dropped leaves the map's array in order.
LEMMA DropLine ==
  ASSUME NEW list \in Seq(Nat), Rising(list), NEW x
  PROVE  /\ Without(list, x) \in Seq(Nat) /\ Rising(Without(list, x))
         /\ \A line : Beside(list, line) => Beside(Without(list, x), line)
<1> DEFINE S == ToSet(list) \ {x}
           rest == Only(list, S)
<1>1. /\ rest \in Seq(Nat)
      /\ \A k \in 1..Len(rest) : rest[k] \in S /\ Contains(list, rest[k])
      /\ \A k, l \in 1..Len(rest) : k < l =>
           \E i, j \in 1..Len(list) : i < j /\ list[i] = rest[k] /\ list[j] = rest[l]
  <2> HIDE DEF S
  <2> QED BY OnlyKeeps
<1>2. rest = Without(list, x)
  BY DEF Without
<1> HIDE DEF S, rest
<1>3. Rising(rest)
  BY <1>1 DEF Rising
<1>4. ASSUME NEW line, Beside(list, line) PROVE Beside(rest, line)
  <2> SUFFICES ASSUME NEW k \in 1..Len(rest)
               PROVE  \/ Contains(line, rest[k])
                      \/ \A l \in 1..Len(line) : rest[k] < line[l]
                      \/ \A l \in 1..Len(line) : line[l] < rest[k]
    BY DEF Beside
  <2>1. PICK i \in 1..Len(list) : list[i] = rest[k]
    BY <1>1 DEF Contains
  <2>2. \/ Contains(line, list[i])
        \/ \A l \in 1..Len(line) : list[i] < line[l]
        \/ \A l \in 1..Len(line) : line[l] < list[i]
    BY <1>4 DEF Beside
  <2> QED BY <2>1, <2>2
<1> QED BY <1>1, <1>2, <1>3, <1>4

\* A drain goes on to the next job of its array.
LEMMA NextLine ==
  ASSUME NEW js, NEW o, NEW p, NEW d, NEW a, QueueOK(js, o, p, d, a), NEW s \in Sources,
         NEW line \in Seq(Nat), line = Line(p, d, s), line # <<>>, NoRunOf(a, s),
         LineOK(js, a, s, p[s], line), js[Head(line)].state # "queued",
         Tail(line) # <<>>,
         NEW list, list = IF d[s].shared THEN Tail(line) ELSE p[s],
         d[s].shared => line = p[s]
  PROVE  LineOK(js, a, s, list, Tail(line))
<1> PICK rest : rest = Tail(line)
  OBVIOUS
<1>1. /\ rest \in Seq(Nat) /\ Len(line) \in Nat /\ Len(rest) = Len(line) - 1
      /\ 1 \in 1..Len(line) /\ Head(line) = line[1] /\ Head(line) \in Nat
      /\ \A i \in 1..Len(rest) : i + 1 \in 1..Len(line) /\ rest[i] = line[i + 1]
      /\ \A x : Contains(line, x) <=> x = Head(line) \/ Contains(rest, x)
  BY TailOf
<1>2. Rising(rest)
  BY <1>1 DEF LineOK, Rising
<1>3. /\ Head(rest) = rest[1] /\ 1 \in 1..Len(rest) /\ Head(rest) \in Nat /\ Contains(line, Head(rest))
      /\ Head(rest) = line[2]
  <2>1. Head(rest) = rest[1] /\ 1 \in 1..Len(rest) /\ rest[1] \in Nat
    BY <1>1
  <2> QED BY <1>1, <2>1 DEF Contains
<1>4. \A l \in 1..Len(rest) : Head(line) < rest[l]
  <2> SUFFICES ASSUME NEW l \in 1..Len(rest) PROVE Head(line) < rest[l]
    OBVIOUS
  <2>1. l + 1 \in 1..Len(line) /\ rest[l] = line[l + 1] /\ 1 < l + 1
    BY <1>1
  <2> QED BY <1>1, <2>1 DEF LineOK, Rising
<1>5. Beside(p[s], rest)
  <2> SUFFICES ASSUME NEW k \in 1..Len(p[s])
               PROVE  \/ Contains(rest, p[s][k])
                      \/ \A l \in 1..Len(rest) : p[s][k] < rest[l]
                      \/ \A l \in 1..Len(rest) : rest[l] < p[s][k]
    BY DEF Beside
  <2>1. \/ Contains(line, p[s][k])
        \/ \A l \in 1..Len(line) : p[s][k] < line[l]
        \/ \A l \in 1..Len(line) : line[l] < p[s][k]
    BY DEF LineOK, Beside
  <2> QED BY SMTT(90), <1>1, <1>4, <2>1
<1>6. Rising(list) /\ Beside(list, rest)
  <2>1. Beside(rest, rest)
    BY DEF Beside, Contains
  <2> QED BY <1>2, <1>5, <2>1 DEF LineOK
<1>7. PastOK(js, a, s, rest)
  <2> SUFFICES ASSUME NEW i \in 1..Len(js), QueuedOf(js, s, i), i < Head(rest) PROVE Gone(a, s, i)
    BY DEF PastOK
  <2>1. CASE i < Head(line)
    BY <2>1 DEF LineOK, PastOK
  <2>2. i # Head(line)
    BY DEF QueuedOf
  <2>3. CASE Head(line) < i
    <3>1. ~Contains(rest, i)
      <4>1. i \in Nat /\ rest # <<>> /\ rest \in Seq(Nat)
        BY <1>1
      <4> QED BY <1>2, <4>1, BeforeHead
    <3>2. ~Contains(line, i)
      BY <1>1, <2>2, <3>1
    <3>3. ~Contains(p[s], i)
      <4> SUFFICES ASSUME NEW k \in 1..Len(p[s]), p[s][k] = i PROVE FALSE
        BY DEF Contains
      <4>1. \/ Contains(line, i)
            \/ \A l \in 1..Len(line) : i < line[l]
            \/ \A l \in 1..Len(line) : line[l] < i
        BY DEF LineOK, Beside
      <4>2. ~(i < line[1]) /\ ~(line[2] < i) /\ 2 \in 1..Len(line)
        BY SMTT(90), <1>1, <1>3, <2>3
      <4> QED BY <1>1, <3>2, <4>1, <4>2
    <3> QED BY <3>2, <3>3, Astray
  <2> QED BY <1>1, <2>1, <2>2, <2>3
<1> QED BY <1>2, <1>6, <1>7 DEF LineOK

\* scheduleProcessing leaves every array and the place in it.
LEMMA ScheduleLines ==
  ASSUME NEW js, NEW o, NEW p, NEW d, NEW a, QueueOK(js, o, p, d, a), NEW later,
         Schedule(o, p, d, a, js, later)
  PROVE  pending' = p /\ \A s \in Sources : Line(pending', drain', s) = Line(p, d, s)
<1> PICK chosen : chosen = Chosen(o, d)
  OBVIOUS
<1>1. o \in Seq(Sources) /\ KeysOK(o, p) /\ Slots(d) \in Nat
  BY FS_CardinalityType, JobsAssumption DEF QueueOK, QueueTypes, SlotsOK, Slots, ActiveIn
<1>2. \A i \in 1..Len(chosen) : chosen[i] \in Sources /\ d[chosen[i]].pc = "idle"
  BY <1>1, ChosenAre
<1>3. /\ pending' = p
      /\ drain' = [u \in Sources |-> IF Contains(chosen, u)
                                     THEN [Asleep EXCEPT !.pc = Begins(js, Head(p[u]))] ELSE d[u]]
  BY DEF Schedule
<1>4. ASSUME NEW s \in Sources, Contains(chosen, s) PROVE drain'[s].shared /\ d[s].pc = "idle"
  <2>1. drain'[s] = [Asleep EXCEPT !.pc = Begins(js, Head(p[s]))]
    BY <1>3, <1>4
  <2>2. drain'[s].shared
    BY <2>1 DEF Asleep
  <2>3. d[s].pc = "idle"
    BY <1>2, <1>4 DEF Contains
  <2> QED BY <2>2, <2>3
<1>5. ASSUME NEW s \in Sources, ~Contains(chosen, s) PROVE drain'[s] = d[s]
  BY <1>3, <1>5
<1> QED BY <1>3, <1>4, <1>5 DEF Line

LEMMA ScheduleOrder ==
  ASSUME NEW js, NEW o, NEW p, NEW d, NEW a, QueueOK(js, o, p, d, a),
         NEW later \in Seq(Notes), AllNew(later), Schedule(o, p, d, a, js, later),
         \A s \in Sources : LineOK(js, a, s, p[s], Line(p, d, s))
  PROVE  \A s \in Sources : LineOK(js, appends', s, pending'[s], Line(pending', drain', s))
<1> SUFFICES ASSUME NEW s \in Sources
             PROVE  LineOK(js, appends', s, p[s], Line(p, d, s))
  BY ScheduleLines
<1>1. /\ js \in Seq(Job) /\ p \in [Sources -> Seq(Nat)] /\ a \in Seq(Notes)
      /\ d \in [Sources -> Drains] /\ Len(js) \in Nat
  <2>1. js \in Seq(Job)
    BY DEF QueueOK, QueueTypes
  <2> QED BY <2>1 DEF QueueOK, QueueTypes
<1>2. Goes(js, a, js, appends')
  BY <1>1, ScheduleKeeps, AddsGoes
<1> PICK line : line = Line(p, d, s)
  OBVIOUS
<1>3. line # <<>> => Head(line) \in 1..(Len(js) + 1)
  <2>1. line \in Seq(Nat) /\ OfSource(js, s, line)
    <3>1. d[s] \in Drains
      BY <1>1
    <3> QED BY <1>1, <3>1 DEF QueueOK, ArraysOK, Line, HeldOf, Drains
  <2> QED BY <1>1, <2>1 DEF OfSource
<1> QED BY <1>1, <1>2, <1>3, LineStays

\* A source's arrays hold jobs of it that exist.
LEMMA LinesAre ==
  ASSUME JobsInv, NEW s \in Sources
  PROVE  /\ jobs \in Seq(Job) /\ Len(jobs) \in Nat /\ appends \in Seq(Notes) /\ drain[s] \in Drains
         /\ pending[s] \in Seq(Nat) /\ OfSource(jobs, s, pending[s])
         /\ Line(pending, drain, s) \in Seq(Nat) /\ OfSource(jobs, s, Line(pending, drain, s))
         /\ Line(pending, drain, s) # <<>> => Head(Line(pending, drain, s)) \in 1..Len(jobs)
         /\ drain[s].pc # "idle" => Line(pending, drain, s) = HeldOf(pending, drain, s)
                                    /\ Line(pending, drain, s) # <<>>
<1> PICK line : line = Line(pending, drain, s)
  OBVIOUS
<1>1. /\ jobs \in Seq(Job) /\ Len(jobs) \in Nat /\ appends \in Seq(Notes) /\ drain[s] \in Drains
      /\ pending[s] \in Seq(Nat)
  BY TypesAre
<1>2. ArraysOK(jobs, pending, drain)
  BY DEF JobsInv, QueueInv, QueueOK
<1>3. drain[s].pc # "idle" => line = HeldOf(pending, drain, s) /\ line # <<>>
  BY <1>2 DEF Line, HeldOf, ArraysOK
<1>4. line \in Seq(Nat)
  BY <1>1 DEF Line, Drains
<1>5. OfSource(jobs, s, pending[s]) /\ OfSource(jobs, s, line)
  BY <1>2 DEF Line, HeldOf, ArraysOK
<1>6. line # <<>> => Head(line) \in 1..Len(jobs)
  BY <1>4, <1>5 DEF OfSource
<1> QED BY <1>1, <1>3, <1>4, <1>5, <1>6

LEMMA OrderStays ==
  ASSUME JobsInv, OrderInv, Len(jobs') \in Nat, Goes(jobs, appends, jobs', appends'),
         UNCHANGED pending,
         \A s \in Sources : Line(pending', drain', s) = Line(pending, drain, s)
  PROVE  OrderInv'
<1>1. ASSUME NEW s \in Sources
      PROVE  LineOK(jobs', appends', s, pending'[s], Line(pending', drain', s))
  <2> PICK line : line = Line(pending, drain, s)
    OBVIOUS
  <2>1. LineOK(jobs, appends, s, pending[s], line) /\ Len(jobs) \in Nat
    BY LinesAre DEF OrderInv
  <2>2. line # <<>> => Head(line) \in 1..(Len(jobs) + 1)
    BY LinesAre
  <2> QED BY <2>1, <2>2, LineStays
<1> QED BY <1>1 DEF OrderInv

\* Nothing but a record more.
LEMMA AppendGoes ==
  ASSUME NEW js, NEW a \in Seq(Notes), NEW n
  PROVE  Goes(js, a, js, Append(a, n)) /\ Goes(js, a, js, a)
<1> SUFFICES ASSUME NEW s \in Sources, NEW i \in 1..Len(js), Gone(a, s, i)
             PROVE  Gone(Append(a, n), s, i)
  BY DEF Goes
<1> PICK all : all = Append(a, n)
  OBVIOUS
<1>1. /\ Len(a) \in Nat /\ Len(all) = Len(a) + 1
      /\ \A k \in 1..Len(a) : k \in 1..Len(all) /\ all[k] = a[k]
  OBVIOUS
<1>2. PICK k \in 1..Len(a) : /\ a[k].by = "cancel" /\ a[k].job = i
                             /\ \A l \in 1..Len(a) : RunOf(a[l], s) => k < l
  BY DEF Gone
<1>3. \A l \in 1..Len(all) : RunOf(all[l], s) => k < l
  <2> SUFFICES ASSUME NEW l \in 1..Len(all), RunOf(all[l], s) PROVE k < l
    OBVIOUS
  <2>1. l \in 1..Len(a) \/ l > Len(a)
    BY <1>1
  <2> QED BY <1>1, <1>2, <2>1
<1>4. k \in 1..Len(all) /\ all[k] = a[k]
  BY <1>1
<1>5. Gone(all, s, i)
  BY <1>2, <1>3, <1>4 DEF Gone
<1> QED BY <1>5

LEMMA CallsOrder ==
  ASSUME JobsInv, OrderInv, UNCHANGED <<jobs, pending>>,
         \A s \in Sources : Line(pending', drain', s) = Line(pending, drain, s),
         \/ UNCHANGED appends
         \/ \E n : appends' = Append(appends, n)
  PROVE  OrderInv'
<1>1. appends \in Seq(Notes) /\ Len(jobs') \in Nat
  BY TypesAre
<1>2. Goes(jobs, appends, jobs', appends')
  BY <1>1, AppendGoes
<1> QED BY <1>1, <1>2, OrderStays

\* A drain moves on at its job.
LEMMA MoveLines ==
  ASSUME JobsInv, NEW s \in Sources, drain[s].pc # "idle", NEW new, new.pc # "idle",
         new.own = drain[s].own, new.shared = drain[s].shared,
         drain' = [drain EXCEPT ![s] = new], UNCHANGED pending
  PROVE  \A t \in Sources : Line(pending', drain', t) = Line(pending, drain, t)
<1>1. drain \in [Sources -> Drains]
  BY TypesAre
<1>2. drain'[s] = new /\ \A t \in Sources : t # s => drain'[t] = drain[t]
  BY <1>1
<1> QED BY <1>2 DEF Line

LEMMA BelowNew ==
  ASSUME NEW js, Len(js) \in Nat, NEW s, NEW list, OfSource(js, s, list)
  PROVE  AllBelow(list, Len(js) + 1)
BY DEF OfSource, AllBelow

\* A new job joins an array that a drain goes through, or the copy of it.
LEMMA JoinedLine ==
  ASSUME NEW js, NEW a, NEW s \in Sources, NEW list \in Seq(Nat), NEW line \in Seq(Nat),
         LineOK(js, a, s, list, line), line # <<>>, Len(js) \in Nat, Head(line) \in 1..Len(js),
         OfSource(js, s, list), OfSource(js, s, line), NEW new, new = Len(js) + 1,
         NEW d, NEW line2, Pushes(d, s, list, line, new, line2),
         NEW js2, Len(js2) \in Nat, NEW a2, Goes(js, a, js2, a2)
  PROVE  LineOK(js2, a2, s, Append(list, new), line2)
<1>1. new \in Nat
  OBVIOUS
<1>2. AllBelow(list, new) /\ AllBelow(line, new)
  BY BelowNew
<1>3. LineWith(js, a, s, Append(list, new), line, line2)
  BY <1>1, <1>2, PushLine
<1>4. line2 # <<>> => Head(line2) \in 1..(Len(js) + 1)
  BY <1>3 DEF LineWith
<1> QED BY <1>3, <1>4, LineStays DEF LineWith

\* The record of a new job lands.
LEMMA NewOrder ==
  ASSUME JobsInv, OrderInv, Joined
  PROVE  OrderInv'
<1>1. PICK later \in Seq(Notes) :
        /\ AllNew(later) /\ appends # <<>> /\ ByNew(Head(appends)) /\ jobs' = With(Head(appends))
        /\ Schedule(Keys(Head(appends).source), Pushed(Head(appends).source, Len(jobs) + 1), drain,
                    Tail(appends), With(Head(appends)), later)
  BY DEF Joined
<1> PICK a : a = Head(appends)
  OBVIOUS
<1> PICK js : js = With(a)
  OBVIOUS
<1> PICK s : s = a.source
  OBVIOUS
<1> PICK new : new = Len(jobs) + 1
  OBVIOUS
<1> PICK p : p = Pushed(s, new)
  OBVIOUS
<1>2. s \in Sources /\ Len(jobs) \in Nat /\ new \in Nat /\ appends \in Seq(Notes)
      /\ pending \in [Sources -> Seq(Nat)]
  BY <1>1, HeadIs, TypesAre
<1>3. /\ Len(js) = new /\ (\A i \in 1..Len(jobs) : js[i] = jobs[i])
      /\ QueueOK(js, Keys(s), p, drain, Tail(appends))
  BY <1>1, NewJoins
<1>4. Goes(jobs, appends, js, Tail(appends))
  BY <1>1, <1>2, <1>3, NewGoes
<1>5. p[s] = Append(pending[s], new) /\ \A t \in Sources : t # s => p[t] = pending[t]
  BY <1>2 DEF Pushed
<1>6. ASSUME NEW t \in Sources, t # s PROVE LineOK(js, Tail(appends), t, p[t], Line(p, drain, t))
  <2> PICK line : line = Line(pending, drain, t)
    OBVIOUS
  <2>1. Line(p, drain, t) = line /\ p[t] = pending[t]
    BY <1>5, <1>6 DEF Line
  <2>2. LineOK(jobs, appends, t, pending[t], line) /\ (line # <<>> => Head(line) \in 1..(Len(jobs) + 1))
    BY SMTT(90), LinesAre DEF OrderInv
  <2> QED BY <1>2, <1>3, <1>4, <2>1, <2>2, LineStays
<1>7. LineOK(js, Tail(appends), s, p[s], Line(p, drain, s))
  <2> PICK list, line, line2 : /\ list = pending[s] /\ line = Line(pending, drain, s)
                               /\ line2 = Line(p, drain, s)
    OBVIOUS
  <2>1. /\ list \in Seq(Nat) /\ line \in Seq(Nat) /\ OfSource(jobs, s, list) /\ OfSource(jobs, s, line)
        /\ (line # <<>> => Head(line) \in 1..Len(jobs)) /\ (drain[s].pc # "idle" => line # <<>>)
        /\ LineOK(jobs, appends, s, list, line)
    BY <1>2, LinesAre DEF OrderInv
  <2>2. CASE drain[s].pc = "idle"
    <3>1. AllBelow(list, new)
      BY <1>2, <2>1, BelowNew
    <3>2. Rising(Append(list, new))
      BY <1>2, <2>1, <3>1, RisesBy DEF LineOK
    <3> QED BY <1>2, <1>3, <1>5, <2>2, <3>2, IdleLine
  <2>3. CASE drain[s].pc # "idle"
    <3>1. Pushes(drain, s, list, line, new, line2)
      BY <1>5, <2>3 DEF Pushes, Line
    <3>2. line # <<>> /\ Head(line) \in 1..Len(jobs) /\ Len(js) \in Nat
      BY <1>2, <1>3, <2>1, <2>3
    <3>3. LineOK(js, Tail(appends), s, Append(list, new), line2)
      BY <1>2, <1>4, <2>1, <3>1, <3>2, JoinedLine
    <3> QED BY <1>5, <3>3
  <2> QED BY <2>2, <2>3
<1>8. \A t \in Sources : LineOK(js, Tail(appends), t, p[t], Line(p, drain, t))
  BY <1>6, <1>7
<1>9. Schedule(Keys(s), p, drain, Tail(appends), js, later)
  BY <1>1
<1>10. \A t \in Sources : LineOK(js, appends', t, pending'[t], Line(pending', drain', t))
  BY <1>1, <1>3, <1>8, <1>9, ScheduleOrder
<1> QED BY <1>1, <1>10 DEF OrderInv

LEMMA CancelOrder ==
  ASSUME JobsInv, OrderInv, NEW j \in JobIds, Cancel(j), JobsInv'
  PROVE  OrderInv'
<1> PICK s : s = jobs[j].source
  OBVIOUS
<1>1. /\ s \in Sources /\ drain \in [Sources -> Drains] /\ pending \in [Sources -> Seq(Nat)]
      /\ appends \in Seq(Notes) /\ Len(jobs) \in Nat /\ drain[s] \in Drains
  <2>1. j \in 1..Len(jobs)
    BY TypesAre DEF Cancel
  <2> QED BY <2>1, TypesAre
<1>2. UNCHANGED jobs
  BY DEF Cancel
<1>3. CASE jobs[j].state # "queued"
  <2>1. /\ drain' = IF s \in Active THEN [drain EXCEPT ![s].aborted = TRUE] ELSE drain
        /\ UNCHANGED <<pending, appends>>
    BY <1>3 DEF Cancel
  <2> PICK x, y : x = drain[s] /\ y = [x EXCEPT !.aborted = TRUE]
    OBVIOUS
  <2>2. y.pc = x.pc /\ y.own = x.own /\ y.shared = x.shared
    BY <1>1 DEF Drains
  <2>3. \A t \in Sources : Line(pending', drain', t) = Line(pending, drain, t)
    <3>1. CASE s \in Active
      <4>1. drain' = [drain EXCEPT ![s] = y]
        BY <1>1, <2>1, <3>1
      <4>2. drain'[s] = y /\ \A t \in Sources : t # s => drain'[t] = drain[t]
        BY <1>1, <4>1
      <4> QED BY <2>1, <2>2, <4>2 DEF Line
    <3>2. CASE s \notin Active
      BY <2>1, <3>2
    <3> QED BY <3>1, <3>2
  <2> QED BY <1>2, <2>1, <2>3, CallsOrder
<1>4. CASE jobs[j].state = "queued"
  <2>1. DropPending(s, j) /\ \E n : appends' = Append(appends, n)
    BY <1>4 DEF Cancel
  <2>2. CASE pending[s] = <<>>
    <3>1. UNCHANGED <<pending, drain>>
      BY <2>1, <2>2 DEF DropPending
    <3> QED BY <1>2, <2>1, <3>1, CallsOrder
  <2>3. CASE pending[s] # <<>>
    <3> PICK rest : rest = Without(pending[s], j)
      OBVIOUS
    <3>1. /\ pending' = [pending EXCEPT ![s] = rest]
          /\ drain' = IF s \in Active
                      THEN [drain EXCEPT ![s].own = Held(s), ![s].shared = FALSE] ELSE drain
      BY <2>1, <2>3 DEF DropPending
    <3>2. pending'[s] = rest /\ \A t \in Sources : t # s => pending'[t] = pending[t]
      BY <1>1, <3>1
    <3>3. Goes(jobs, appends, jobs, appends')
      BY <1>1, <2>1, AppendGoes
    <3>4. Rising(rest) /\ \A line : Beside(pending[s], line) => Beside(rest, line)
      <4>1. pending[s] \in Seq(Nat) /\ Rising(pending[s])
        BY <1>1 DEF OrderInv, LineOK
      <4> QED BY <4>1, DropLine
    <3>5. ASSUME NEW t \in Sources, t # s, drain'[t] = drain[t]
          PROVE  LineOK(jobs, appends', t, pending'[t], Line(pending', drain', t))
      <4> PICK line : line = Line(pending, drain, t)
        OBVIOUS
      <4>1. Line(pending', drain', t) = line /\ pending'[t] = pending[t]
        BY <3>2, <3>5 DEF Line
      <4>2. /\ LineOK(jobs, appends, t, pending[t], line)
            /\ line # <<>> => Head(line) \in 1..(Len(jobs) + 1)
        BY LinesAre DEF OrderInv
      <4> QED BY <1>1, <3>3, <4>1, <4>2, LineStays
    <3>6. CASE s \in Active
      <4> PICK x, held : x = drain[s] /\ held = Held(s)
        OBVIOUS
      <4> PICK y : y = [x EXCEPT !.own = held, !.shared = FALSE]
        OBVIOUS
      <4>1. y.pc = x.pc /\ y.own = held /\ ~y.shared /\ x.pc # "idle"
        BY <1>1, <3>6 DEF Drains, Active
      <4>2. drain' = [drain EXCEPT ![s] = y]
        BY <1>1, <3>1, <3>6
      <4>3. drain'[s] = y /\ \A t \in Sources : t # s => drain'[t] = drain[t]
        BY <1>1, <4>2
      <4>4. Line(pending', drain', s) = held /\ Line(pending, drain, s) = held
        BY <4>1, <4>3 DEF Line, Held
      <4>5. LineOK(jobs, appends, s, rest, held)
        BY <1>1, <3>4, <4>4 DEF OrderInv, LineOK
      <4>6. held # <<>> => Head(held) \in 1..(Len(jobs) + 1)
        BY <1>1, <4>4, LinesAre
      <4>7. LineOK(jobs, appends', s, rest, held)
        BY <1>1, <3>3, <4>5, <4>6, LineStays
      <4> QED BY <1>2, <3>2, <3>5, <4>3, <4>4, <4>7 DEF OrderInv
    <3>7. CASE s \notin Active
      <4>1. drain' = drain /\ drain[s].pc = "idle"
        BY <1>1, <3>1, <3>7 DEF Active
      <4>2. QueueOK(jobs, order', pending', drain', appends')
        BY <1>2 DEF JobsInv, QueueInv
      <4>3. LineOK(jobs, appends', s, pending'[s], Line(pending', drain', s))
        BY <1>1, <3>2, <3>4, <4>1, <4>2, IdleLine
      <4> QED BY <1>2, <3>5, <4>1, <4>3 DEF OrderInv
    <3> QED BY <3>6, <3>7
  <2> QED BY <2>2, <2>3
<1> QED BY <1>3, <1>4

\* A record of a known job lands.
LEMMA LandsGoes ==
  ASSUME JobsInv, appends # <<>>, ~ByNew(Head(appends)), jobs' = With(Head(appends))
  PROVE  /\ Goes(jobs, appends, jobs', Tail(appends)) /\ Len(jobs') \in Nat
         /\ Relabelled(jobs, jobs', Head(appends))
<1> PICK a : a = Head(appends)
  OBVIOUS
<1>1. a \in Notes /\ RecordOK(jobs, pending, drain, a) /\ appends \in Seq(Notes) /\ Len(jobs) \in Nat
  BY HeadIs, TypesAre
<1>2. Relabelled(jobs, jobs', a)
  BY <1>1, WithKnown, TypesAre
<1>3. a.state # "queued"
  <2>1. a.by \in {"cancel", "run", "report", "finish"}
    BY <1>1 DEF Notes, ByNew
  <2> QED BY <1>1, <2>1 DEF RecordOK
<1>4. Len(jobs') \in Nat
  BY <1>1, <1>2 DEF Relabelled
<1> QED BY <1>1, <1>2, <1>3, <1>4, KnownGoes

LEMMA CancelledOrder ==
  ASSUME JobsInv, OrderInv, Cancelled
  PROVE  OrderInv'
<1>1. /\ appends # <<>> /\ ~ByNew(Head(appends)) /\ jobs' = With(Head(appends))
      /\ appends' = Tail(appends) /\ UNCHANGED <<pending, drain>>
  BY DEF Cancelled, Lands, ByNew
<1>2. Goes(jobs, appends, jobs', appends') /\ Len(jobs') \in Nat
  BY <1>1, LandsGoes
<1> QED BY <1>1, <1>2, OrderStays

LEMMA StartedOrder ==
  ASSUME JobsInv, OrderInv, Started \/ Reported
  PROVE  OrderInv'
<1> PICK a : a = Head(appends)
  OBVIOUS
<1> PICK s : s = a.source
  OBVIOUS
<1>1. /\ appends # <<>> /\ a.by \in {"run", "report"} /\ jobs' = With(a)
      /\ appends' = Tail(appends) /\ UNCHANGED pending
  BY DEF Started, Reported, Lands
<1>2. ~ByNew(a) /\ s \in Sources /\ drain \in [Sources -> Drains] /\ drain[s] \in Drains
  BY <1>1, HeadIs, TypesAre DEF ByNew
<1>3. drain[s].pc # "idle"
  <2>1. RecordOK(jobs, pending, drain, a)
    BY <1>1, HeadIs
  <2> QED BY <1>1, <2>1 DEF RecordOK, ByDrain, Awaits
<1>4. \E new : /\ new.pc # "idle" /\ new.own = drain[s].own /\ new.shared = drain[s].shared
               /\ drain' = [drain EXCEPT ![s] = new]
  <2> PICK d : d = drain[s]
    OBVIOUS
  <2>1. CASE Started
    <3> PICK g : g = IF jobGrants[a.job] # NoGrant THEN jobGrants[a.job] ELSE batchGrants[a.batch]
      OBVIOUS
    <3>1. PICK new : new = [d EXCEPT !.pc = "planning", !.grant = g]
      OBVIOUS
    <3>2. new.pc # "idle" /\ new.own = d.own /\ new.shared = d.shared
      BY <1>2, <3>1 DEF Drains
    <3>3. drain' = [drain EXCEPT ![s].pc = "planning", ![s].grant = g]
      BY <2>1 DEF Started
    <3>4. drain' = [drain EXCEPT ![s] = new]
      BY <1>2, <3>1, <3>3
    <3> QED BY <3>2, <3>4
  <2>2. CASE Reported
    <3>1. PICK new : new = [d EXCEPT !.pc = "mutating"]
      OBVIOUS
    <3>2. new.pc # "idle" /\ new.own = d.own /\ new.shared = d.shared
      BY <1>2, <3>1 DEF Drains
    <3>3. drain' = [drain EXCEPT ![s] = new]
      BY <1>2, <2>2, <3>1 DEF Reported
    <3> QED BY <3>2, <3>3
  <2> QED BY <2>1, <2>2
<1>5. \A t \in Sources : Line(pending', drain', t) = Line(pending, drain, t)
  BY <1>1, <1>2, <1>3, <1>4, MoveLines
<1>6. Goes(jobs, appends, jobs', appends') /\ Len(jobs') \in Nat
  BY <1>1, <1>2, LandsGoes
<1> QED BY <1>1, <1>5, <1>6, OrderStays

LEMMA EndsOrder ==
  ASSUME JobsInv, OrderInv, NEW s \in Sources, drain[s].pc # "idle", NEW state, NEW error,
         Ends(s, state, error), UNCHANGED <<jobs, pending>>
  PROVE  OrderInv'
<1>1. drain[s] \in Drains /\ drain \in [Sources -> Drains]
  BY TypesAre
<1> PICK new : new = [drain[s] EXCEPT !.pc = "finishing"]
  OBVIOUS
<1>2. new.pc # "idle" /\ new.own = drain[s].own /\ new.shared = drain[s].shared
  BY <1>1 DEF Drains
<1>3. drain' = [drain EXCEPT ![s] = new] /\ \E n : appends' = Append(appends, n)
  BY <1>1 DEF Ends
<1>4. \A t \in Sources : Line(pending', drain', t) = Line(pending, drain, t)
  BY <1>2, <1>3, MoveLines
<1> QED BY <1>3, <1>4, CallsOrder

LEMMA PlanOrder ==
  ASSUME JobsInv, OrderInv, NEW s \in Sources, Plan(s)
  PROVE  OrderInv'
<1>1. drain[s].pc = "planning" /\ UNCHANGED <<jobs, pending>>
  BY DEF Plan
<1>2. drain[s] \in Drains /\ drain \in [Sources -> Drains]
  BY TypesAre
<1>3. CASE \E state, error : Ends(s, state, error)
  BY <1>1, <1>3, EndsOrder
<1>4. CASE \E pc \in {"mutating", "reporting"} :
             /\ drain' = [drain EXCEPT ![s].pc = pc, ![s].rev = revision]
             /\ UNCHANGED appends \/ \E n : appends' = Append(appends, n)
  <2>1. PICK pc \in {"mutating", "reporting"} :
             /\ drain' = [drain EXCEPT ![s].pc = pc, ![s].rev = revision]
             /\ UNCHANGED appends \/ \E n : appends' = Append(appends, n)
    BY <1>4
  <2>2. PICK new : new = [drain[s] EXCEPT !.pc = pc, !.rev = revision]
    OBVIOUS
  <2>3. new.pc # "idle" /\ new.own = drain[s].own /\ new.shared = drain[s].shared
    BY <1>2, <2>2 DEF Drains
  <2>4. drain' = [drain EXCEPT ![s] = new]
    BY <1>2, <2>1, <2>2
  <2>5. \A t \in Sources : Line(pending', drain', t) = Line(pending, drain, t)
    BY <1>1, <2>3, <2>4, MoveLines
  <2> QED BY <1>1, <2>1, <2>5, CallsOrder
<1> QED BY <1>3, <1>4 DEF Plan, Throws

LEMMA MutateOrder ==
  ASSUME JobsInv, OrderInv, NEW s \in Sources, Mutate(s)
  PROVE  OrderInv'
<1>1. drain[s].pc # "idle" /\ UNCHANGED <<jobs, pending>>
  BY DEF Mutate
<1>2. \E state, error : Ends(s, state, error)
  BY DEF Mutate, Throws
<1> QED BY <1>1, <1>2, EndsOrder

\* Where an array of the queue's begins.
LEMMA LineIn ==
  ASSUME NEW js, NEW o, NEW p, NEW d, NEW a, QueueOK(js, o, p, d, a), NEW s \in Sources
  PROVE  /\ Len(js) \in Nat /\ p[s] \in Seq(Nat) /\ Line(p, d, s) \in Seq(Nat)
         /\ Line(p, d, s) # <<>> => Head(Line(p, d, s)) \in 1..(Len(js) + 1)
<1> PICK line : line = Line(p, d, s)
  OBVIOUS
<1>1. js \in Seq(Job) /\ Len(js) \in Nat /\ p[s] \in Seq(Nat) /\ d[s] \in Drains
  <2>1. js \in Seq(Job)
    BY DEF QueueOK, QueueTypes
  <2> QED BY <2>1 DEF QueueOK, QueueTypes
<1>2. line \in Seq(Nat) /\ OfSource(js, s, line)
  BY <1>1 DEF QueueOK, ArraysOK, Line, HeldOf, Drains
<1>3. line # <<>> => Head(line) \in 1..(Len(js) + 1)
  BY <1>1, <1>2 DEF OfSource
<1> QED BY <1>1, <1>2, <1>3

\* A drain goes on with its array, or ends.
InLine(js, p, d, a) == \A t \in Sources : LineOK(js, a, t, p[t], Line(p, d, t))

LEMMA AdvanceOrder ==
  ASSUME NEW js, NEW a, QueueOK(js, order, pending, drain, a), NEW s \in Sources,
         drain[s].pc # "idle", js[At(pending, drain, s)].state \notin {"queued", "running"},
         NoneOf(a, s), Advance(s, js, a), InLine(js, pending, drain, a)
  PROVE  InLine(js, pending', drain', appends')
<1> PICK rest : rest = Tail(HeldOf(pending, drain, s))
  OBVIOUS
<1>1. rest = Tail(Held(s))
  BY DEF Held, HeldOf
<1> PICK p2 : p2 = IF drain[s].shared THEN [pending EXCEPT ![s] = rest] ELSE pending
  OBVIOUS
<1>2. /\ pending \in [Sources -> Seq(Nat)] /\ drain \in [Sources -> Drains] /\ drain[s] \in Drains
      /\ a \in Seq(Notes)
  BY DEF QueueOK, QueueTypes
<1>3. p2[s] = (IF drain[s].shared THEN rest ELSE pending[s]) /\ \A t \in Sources : t # s => p2[t] = pending[t]
  BY <1>2
<1>4. CASE rest = <<>>
  <2> PICK o2 : o2 = IF p2[s] = <<>> THEN Without(order, s) ELSE order
    OBVIOUS
  <2> PICK d2 : d2 = [drain EXCEPT ![s] = Asleep]
    OBVIOUS
  <2>1. QueueOK(js, o2, p2, d2, a)
    BY <1>4, EndKeeps
  <2>2. Schedule(o2, p2, d2, a, js, <<>>)
    BY <1>1, <1>4 DEF Advance, Frees, Leftover, Kept
  <2>3. <<>> \in Seq(Notes) /\ AllNew(<<>>)
    BY DEF AllNew
  <2>4. d2[s].pc = "idle" /\ \A t \in Sources : t # s => d2[t] = drain[t]
    BY <1>2 DEF Asleep
  <2>5. Rising(p2[s])
    <3>1. Rising(pending[s]) /\ Rising(<<>>)
      BY DEF InLine, LineOK, Rising
    <3> QED BY <1>3, <1>4, <3>1
  <2>6. LineOK(js, a, s, p2[s], Line(p2, d2, s))
    BY <2>1, <2>4, <2>5, IdleLine
  <2>7. \A t \in Sources : LineOK(js, a, t, p2[t], Line(p2, d2, t))
    BY <1>3, <2>4, <2>6 DEF InLine, Line
  <2>8. \A t \in Sources : LineOK(js, appends', t, pending'[t], Line(pending', drain', t))
    BY <2>1, <2>2, <2>3, <2>7, ScheduleOrder
  <2> QED BY <2>8 DEF InLine
<1>5. CASE rest # <<>>
  <2>1. /\ pending' = p2
        /\ drain' = [drain EXCEPT ![s].pc = Begins(js, Head(rest)), ![s].grant = NoGrant,
                                  ![s].own = IF drain[s].shared THEN <<>> ELSE rest]
    BY <1>1, <1>5 DEF Advance
  <2> PICK own : own = IF drain[s].shared THEN <<>> ELSE rest
    OBVIOUS
  <2> PICK x : x = drain[s]
    OBVIOUS
  <2> PICK y : y = [x EXCEPT !.pc = Begins(js, Head(rest)), !.grant = NoGrant, !.own = own]
    OBVIOUS
  <2>2. drain'[s] = y /\ \A t \in Sources : t # s => drain'[t] = drain[t]
    BY <1>2, <2>1
  <2>3. y.pc # "idle" /\ y.shared = x.shared /\ y.own = own
    <3>1. y.pc = Begins(js, Head(rest)) /\ y.shared = x.shared /\ y.own = own
      BY <1>2 DEF Drains
    <3> QED BY <3>1 DEF Begins
  <2> PICK line : line = Line(pending, drain, s)
    OBVIOUS
  <2>4. line = HeldOf(pending, drain, s) /\ rest = Tail(line) /\ (drain[s].shared => line = pending[s])
    BY DEF Line, HeldOf
  <2>5. Line(pending', drain', s) = rest
    BY <1>3, <2>1, <2>2, <2>3 DEF Line
  <2>6. LineOK(js, a, s, p2[s], rest)
    <3>1. line \in Seq(Nat) /\ NoRunOf(a, s) /\ line # <<>>
      <4>1. line \in Seq(Nat)
        BY LineIn
      <4>2. line # <<>>
        BY <2>4 DEF QueueOK, ArraysOK
      <4> QED BY <4>1, <4>2 DEF NoneOf, NoRunOf, RunOf, ByDrain
    <3>2. js[Head(line)].state # "queued" /\ LineOK(js, a, s, pending[s], line)
      BY <2>4 DEF At, InLine
    <3> PICK list : list = IF drain[s].shared THEN Tail(line) ELSE pending[s]
      OBVIOUS
    <3>3. (drain[s].shared => line = pending[s]) /\ Tail(line) # <<>>
      BY <1>5, <2>4
    <3>4. LineOK(js, a, s, list, Tail(line))
      BY <3>1, <3>2, <3>3, NextLine
    <3> QED BY <1>3, <2>4, <3>4
  <2>7. QueueOK(js, order', pending', drain', appends') /\ Adds(a, appends', <<>>)
    BY AdvanceKeeps
  <2>8. Goes(js, a, js, appends')
    <3>1. <<>> \in Seq(Notes)
      OBVIOUS
    <3> QED BY <1>2, <2>7, <3>1, AddsGoes
  <2>9. ASSUME NEW t \in Sources
        PROVE  LineOK(js, appends', t, pending'[t], Line(pending', drain', t))
    <3>1. LineOK(js, a, t, pending'[t], Line(pending', drain', t))
      <4>1. CASE t = s
        BY <2>1, <2>5, <2>6, <4>1
      <4>2. CASE t # s
        <5>1. drain'[t] = drain[t] /\ pending'[t] = pending[t]
          BY <1>3, <2>1, <2>2, <4>2
        <5>2. Line(pending', drain', t) = Line(pending, drain, t)
          BY <5>1 DEF Line
        <5> QED BY <5>1, <5>2 DEF InLine
      <4> QED BY <4>1, <4>2
    <3> QED BY <2>7, <2>8, <3>1, LineIn, LineStays
  <2> QED BY <2>9 DEF InLine
<1> QED BY <1>4, <1>5

LEMMA FinishedOrder ==
  ASSUME JobsInv, OrderInv, Finished
  PROVE  OrderInv'
<1> PICK a : a = Head(appends)
  OBVIOUS
<1> PICK s : s = a.source
  OBVIOUS
<1>1. /\ appends # <<>> /\ a.by = "finish" /\ jobs' = With(a) /\ Advance(s, With(a), Tail(appends))
  BY DEF Finished, Lands
<1>2. /\ RecordOK(jobs, pending, drain, a) /\ s \in Sources /\ a \in Notes
      /\ Tail(appends) \in Seq(Notes) /\ appends \in Seq(Notes)
  BY <1>1, HeadIs, TypesAre
<1>3. /\ ~ByNew(a) /\ ByDrain(a) /\ a.state \notin {"queued", "running"}
      /\ a.job = At(pending, drain, s) /\ drain[s].pc = "finishing"
  BY <1>1, <1>2 DEF RecordOK, ByNew, ByDrain, Awaits
<1>4. /\ Relabelled(jobs, jobs', a) /\ Goes(jobs, appends, jobs', Tail(appends))
      /\ Len(jobs') \in Nat
  BY <1>1, <1>3, LandsGoes
<1>5. QueueOK(jobs', order, pending, drain, Tail(appends))
  BY <1>1, <1>3, <1>4, SettleKeeps DEF JobsInv, QueueInv
<1>6. NoneOf(Tail(appends), s)
  <2>1. RecordsOK(jobs, pending, drain, appends) /\ AloneOK(appends)
    BY DEF JobsInv, QueueInv, QueueOK
  <2>2. \A i \in 1..Len(Tail(appends)) :
          ByDrain(Tail(appends)[i]) => Tail(appends)[i].source # a.source
    BY <1>1, <1>2, <1>3, <2>1, RecordsTail
  <2> QED BY <2>2 DEF NoneOf
<1>7. jobs'[At(pending, drain, s)].state \notin {"queued", "running"}
  BY <1>3, <1>4 DEF Relabelled
<1>8. ASSUME NEW t \in Sources
      PROVE  LineOK(jobs', Tail(appends), t, pending[t], Line(pending, drain, t))
  <2> PICK line : line = Line(pending, drain, t)
    OBVIOUS
  <2>1. /\ LineOK(jobs, appends, t, pending[t], line) /\ Len(jobs) \in Nat
        /\ line # <<>> => Head(line) \in 1..(Len(jobs) + 1)
    BY LinesAre DEF OrderInv
  <2> QED BY <1>4, <2>1, LineStays
<1>9. InLine(jobs', pending, drain, Tail(appends))
  BY <1>8 DEF InLine
<1>10. Advance(s, jobs', Tail(appends)) /\ drain[s].pc # "idle"
  BY <1>1, <1>3
<1>11. InLine(jobs', pending', drain', appends')
  BY <1>2, <1>5, <1>6, <1>7, <1>9, <1>10, AdvanceOrder
<1> QED BY <1>11 DEF InLine, OrderInv

LEMMA SkipOrder ==
  ASSUME JobsInv, OrderInv, NEW s \in Sources, Skip(s)
  PROVE  OrderInv'
<1>1. drain[s].pc = "skipping" /\ Advance(s, jobs, appends) /\ UNCHANGED jobs
  BY DEF Skip
<1>2. /\ QueueOK(jobs, order, pending, drain, appends) /\ PassedOK(jobs, pending, drain)
      /\ DrivenOK(jobs, pending, drain) /\ RecordsOK(jobs, pending, drain, appends)
  BY DEF JobsInv, QueueInv, QueueOK
<1>3. At(pending, drain, s) \in 1..Len(jobs) /\ jobs[At(pending, drain, s)].source = s
  BY <1>1, CurrentIs
<1>4. jobs[At(pending, drain, s)].state \notin {"queued", "running"}
  BY <1>1, <1>2, <1>3 DEF PassedOK, DrivenOK, Driving
<1>5. NoneOf(appends, s)
  BY <1>1, <1>2 DEF NoneOf, RecordsOK, RecordOK, ByDrain, Awaits
<1>6. InLine(jobs, pending, drain, appends)
  BY DEF InLine, OrderInv
<1>7. InLine(jobs, pending', drain', appends')
  BY <1>1, <1>2, <1>4, <1>5, <1>6, AdvanceOrder
<1> QED BY <1>1, <1>7 DEF InLine, OrderInv

\* After a restart every source has its queued jobs, in their order.
LEMMA RestartOrder ==
  ASSUME JobsInv, OrderInv, Restart
  PROVE  OrderInv' /\ \A j \in 1..Len(jobs') : jobs'[j].state # "running"
<1>1. PICK file, js, f, o, p, d :
        /\ file \in {jobs} \union {With(a) : a \in IF appends = <<>> THEN {} ELSE {Head(appends)}}
        /\ js = Interrupted(file) /\ f = Ascending(FirstJobs(js))
        /\ o = [k \in DOMAIN f |-> js[f[k]].source]
        /\ p = [s \in Sources |-> Ascending(QueuedAt(js, s))]
        /\ d = [s \in Sources |-> Asleep]
        /\ jobs' = js /\ Schedule(o, p, d, <<>>, js, <<>>)
  BY RestartIs
<1> /\ file \in {jobs} \union {With(a) : a \in IF appends = <<>> THEN {} ELSE {Head(appends)}}
    /\ js = Interrupted(file) /\ f = Ascending(FirstJobs(js))
    /\ o = [k \in DOMAIN f |-> js[f[k]].source]
    /\ p = [s \in Sources |-> Ascending(QueuedAt(js, s))]
    /\ d = [s \in Sources |-> Asleep]
  BY <1>1
<1>2. jobs' = js /\ Schedule(o, p, d, <<>>, js, <<>>)
  BY <1>1
<1>3. js \in Seq(Job) /\ Len(js) \in Nat /\ \A j \in 1..Len(js) : js[j].state # "running"
  BY FoundIs
<1>4. QueueOK(js, o, p, d, <<>>)
  BY <1>3, RestoredKeeps
<1>5. <<>> \in Seq(Notes) /\ AllNew(<<>>)
  BY DEF AllNew
<1>6. ASSUME NEW s \in Sources PROVE LineOK(js, <<>>, s, p[s], Line(p, d, s))
  <2> PICK S : S = QueuedAt(js, s)
    OBVIOUS
  <2>1. S \subseteq Nat /\ IsFiniteSet(S)
    <3>1. IsFiniteSet(1..Len(js)) /\ DOMAIN js = 1..Len(js)
      BY <1>3, FS_Interval
    <3>2. S \in SUBSET (1..Len(js))
      BY <3>1 DEF QueuedAt
    <3> QED BY <3>1, <3>2, FS_Subset
  <2>2. Rising(Ascending(S))
    BY <2>1, Ascends DEF Rising
  <2>3. Rising(p[s]) /\ d[s].pc = "idle"
    BY <2>2 DEF Asleep
  <2> QED BY <1>4, <2>3, IdleLine
<1>7. \A s \in Sources : LineOK(js, appends', s, pending'[s], Line(pending', drain', s))
  BY <1>2, <1>4, <1>5, <1>6, ScheduleOrder
<1> QED BY SMTT(90), <1>2, <1>3, <1>7 DEF OrderInv

LEMMA RetriedJoins ==
  ASSUME Retried
  PROVE  Joined
<1>1. <<>> \in Seq(Notes) /\ AllNew(<<>>) /\ NoRetries(<<>>)
  BY DEF AllNew, NoRetries
<1> QED BY <1>1 DEF Joined, Retried, Lands, ByNew

LEMMA OrderKept ==
  ASSUME JobsInv, IdleOK(requests), OrderInv, [Next]_vars
  PROVE  OrderInv'
<1>1. CASE UNCHANGED <<jobs, pending, drain>> /\ (UNCHANGED appends \/ \E n : appends' = Append(appends, n))
  <2>1. \A s \in Sources : Line(pending', drain', s) = Line(pending, drain, s)
    BY <1>1
  <2> QED BY <1>1, <2>1, CallsOrder
<1>2. CASE \E r \in Requests : Start(r) \/ \E j \in JobIds : Confirm(r, j)
  BY ZenonT(90), <1>1, <1>2 DEF Start, Confirm, QueueBatch
<1>3. ASSUME NEW j \in JobIds, Retry(j) \/ Cancel(j) PROVE OrderInv'
  BY <1>1, <1>3, CancelOrder, StepKeeps DEF Retry, Next
<1>4. CASE AppendLands
  <2>1. CASE Enqueued
    BY <2>1, EnqueuedKeeps, NewOrder
  <2>2. CASE Retried
    BY <2>2, RetriedJoins, NewOrder
  <2> QED BY <1>4, <2>1, <2>2, CancelledOrder, StartedOrder, FinishedOrder DEF AppendLands
<1>5. CASE \E s \in Sources : Works(s)
  BY <1>5, PlanOrder, MutateOrder, SkipOrder DEF Works
<1>6. CASE Restart
  BY <1>6, RestartOrder
<1>7. CASE Serve \/ EditConfig \/ UNCHANGED vars
  BY <1>1, <1>7 DEF Serve, EditConfig, vars
<1> QED BY <1>2, <1>3, <1>4, <1>5, <1>6, <1>7 DEF Next

LEMMA OrderStarts ==
  ASSUME Init
  PROVE  OrderInv
<1> SUFFICES ASSUME NEW s \in Sources
             PROVE  LineOK(jobs, appends, s, pending[s], Line(pending, drain, s))
  BY DEF OrderInv
<1>1. pending[s] = <<>> /\ Line(pending, drain, s) = <<>>
  BY DEF Init, Line, Asleep
<1> QED BY <1>1 DEF LineOK, Rising, Beside, PastOK

\* The arrays of every source are in order, and what a drain has passed is gone.
THEOREM OrderHolds == Spec => []OrderInv
<1>1. Init => OrderInv
  BY OrderStarts
<1>2. JobsInv /\ IdleOK(requests) /\ OrderInv /\ [Next]_vars => OrderInv'
  BY OrderKept
<1> QED BY <1>1, <1>2, JobsHold, PTL DEF Spec

\* When the record of its start is the next to land, no earlier job of its source
\* waits or runs.
LEMMA RunIsFirst ==
  ASSUME JobsInv, OrderInv, appends # <<>>, Head(appends).by = "run",
         NEW i \in 1..Len(jobs), i < Head(appends).job,
         jobs[i].source = jobs[Head(appends).job].source
  PROVE  jobs[i].state \notin {"queued", "running"}
<1> PICK a : a = Head(appends)
  OBVIOUS
<1> PICK s : s = a.source
  OBVIOUS
<1>1. /\ appends \in Seq(Notes) /\ a \in Notes /\ RecordOK(jobs, pending, drain, a)
      /\ s \in Sources
  BY HeadIs, TypesAre
<1>2. /\ s = jobs[a.job].source /\ drain[s].pc = "starting" /\ a.job = At(pending, drain, s)
  BY <1>1 DEF RecordOK, ByNew, ByDrain, Awaits
<1>3. jobs[i].state # "running"
  BY <1>2 DEF JobsInv, QueueInv, QueueOK, DrivenOK, Driving
<1>4. ASSUME jobs[i].state = "queued" PROVE FALSE
  <2> PICK line : line = Line(pending, drain, s)
    OBVIOUS
  <2>1. line # <<>> /\ Head(line) = a.job
    BY <1>1, <1>2, LinesAre DEF At
  <2>2. PastOK(jobs, appends, s, line)
    BY <1>1 DEF OrderInv, LineOK
  <2>3. QueuedOf(jobs, s, i)
    BY <1>2, <1>4 DEF QueuedOf
  <2>4. Gone(appends, s, i)
    BY <2>1, <2>2, <2>3 DEF PastOK
  <2>5. Len(appends) \in Nat /\ 1 \in 1..Len(appends) /\ appends[1] = a
    BY <1>1
  <2>6. RunOf(appends[1], s)
    BY <2>5 DEF RunOf
  <2> QED BY <2>4, <2>5, <2>6 DEF Gone
<1> QED BY <1>3, <1>4

\* A restart forgets no job.
LEMMA RestartKeepsJobs ==
  ASSUME JobsInv, Restart
  PROVE  Len(jobs) \in Nat /\ Len(jobs') \in Nat /\ Len(jobs) <= Len(jobs')
<1>1. PICK file \in {jobs} \union {With(a) : a \in IF appends = <<>> THEN {} ELSE {Head(appends)}} :
        jobs' = Interrupted(file)
  BY ZenonT(90) DEF Restart
<1>2. file \in Seq(Job) /\ Len(jobs) \in Nat /\ Len(jobs) <= Len(file)
  <2>1. CASE file = jobs
    BY <2>1, TypesAre
  <2>2. CASE appends # <<>> /\ file = With(Head(appends)) /\ ByNew(Head(appends))
    BY <2>2, NewJoins, TypesAre
  <2>3. CASE appends # <<>> /\ file = With(Head(appends)) /\ ~ByNew(Head(appends))
    <3>1. Relabelled(jobs, file, Head(appends))
      BY <2>3, HeadIs, TypesAre, WithKnown
    <3> QED BY <3>1, TypesAre DEF Relabelled
  <2> QED BY <2>1, <2>2, <2>3
<1>3. jobs' \in Seq(Job) /\ DOMAIN jobs' = DOMAIN file
  BY <1>1, FoundIs DEF Interrupted
<1> QED BY <1>2, <1>3

\* A job that starts running is the one whose start was the next record to land.
LEMMA StartLands ==
  ASSUME JobsInv, OrderInv, [Next]_vars, NEW j \in 1..Len(jobs),
         jobs[j].state = "queued", jobs'[j].state = "running"
  PROVE  appends # <<>> /\ Head(appends).by = "run" /\ Head(appends).job = j
<1>1. jobs' # jobs
  OBVIOUS
<1>2. AppendLands \/ Restart
  BY ZenonT(90), <1>1 DEF Next, vars, Start, Confirm, QueueBatch, Retry, Cancel, Works, Plan, Mutate, Skip,
              Serve, EditConfig
<1>3. ~Restart
  <2> SUFFICES ASSUME Restart PROVE FALSE
    OBVIOUS
  <2>1. \A k \in 1..Len(jobs') : jobs'[k].state # "running"
    BY RestartOrder
  <2>2. Len(jobs') >= Len(jobs) /\ Len(jobs') \in Nat /\ Len(jobs) \in Nat
    BY RestartKeepsJobs
  <2> QED BY <2>1, <2>2
<1>4. appends # <<>> /\ jobs' = With(Head(appends))
  BY ZenonT(90), <1>2, <1>3 DEF AppendLands, Enqueued, Retried, Cancelled, Started, Reported, Finished, Lands
<1>5. ~ByNew(Head(appends))
  BY <1>4, NewJoins
<1> PICK a : a = Head(appends)
  OBVIOUS
<1>6. Relabelled(jobs, jobs', a)
  BY <1>4, <1>5, LandsGoes
<1>7. a.job = j /\ a.state = "running"
  BY <1>6 DEF Relabelled
<1>8. a \in Notes /\ RecordOK(jobs, pending, drain, a) /\ a.source \in Sources
  BY <1>4, HeadIs
<1>9. a.by \in {"run", "report"}
  BY <1>5, <1>7, <1>8 DEF RecordOK, Notes, ByNew
<1>10. a.by # "report"
  BY <1>7, <1>8 DEF RecordOK, ByDrain, Awaits, JobsInv, QueueInv, QueueOK, PassedOK
<1> QED BY <1>4, <1>7, <1>9, <1>10

\* The jobs of a source start in the order they were enqueued: when one starts,
\* none enqueued before it waits or runs (processSource, dropPending, recover).
THEOREM StartsInOrder == Spec => InOrder
<1>1. JobsInv /\ OrderInv /\ [Next]_vars =>
        [\A j \in DOMAIN jobs : jobs[j].state = "queued" /\ jobs'[j].state = "running" =>
           \A i \in DOMAIN jobs : i < j /\ jobs[i].source = jobs[j].source
                                    => jobs[i].state \notin {"queued", "running"}]_vars
  <2> SUFFICES ASSUME JobsInv, OrderInv, [Next]_vars,
                      NEW j \in DOMAIN jobs, jobs[j].state = "queued", jobs'[j].state = "running",
                      NEW i \in DOMAIN jobs, i < j, jobs[i].source = jobs[j].source
               PROVE  jobs[i].state \notin {"queued", "running"}
    OBVIOUS
  <2>1. i \in 1..Len(jobs) /\ j \in 1..Len(jobs)
    BY TypesAre
  <2>2. appends # <<>> /\ Head(appends).by = "run" /\ Head(appends).job = j
    BY <2>1, StartLands
  <2> QED BY <2>1, <2>2, RunIsFirst
<1> QED BY <1>1, JobsHold, OrderHolds, PTL DEF Spec, InOrder

-----------------------------------------------------------------------------
(* Trust: a job of a confirmed request finds the confirmation when it starts. *)

\* A batch no job is in yet: its request was not made, or has made none.
Unmade(rs, r) ==
  rs[r].pc = "idle" \/ (rs[r].todo # <<>> /\ rs[r].made = {} /\ rs[r].batch = r)
Seen(js, a, b) ==
  \/ \E j \in 1..Len(js) : js[j].batch = b
  \/ \E n \in ToSet(a) : n.by = "retry" /\ n.batch = b
UnmadeOK(js, a, rs) ==
  \A r \in Requests : Unmade(rs, r) =>
    ~Seen(js, a, r) /\ \A q \in Requests : q # r => rs[q].batch # r
\* A request that joins another's batch makes one job.
SingleOK(rs) ==
  \A r \in Requests : rs[r].batch # r =>
    Len(rs[r].todo) <= 1 /\ (rs[r].todo # <<>> => rs[r].made = {})
FirstGrantOK(rs, bg) ==
  \A r \in Requests : Unmade(rs, r) /\ rs[r].grant # NoGrant => bg[r] # NoGrant
BatchInv ==
  UnmadeOK(jobs, appends, requests) /\ SingleOK(requests) /\ FirstGrantOK(requests, batchGrants)

NoCancels(a)      == \A n \in ToSet(a) : n.by # "cancel"
RunsQueued(js, a) == \A n \in ToSet(a) : n.by = "run" => js[n.job].state = "queued"
\* A record that sends a job back for the confirmation.
AsksFor(n, j) == n.by = "finish" /\ n.job = j /\ n.state = "awaiting" /\ n.error = "confirm"
Trusted(r, j) ==
  /\ jobs[j].state = "queued" =>
       IF requests[r].todo = <<>> THEN jobGrants[j] # NoGrant
                                  ELSE batchGrants[requests[r].batch] # NoGrant
  /\ \A s \in Sources :
       drain[s].pc = "planning" /\ At(pending, drain, s) = j => drain[s].grant # NoGrant
  /\ \A n \in ToSet(appends) : ~AsksFor(n, j)
  /\ ~Asked(j)
AllTrusted ==
  \A r \in Requests : requests[r].grant # NoGrant =>
    \A j \in requests[r].made : FirstOrLast(r, j) => Trusted(r, j)
TrustInv ==
  BatchInv /\ (cancels = 0 => NoCancels(appends) /\ RunsQueued(jobs, appends) /\ AllTrusted)

LEMMA SetIs ==
  ASSUME NEW T, NEW list \in Seq(T)
  PROVE  /\ \A x : x \in ToSet(list) <=> Contains(list, x)
         /\ \A i \in 1..Len(list) : list[i] \in ToSet(list)
         /\ \A x \in ToSet(list) : x \in T /\ \E i \in 1..Len(list) : list[i] = x
<1>1. DOMAIN list = 1..Len(list)
  OBVIOUS
<1> QED BY <1>1 DEF ToSet, Contains

LEMMA TailSet ==
  ASSUME NEW a \in Seq(Notes), a # <<>>
  PROVE  /\ Head(a) \in ToSet(a) /\ ToSet(Tail(a)) \subseteq ToSet(a)
<1>1. Tail(a) \in Seq(Notes) /\ \A x : Contains(a, x) <=> x = Head(a) \/ Contains(Tail(a), x)
  BY TailOf
<1>2. \A x : x \in ToSet(a) <=> Contains(a, x)
  BY SetIs
<1>3. \A x : x \in ToSet(Tail(a)) <=> Contains(Tail(a), x)
  BY <1>1, SetIs
<1> QED BY <1>1, <1>2, <1>3

LEMMA OneMoreSet ==
  ASSUME NEW a \in Seq(Notes), NEW n
  PROVE  \A x : x \in ToSet(Append(a, n)) <=> x \in ToSet(a) \/ x = n
<1> PICK f : f = Append(a, n)
  OBVIOUS
<1>1. /\ Len(a) \in Nat /\ DOMAIN f = 1..(Len(a) + 1) /\ f[Len(a) + 1] = n
      /\ DOMAIN a = 1..Len(a) /\ \A i \in 1..Len(a) : f[i] = a[i]
  OBVIOUS
<1>2. \A x : x \in ToSet(f) => x \in ToSet(a) \/ x = n
  BY <1>1 DEF ToSet
<1>3. n \in ToSet(f) /\ \A x : x \in ToSet(a) => x \in ToSet(f)
  BY <1>1 DEF ToSet
<1> QED BY <1>2, <1>3

LEMMA JoinSet ==
  ASSUME NEW a \in Seq(Notes), NEW b \in Seq(Notes)
  PROVE  \A x : x \in ToSet(a \o b) <=> x \in ToSet(a) \/ x \in ToSet(b)
<1>1. a \o b \in Seq(Notes) /\ \A x : Contains(a \o b, x) <=> Contains(a, x) \/ Contains(b, x)
  BY JoinOf
<1>2. \A x : x \in ToSet(a \o b) <=> Contains(a \o b, x)
  BY <1>1, SetIs
<1>3. \A x : (x \in ToSet(a) <=> Contains(a, x)) /\ (x \in ToSet(b) <=> Contains(b, x))
  BY SetIs
<1> QED BY <1>1, <1>2, <1>3

\* What an array's start calls for: runs of jobs that are queued.
Calls(js, a, a2, later) ==
  \A n \in ToSet(a2) : \/ n \in ToSet(a) \/ n \in ToSet(later)
                       \/ n.by = "run" /\ js[n.job].state = "queued"

LEMMA RunsCalled ==
  ASSUME NEW js \in Seq(Job), NEW a \in Seq(Notes), NEW later \in Seq(Notes),
         NEW list \in Seq(Nat), \A i \in 1..Len(list) : list[i] \in 1..Len(js)
  PROVE  Calls(js, a, (a \o RunRecords(js, list)) \o later, later)
<1> PICK recs : recs = RunRecords(js, list)
  OBVIOUS
<1>1. /\ recs \in Seq(Notes)
      /\ \A i \in 1..Len(recs) : \E k \in 1..Len(list) :
           recs[i] = RunRecord(js, list[k]) /\ js[list[k]].state = "queued"
  BY RunRecordsAre
<1>2. \A n \in ToSet(recs) : n.by = "run" /\ js[n.job].state = "queued"
  <2> SUFFICES ASSUME NEW n \in ToSet(recs) PROVE n.by = "run" /\ js[n.job].state = "queued"
    OBVIOUS
  <2>1. PICK i \in 1..Len(recs) : recs[i] = n
    BY SMTT(90), <1>1, SetIs
  <2>2. PICK k \in 1..Len(list) : n = RunRecord(js, list[k]) /\ js[list[k]].state = "queued"
    BY <1>1, <2>1
  <2>3. n.by = "run" /\ n.job = list[k]
    BY <2>2 DEF RunRecord
  <2> QED BY <2>2, <2>3
<1>3. a \o recs \in Seq(Notes)
  BY <1>1
<1>4. \A n : n \in ToSet((a \o recs) \o later) => n \in ToSet(a) \/ n \in ToSet(recs) \/ n \in ToSet(later)
  BY <1>1, <1>3, JoinSet
<1> QED BY <1>2, <1>4 DEF Calls

LEMMA OneOf ==
  ASSUME NEW T, NEW x \in T
  PROVE  <<x>> \in Seq(T) /\ \A i \in 1..Len(<<x>>) : <<x>>[i] = x
OBVIOUS

LEMMA ScheduleCalls ==
  ASSUME NEW js, NEW o, NEW p, NEW d, NEW a, QueueOK(js, o, p, d, a),
         NEW later \in Seq(Notes), Schedule(o, p, d, a, js, later)
  PROVE  Calls(js, a, appends', later)
<1> DEFINE chosen == Chosen(o, d)
<1>1. QueueTypes(js, o, p, d, a) /\ KeysOK(o, p) /\ SlotsOK(d) /\ ArraysOK(js, p, d)
  BY DEF QueueOK
<1>2. Slots(d) \in Nat
  BY <1>1, FS_CardinalityType, JobsAssumption DEF SlotsOK, Slots, ActiveIn
<1>3. /\ chosen \in Seq(Sources)
      /\ \A i \in 1..Len(chosen) : chosen[i] \in Sources /\ d[chosen[i]].pc = "idle" /\ p[chosen[i]] # <<>>
  <2>1. o \in Seq(Sources)
    BY <1>1 DEF QueueTypes
  <2> QED BY ZenonT(90), <1>1, <1>2, <2>1, ChosenAre
<1> PICK heads : heads = [i \in DOMAIN chosen |-> Head(p[chosen[i]])]
  OBVIOUS
<1>4. appends' = (a \o RunRecords(js, heads)) \o later
  BY DEF Schedule
<1> HIDE DEF chosen
<1>5. \A s \in Sources : p[s] # <<>> => Head(p[s]) \in Nat /\ Head(p[s]) \in 1..Len(js)
  <2> SUFFICES ASSUME NEW s \in Sources, p[s] # <<>>
               PROVE  Head(p[s]) \in Nat /\ Head(p[s]) \in 1..Len(js)
    OBVIOUS
  <2>1. p[s] \in Seq(Nat)
    BY <1>1 DEF QueueTypes
  <2>2. 1 \in 1..Len(p[s]) /\ Head(p[s]) = p[s][1]
    BY <2>1
  <2> QED BY <1>1, <2>1, <2>2 DEF ArraysOK, OfSource
<1>6. heads \in Seq(Nat) /\ \A i \in 1..Len(heads) : heads[i] \in 1..Len(js)
  <2>1. DOMAIN chosen = 1..Len(chosen) /\ Len(chosen) \in Nat
    BY <1>3
  <2>2. \A i \in 1..Len(chosen) : Head(p[chosen[i]]) \in Nat /\ Head(p[chosen[i]]) \in 1..Len(js)
    BY <1>3, <1>5
  <2> QED BY <2>1, <2>2
<1>7. js \in Seq(Job) /\ a \in Seq(Notes)
  BY <1>1 DEF QueueTypes
<1> QED BY <1>4, <1>6, <1>7, RunsCalled

LEMMA AdvanceCalls ==
  ASSUME NEW js, NEW a, QueueOK(js, order, pending, drain, a), NEW s \in Sources,
         drain[s].pc # "idle", js[At(pending, drain, s)].state \notin {"queued", "running"},
         NoneOf(a, s), Advance(s, js, a)
  PROVE  Calls(js, a, appends', <<>>)
<1> PICK rest : rest = Tail(HeldOf(pending, drain, s))
  OBVIOUS
<1>1. rest = Tail(Held(s))
  BY DEF Held, HeldOf
<1> PICK p2 : p2 = IF drain[s].shared THEN [pending EXCEPT ![s] = rest] ELSE pending
  OBVIOUS
<1>2. CASE rest = <<>>
  <2> PICK o2 : o2 = IF p2[s] = <<>> THEN Without(order, s) ELSE order
    OBVIOUS
  <2> PICK d2 : d2 = [drain EXCEPT ![s] = Asleep]
    OBVIOUS
  <2>1. QueueOK(js, o2, p2, d2, a)
    BY <1>2, EndKeeps
  <2>2. Schedule(o2, p2, d2, a, js, <<>>)
    BY <1>1, <1>2 DEF Advance, Frees, Leftover, Kept
  <2>3. <<>> \in Seq(Notes)
    OBVIOUS
  <2> QED BY <2>1, <2>2, <2>3, ScheduleCalls
<1>3. CASE rest # <<>>
  <2>1. js \in Seq(Job) /\ a \in Seq(Notes) /\ drain[s] \in Drains /\ pending[s] \in Seq(Nat)
        /\ HeldOf(pending, drain, s) # <<>> /\ OfSource(js, s, HeldOf(pending, drain, s))
    BY DEF QueueOK, QueueTypes, ArraysOK
  <2> PICK held : held = HeldOf(pending, drain, s)
    OBVIOUS
  <2>2. held \in Seq(Nat) /\ held # <<>>
    BY <2>1 DEF HeldOf, Drains
  <2>3. Head(rest) \in Nat /\ Head(rest) \in 1..Len(js)
    <3>1. rest \in Seq(Nat) /\ Len(rest) = Len(held) - 1
          /\ \A i \in 1..Len(rest) : i + 1 \in 1..Len(held) /\ rest[i] = held[i + 1]
      BY <2>2, TailOf
    <3>2. 1 \in 1..Len(rest) /\ Head(rest) = rest[1]
      BY <1>3, <3>1
    <3>3. Head(rest) \in Nat /\ \E i \in 1..Len(held) : Head(rest) = held[i]
      BY <3>1, <3>2
    <3> QED BY <2>1, <3>3 DEF OfSource
  <2>4. appends' = a \o RunRecords(js, <<Head(rest)>>)
    BY <1>1, <1>3 DEF Advance
  <2> PICK recs : recs = RunRecords(js, <<Head(rest)>>)
    OBVIOUS
  <2>5. <<Head(rest)>> \in Seq(Nat) /\ \A i \in 1..Len(<<Head(rest)>>) : <<Head(rest)>>[i] \in 1..Len(js)
    BY ZenonT(90), <2>3, OneOf
  <2>6. recs \in Seq(Notes)
    BY <2>1, <2>5, RunRecordsAre
  <2>7. (a \o recs) \o <<>> = a \o recs /\ <<>> \in Seq(Notes)
    BY <2>1, <2>6
  <2> QED BY <2>1, <2>4, <2>5, <2>7, RunsCalled
<1> QED BY <1>2, <1>3

\* What is on its way after a step: what was, and records of new jobs and of runs.
Came(js, a, a2) ==
  \A n \in ToSet(a2) : \/ n \in ToSet(a) \/ n.by = "enqueue"
                       \/ n.by = "run" /\ js[n.job].state = "queued"

LEMMA JoinedCame ==
  ASSUME JobsInv, Joined
  PROVE  Came(jobs', Tail(appends), appends')
<1>1. PICK later \in Seq(Notes) :
        /\ AllNew(later) /\ NoRetries(later)
        /\ appends # <<>> /\ ByNew(Head(appends)) /\ jobs' = With(Head(appends))
        /\ Schedule(Keys(Head(appends).source), Pushed(Head(appends).source, Len(jobs) + 1), drain,
                    Tail(appends), With(Head(appends)), later)
  BY DEF Joined
<1> PICK s, j : s = Head(appends).source /\ j = Len(jobs) + 1
  OBVIOUS
<1>2. QueueOK(jobs', Keys(s), Pushed(s, j), drain, Tail(appends))
  BY <1>1, NewJoins
<1>3. Calls(jobs', Tail(appends), appends', later)
  BY <1>1, <1>2, ScheduleCalls
<1>4. \A n \in ToSet(later) : n.by = "enqueue"
  BY <1>1, SetIs DEF AllNew, NoRetries, ByNew
<1> QED BY <1>3, <1>4 DEF Calls, Came

LEMMA FinishedCame ==
  ASSUME JobsInv, Finished
  PROVE  Came(jobs', Tail(appends), appends')
<1> PICK a : a = Head(appends)
  OBVIOUS
<1> PICK s : s = a.source
  OBVIOUS
<1>1. /\ appends # <<>> /\ a.by = "finish" /\ jobs' = With(a) /\ Advance(s, With(a), Tail(appends))
  BY DEF Finished, Lands
<1>2. /\ RecordOK(jobs, pending, drain, a) /\ s \in Sources /\ a \in Notes
      /\ Tail(appends) \in Seq(Notes) /\ appends \in Seq(Notes)
  BY <1>1, HeadIs, TypesAre
<1>3. /\ ~ByNew(a) /\ ByDrain(a) /\ a.state \notin {"queued", "running"}
      /\ a.job = At(pending, drain, s) /\ drain[s].pc = "finishing"
  BY <1>1, <1>2 DEF RecordOK, ByNew, ByDrain, Awaits
<1>4. Relabelled(jobs, jobs', a)
  BY <1>1, <1>3, LandsGoes
<1>5. QueueOK(jobs', order, pending, drain, Tail(appends))
  BY <1>1, <1>3, <1>4, SettleKeeps DEF JobsInv, QueueInv
<1>6. NoneOf(Tail(appends), s)
  <2>1. RecordsOK(jobs, pending, drain, appends) /\ AloneOK(appends)
    BY DEF JobsInv, QueueInv, QueueOK
  <2>2. \A i \in 1..Len(Tail(appends)) :
          ByDrain(Tail(appends)[i]) => Tail(appends)[i].source # a.source
    BY <1>1, <1>2, <1>3, <2>1, RecordsTail
  <2> QED BY <2>2 DEF NoneOf
<1>7. jobs'[At(pending, drain, s)].state \notin {"queued", "running"}
  BY <1>3, <1>4 DEF Relabelled
<1>8. Advance(s, jobs', Tail(appends)) /\ drain[s].pc # "idle"
  BY <1>1, <1>3
<1>9. Calls(jobs', Tail(appends), appends', <<>>)
  BY <1>2, <1>5, <1>6, <1>7, <1>8, AdvanceCalls
<1>10. ToSet(<<>>) = {}
  BY DEF ToSet
<1> QED BY <1>9, <1>10 DEF Calls, Came

LEMMA SkipCame ==
  ASSUME JobsInv, NEW s \in Sources, Skip(s)
  PROVE  Came(jobs, appends, appends') /\ UNCHANGED <<jobs, requests, jobGrants, batchGrants>>
<1>1. drain[s].pc = "skipping" /\ Advance(s, jobs, appends)
      /\ UNCHANGED <<jobs, requests, jobGrants, batchGrants>>
  BY DEF Skip
<1>2. /\ QueueOK(jobs, order, pending, drain, appends) /\ PassedOK(jobs, pending, drain)
      /\ DrivenOK(jobs, pending, drain) /\ RecordsOK(jobs, pending, drain, appends)
  BY DEF JobsInv, QueueInv, QueueOK
<1>3. At(pending, drain, s) \in 1..Len(jobs) /\ jobs[At(pending, drain, s)].source = s
  BY <1>1, CurrentIs
<1>4. jobs[At(pending, drain, s)].state \notin {"queued", "running"}
  BY <1>1, <1>2, <1>3 DEF PassedOK, DrivenOK, Driving
<1>5. NoneOf(appends, s)
  BY <1>1, <1>2 DEF NoneOf, RecordsOK, RecordOK, ByDrain, Awaits
<1>6. Calls(jobs, appends, appends', <<>>)
  BY <1>1, <1>2, <1>4, <1>5, AdvanceCalls
<1>7. ToSet(<<>>) = {}
  BY DEF ToSet
<1> QED BY <1>1, <1>6, <1>7 DEF Calls, Came

\* A record lands.
LEMMA LandsCame ==
  ASSUME JobsInv, AppendLands
  PROVE  /\ appends # <<>> /\ jobs' = With(Head(appends)) /\ Came(jobs', Tail(appends), appends')
<1>1. appends # <<>> /\ jobs' = With(Head(appends))
  BY ZenonT(90) DEF AppendLands, Enqueued, Retried, Cancelled, Started, Reported, Finished, Lands
<1>2. CASE Enqueued \/ Retried
  BY <1>1, <1>2, EnqueuedKeeps, RetriedJoins, JoinedCame
<1>3. CASE Cancelled \/ Started \/ Reported
  BY <1>1, <1>3 DEF Cancelled, Started, Reported, Came
<1>4. CASE Finished
  BY <1>1, <1>4, FinishedCame
<1> QED BY SMTT(90), <1>2, <1>3, <1>4 DEF AppendLands

\* The request whose turn it is.
LEMMA TurnIs ==
  ASSUME JobsInv, Enqueued, NEW r, r = Head(appends).req
  PROVE  /\ r \in Requests /\ requests[r].pc = "queueing" /\ requests[r].todo # <<>>
         /\ requests[r].todo \in Seq(Sources) /\ Head(appends).batch = requests[r].batch
         /\ requests'[r].todo = Tail(requests[r].todo)
         /\ requests'[r].made = requests[r].made \union {Len(jobs) + 1}
         /\ requests'[r].grant = requests[r].grant /\ requests'[r].batch = requests[r].batch
         /\ requests'[r].pc # "idle"
         /\ \A q \in Requests : q # r => requests'[q] = requests[q]
<1> PICK a, todo, made : /\ a = Head(appends) /\ todo = Tail(requests[r].todo)
                         /\ made = requests[r].made \union {Len(jobs) + 1}
  BY ZenonT(90)
<1>1. /\ appends # <<>> /\ a.by = "enqueue"
      /\ requests' = [requests EXCEPT ![r].todo = todo, ![r].made = made,
                                      ![r].pc = IF todo = <<>> THEN "done" ELSE @]
  BY ZenonT(90) DEF Enqueued, Lands
<1>2. /\ Called(turns, requests, a) /\ TurnsOK(turns, requests)
      /\ requests \in [Requests -> Asks] /\ turns \in Seq(Requests)
  BY <1>1, HeadIs, TypesAre DEF JobsInv, TurnsInv
<1>3. /\ r \in Requests /\ a.batch = requests[r].batch /\ requests[r].pc = "queueing"
      /\ requests[r].todo # <<>> /\ requests[r] \in Asks
  <2>1. turns # <<>> /\ r = Head(turns) /\ a.batch = requests[r].batch
    BY <1>2 DEF Called
  <2> QED BY <1>2, <2>1, TailOf DEF TurnsOK
<1> PICK ask : ask = requests[r]
  BY SMTT(90)
<1>4. requests'[r] = [ask EXCEPT !.todo = todo, !.made = made, !.pc = IF todo = <<>> THEN "done" ELSE @]
  BY ZenonT(90), <1>1, <1>2, <1>3
<1>5. /\ requests'[r].todo = todo /\ requests'[r].made = made /\ requests'[r].grant = ask.grant
      /\ requests'[r].batch = ask.batch /\ requests'[r].pc = IF todo = <<>> THEN "done" ELSE ask.pc
  BY ZenonT(90), <1>3, <1>4 DEF Asks
<1>6. \A q \in Requests : q # r => requests'[q] = requests[q]
  BY SMTT(90), <1>1, <1>2, <1>3
<1>7. requests[r].todo \in Seq(Sources)
  BY <1>3 DEF Asks
<1> QED BY <1>3, <1>5, <1>6, <1>7

\* A batch is seen no earlier, and a grant of one that nobody is in is not dropped.
LEMMA SeenStays ==
  ASSUME NEW js, NEW a, NEW js2, NEW a2,
         \A j \in 1..Len(js2) : \E i \in 1..Len(js) : js[i].batch = js2[j].batch,
         \A n \in ToSet(a2) : n.by = "retry" => n \in ToSet(a)
  PROVE  \A b : Seen(js2, a2, b) => Seen(js, a, b)
BY DEF Seen

LEMMA BatchStays ==
  ASSUME BatchInv, UNCHANGED requests,
         \A b : Seen(jobs', appends', b) => Seen(jobs, appends, b),
         \A r \in Requests : Unmade(requests, r) /\ batchGrants[r] # NoGrant => batchGrants'[r] # NoGrant
  PROVE  BatchInv'
<1>1. UnmadeOK(jobs', appends', requests')
  BY DEF BatchInv, UnmadeOK
<1>2. SingleOK(requests') /\ FirstGrantOK(requests', batchGrants')
  BY DEF BatchInv, SingleOK, FirstGrantOK
<1> QED BY <1>1, <1>2 DEF BatchInv

\* A step that calls for records of neither new jobs nor retries, and takes no grant.
LEMMA BatchIdles ==
  ASSUME BatchInv, UNCHANGED <<jobs, requests, batchGrants>>,
         \A n \in ToSet(appends') : n.by = "retry" => n \in ToSet(appends)
  PROVE  BatchInv'
<1>1. \A b : Seen(jobs', appends', b) => Seen(jobs, appends, b)
  BY SeenStays
<1> QED BY <1>1, BatchStays

LEMMA ForgetUnmade ==
  ASSUME JobsInv, BatchInv, NEW js, Len(js) = Len(jobs), NEW j \in 1..Len(js), Forget(js, j),
         js[j].batch = jobs[j].batch, NEW r \in Requests, Unmade(requests, r)
  PROVE  batchGrants'[r] = batchGrants[r]
<1>1. jobs[j].batch # r
  BY DEF BatchInv, UnmadeOK, Seen
<1>2. batchGrants \in [Requests -> Grant \union {NoGrant}]
  BY DEF JobsInv, GrantTypes
<1> QED BY <1>1, <1>2 DEF Forget

LEMMA KnownBatch ==
  ASSUME JobsInv, BatchInv, AppendLands, ~ByNew(Head(appends)), UNCHANGED requests
  PROVE  BatchInv'
<1> PICK a : a = Head(appends)
  OBVIOUS
<1>1. /\ appends # <<>> /\ jobs' = With(a) /\ Came(jobs', Tail(appends), appends')
  BY LandsCame
<1>2. Relabelled(jobs, jobs', a) /\ appends \in Seq(Notes)
  BY <1>1, LandsGoes, TypesAre
<1>3. \A n \in ToSet(appends') : n.by = "retry" => n \in ToSet(appends)
  BY <1>1, <1>2, TailSet DEF Came
<1>4. \A b : Seen(jobs', appends', b) => Seen(jobs, appends, b)
  BY ZenonT(90), <1>2, <1>3, SeenStays DEF Relabelled
<1>5. UNCHANGED batchGrants \/ Forget(jobs', a.job)
  BY ZenonT(90) DEF AppendLands, Enqueued, Retried, Cancelled, Started, Reported, Finished
<1>6. \A r \in Requests : Unmade(requests, r) => batchGrants'[r] = batchGrants[r]
  <2>1. CASE UNCHANGED batchGrants
    BY <2>1
  <2>2. CASE Forget(jobs', a.job)
    <3>1. /\ Len(jobs') = Len(jobs) /\ a.job \in 1..Len(jobs')
          /\ jobs'[a.job].batch = jobs[a.job].batch
      BY <1>2 DEF Relabelled
    <3> QED BY <2>2, <3>1, ForgetUnmade
  <2> QED BY <1>5, <2>1, <2>2
<1> QED BY <1>4, <1>6, BatchStays

LEMMA QueueBatchBatch ==
  ASSUME JobsInv, BatchInv, NEW r \in Requests, NEW sources, sources # <<>>,
         NEW trust, NEW force, NEW b \in Requests, QueueBatch(r, sources, trust, force, b),
         b # r => Seen(jobs, appends, b) /\ Len(sources) <= 1
  PROVE  BatchInv'
<1> PICK g : g = GrantFor(trust, force)
  OBVIOUS
<1> PICK ask : ask = [pc |-> "queueing", batch |-> b, grant |-> g, todo |-> sources, made |-> {}]
  OBVIOUS
<1> PICK n : n = Fresh("enqueue", r, Head(sources), b)
  OBVIOUS
<1>1. /\ requests[r].pc = "idle" /\ requests' = [requests EXCEPT ![r] = ask]
      /\ batchGrants' = BatchGrant(b, g) /\ UNCHANGED jobs
      /\ appends' = IF turns = <<>> THEN Append(appends, n) ELSE appends
  BY DEF QueueBatch
<1>2. /\ requests \in [Requests -> Asks] /\ batchGrants \in [Requests -> Grant \union {NoGrant}]
      /\ appends \in Seq(Notes)
  BY TypesAre DEF JobsInv, GrantTypes
<1>3. requests'[r] = ask /\ \A q \in Requests : q # r => requests'[q] = requests[q]
  BY <1>1, <1>2
<1>4. ask.pc = "queueing" /\ ask.batch = b /\ ask.grant = g /\ ask.todo = sources /\ ask.made = {}
  OBVIOUS
<1>5. \A c : Seen(jobs', appends', c) => Seen(jobs, appends, c)
  <2>1. \A x \in ToSet(appends') : x.by = "retry" => x \in ToSet(appends)
    BY <1>1, <1>2, OneMoreSet DEF Fresh
  <2> QED BY <1>1, <2>1, SeenStays
<1>6. Unmade(requests, r)
  BY <1>1 DEF Unmade
<1>7. UnmadeOK(jobs', appends', requests')
  <2> SUFFICES ASSUME NEW u \in Requests, Unmade(requests', u)
               PROVE  /\ ~Seen(jobs', appends', u)
                      /\ \A q \in Requests : q # u => requests'[q].batch # u
    BY DEF UnmadeOK
  <2>1. Unmade(requests, u)
    BY <1>3, <1>6 DEF Unmade
  <2>2. ~Seen(jobs, appends, u) /\ \A q \in Requests : q # u => requests[q].batch # u
    BY <2>1 DEF BatchInv, UnmadeOK
  <2>3. ASSUME NEW q \in Requests, q # u PROVE requests'[q].batch # u
    <3>1. CASE q = r
      BY <1>3, <1>4, <2>2, <2>3, <3>1
    <3>2. CASE q # r
      BY <1>3, <2>2, <2>3, <3>2
    <3> QED BY <3>1, <3>2
  <2> QED BY <1>5, <2>2, <2>3
<1>8. SingleOK(requests')
  BY <1>3, <1>4 DEF BatchInv, SingleOK
<1>9. FirstGrantOK(requests', batchGrants')
  <2> SUFFICES ASSUME NEW u \in Requests, Unmade(requests', u), requests'[u].grant # NoGrant
               PROVE  batchGrants'[u] # NoGrant
    BY DEF FirstGrantOK
  <2>1. CASE u = r
    <3>1. b = r /\ g # NoGrant
      BY <1>3, <1>4, <2>1 DEF Unmade
    <3> QED BY <1>1, <1>2, <2>1, <3>1 DEF BatchGrant
  <2>2. CASE u # r
    <3>1. batchGrants[u] # NoGrant
      BY <1>3, <2>2 DEF BatchInv, FirstGrantOK, Unmade
    <3> QED BY <1>1, <1>2, <3>1 DEF BatchGrant
  <2> QED BY <2>1, <2>2
<1> QED BY <1>7, <1>8, <1>9 DEF BatchInv

LEMMA StartBatch ==
  ASSUME JobsInv, BatchInv, NEW r \in Requests, Start(r) \/ \E j \in JobIds : Confirm(r, j)
  PROVE  BatchInv'
<1>1. CASE Start(r)
  <2>1. PICK sources \in Batch, trust \in BOOLEAN, force \in SUBSET Sources :
          QueueBatch(r, sources, trust, force, r)
    BY <1>1 DEF Start
  <2>2. sources # <<>>
    BY JobsAssumption
  <2> QED BY <2>1, <2>2, QueueBatchBatch
<1>2. ASSUME NEW j \in JobIds, Confirm(r, j) PROVE BatchInv'
  <2>1. PICK force \in SUBSET {jobs[j].source} :
          QueueBatch(r, <<jobs[j].source>>, TRUE, force, jobs[j].batch)
    BY <1>2 DEF Confirm
  <2>2. j \in 1..Len(jobs)
    BY <1>2, TypesAre DEF Confirm
  <2>3. jobs[j].batch \in Requests /\ Seen(jobs, appends, jobs[j].batch)
    BY <2>2, TypesAre DEF Seen
  <2> PICK one : one = <<jobs[j].source>>
    BY ZenonT(90)
  <2>4. one # <<>> /\ Len(one) <= 1
    OBVIOUS
  <2> QED BY <2>1, <2>3, <2>4, QueueBatchBatch
<1> QED BY <1>1, <1>2

LEMMA EnqueuedBatch ==
  ASSUME JobsInv, BatchInv, Enqueued
  PROVE  BatchInv'
<1> PICK a : a = Head(appends)
  OBVIOUS
<1> PICK r : r = a.req
  OBVIOUS
<1>1. /\ appends # <<>> /\ ByNew(a) /\ jobs' = With(a) /\ UNCHANGED batchGrants
      /\ Came(jobs', Tail(appends), appends')
  <2>1. AppendLands
    BY DEF AppendLands
  <2> QED BY ZenonT(90), <2>1, LandsCame DEF Enqueued, Lands, ByNew
<1>2. /\ r \in Requests /\ requests[r].todo # <<>>
      /\ requests[r].todo \in Seq(Sources) /\ a.batch = requests[r].batch
      /\ requests'[r].todo = Tail(requests[r].todo)
      /\ requests'[r].made = requests[r].made \union {Len(jobs) + 1}
      /\ requests'[r].grant = requests[r].grant /\ requests'[r].batch = requests[r].batch
      /\ requests'[r].pc # "idle"
      /\ \A q \in Requests : q # r => requests'[q] = requests[q]
  BY TurnIs
<1>3. ASSUME NEW c, Seen(jobs', appends', c) PROVE Seen(jobs, appends, c) \/ c = requests[r].batch
  <2>1. /\ Len(jobs) \in Nat /\ appends \in Seq(Notes) /\ Len(jobs') = Len(jobs) + 1
        /\ \A i \in 1..Len(jobs) : jobs'[i] = jobs[i]
        /\ jobs'[Len(jobs) + 1].batch = a.batch
    BY <1>1, NewJoins, TypesAre
  <2>2. \A n \in ToSet(appends') : n.by = "retry" => n \in ToSet(appends)
    BY <1>1, <2>1, TailSet DEF Came
  <2>3. \A i \in 1..Len(jobs') : i \in 1..Len(jobs) \/ i = Len(jobs) + 1
    BY <2>1
  <2> QED BY <1>2, <1>3, <2>1, <2>2, <2>3 DEF Seen
<1>4. \A u \in Requests : Unmade(requests', u) => u # r /\ Unmade(requests, u)
  BY <1>2 DEF Unmade
<1>5. UnmadeOK(jobs', appends', requests')
  <2> SUFFICES ASSUME NEW u \in Requests, Unmade(requests', u)
               PROVE  /\ ~Seen(jobs', appends', u)
                      /\ \A q \in Requests : q # u => requests'[q].batch # u
    BY DEF UnmadeOK
  <2>1. /\ u # r /\ ~Seen(jobs, appends, u)
        /\ \A q \in Requests : q # u => requests[q].batch # u
    BY <1>4 DEF BatchInv, UnmadeOK
  <2> QED BY <1>2, <1>3, <2>1
<1>6. SingleOK(requests')
  <2>1. Len(requests[r].todo) <= 1 => Len(requests'[r].todo) <= 1 /\ requests'[r].todo = <<>>
    <3> PICK todo : todo = requests[r].todo
      OBVIOUS
    <3>1. todo \in Seq(Sources) /\ todo # <<>> /\ requests'[r].todo = Tail(todo)
      BY <1>2
    <3>2. Len(todo) <= 1 => Tail(todo) = <<>>
      BY <3>1
    <3>3. Len(<<>>) <= 1
      OBVIOUS
    <3> QED BY <3>1, <3>2, <3>3
  <2>2. SingleOK(requests)
    BY DEF BatchInv
  <2>3. ASSUME NEW u \in Requests, requests'[u].batch # u
        PROVE  Len(requests'[u].todo) <= 1 /\ (requests'[u].todo # <<>> => requests'[u].made = {})
    <3>1. CASE u = r
      BY <1>2, <2>1, <2>2, <2>3, <3>1 DEF SingleOK
    <3>2. CASE u # r
      BY <1>2, <2>2, <2>3, <3>2 DEF SingleOK
    <3> QED BY <3>1, <3>2
  <2> QED BY <2>3 DEF SingleOK
<1>7. FirstGrantOK(requests', batchGrants')
  BY <1>1, <1>2, <1>4 DEF BatchInv, FirstGrantOK
<1> QED BY <1>5, <1>6, <1>7 DEF BatchInv

LEMMA RetriedBatch ==
  ASSUME JobsInv, BatchInv, Retried
  PROVE  BatchInv'
<1> PICK a : a = Head(appends)
  OBVIOUS
<1>1. /\ appends # <<>> /\ a.by = "retry" /\ ByNew(a) /\ jobs' = With(a)
      /\ Came(jobs', Tail(appends), appends') /\ UNCHANGED <<requests, batchGrants>>
  <2>1. AppendLands
    BY DEF AppendLands
  <2> QED BY <2>1, LandsCame DEF Retried, Lands, ByNew
<1>2. ASSUME NEW c, Seen(jobs', appends', c) PROVE Seen(jobs, appends, c)
  <2>1. /\ Len(jobs) \in Nat /\ appends \in Seq(Notes) /\ Len(jobs') = Len(jobs) + 1
        /\ \A i \in 1..Len(jobs) : jobs'[i] = jobs[i]
        /\ jobs'[Len(jobs) + 1].batch = a.batch
    BY <1>1, NewJoins, TypesAre
  <2>2. a \in ToSet(appends) /\ \A n \in ToSet(appends') : n.by = "retry" => n \in ToSet(appends)
    BY <1>1, <2>1, TailSet DEF Came
  <2>3. \A i \in 1..Len(jobs') : i \in 1..Len(jobs) \/ i = Len(jobs) + 1
    BY <2>1
  <2> QED BY <1>1, <1>2, <2>1, <2>2, <2>3 DEF Seen
<1> QED BY <1>1, <1>2, BatchStays

LEMMA RetryBatch ==
  ASSUME JobsInv, BatchInv, NEW j \in JobIds, Retry(j)
  PROVE  BatchInv'
<1> PICK n : n = Fresh("retry", 0, jobs[j].source, jobs[j].batch)
  OBVIOUS
<1>1. /\ j \in 1..Len(jobs) /\ appends' = Append(appends, n) /\ appends \in Seq(Notes)
      /\ UNCHANGED <<jobs, requests, batchGrants>>
  BY TypesAre DEF Retry
<1>2. n.batch = jobs[j].batch
  BY DEF Fresh
<1>3. \A b : Seen(jobs', appends', b) => Seen(jobs, appends, b)
  BY <1>1, <1>2, OneMoreSet DEF Seen
<1> QED BY <1>1, <1>3, BatchStays

LEMMA ChangeAdds ==
  ASSUME NEW by, by # "retry", NEW j, NEW state, NEW error, appends \in Seq(Notes),
         appends' = Append(appends, Change(by, j, state, error))
  PROVE  \A n \in ToSet(appends') : n.by = "retry" => n \in ToSet(appends)
<1>1. PICK x : x = Change(by, j, state, error)
  OBVIOUS
<1>2. x.by = by
  BY <1>1 DEF Change
<1>3. appends' = Append(appends, x)
  BY <1>1
<1> QED BY <1>2, <1>3, OneMoreSet

LEMMA WorksBatch ==
  ASSUME JobsInv, BatchInv, NEW s \in Sources, Works(s)
  PROVE  BatchInv'
<1>1. appends \in Seq(Notes)
  BY TypesAre
<1>2. CASE Skip(s)
  <2>1. UNCHANGED batchGrants
    BY <1>2 DEF Skip
  <2> QED BY <1>2, <2>1, SkipCame, BatchIdles DEF Came
<1>3. CASE Plan(s) \/ Mutate(s)
  <2>1. UNCHANGED <<jobs, requests, batchGrants>>
    BY <1>3 DEF Plan, Mutate
  <2>2. \/ UNCHANGED appends
        \/ \E by \in {"finish", "report"} : \E j, state, error :
             appends' = Append(appends, Change(by, j, state, error))
    BY <1>3 DEF Plan, Mutate, Throws, Ends
  <2>3. ASSUME NEW by \in {"finish", "report"}, NEW j, NEW state, NEW error,
               appends' = Append(appends, Change(by, j, state, error))
        PROVE  \A n \in ToSet(appends') : n.by = "retry" => n \in ToSet(appends)
    BY <1>1, <2>3, ChangeAdds
  <2>4. \A n \in ToSet(appends') : n.by = "retry" => n \in ToSet(appends)
    BY <2>2, <2>3
  <2> QED BY <2>1, <2>4, BatchIdles
<1> QED BY <1>2, <1>3 DEF Works

LEMMA CancelBatch ==
  ASSUME JobsInv, BatchInv, NEW j \in JobIds, Cancel(j)
  PROVE  BatchInv'
<1>1. appends \in Seq(Notes)
  BY TypesAre
<1>2. UNCHANGED <<jobs, requests, batchGrants>>
  BY DEF Cancel
<1>3. \/ UNCHANGED appends
      \/ \E state, error : appends' = Append(appends, Change("cancel", j, state, error))
  BY DEF Cancel
<1>4. \A n \in ToSet(appends') : n.by = "retry" => n \in ToSet(appends)
  BY <1>1, <1>3, ChangeAdds
<1> QED BY <1>2, <1>4, BatchIdles

\* After a restart the only records on their way are of runs, of jobs that are queued.
LEMMA RestartCame ==
  ASSUME JobsInv, Restart
  PROVE  \A n \in ToSet(appends') : n.by = "run" /\ jobs'[n.job].state = "queued"
<1>1. PICK file, js, f, o, p, d :
        /\ file \in {jobs} \union {With(a) : a \in IF appends = <<>> THEN {} ELSE {Head(appends)}}
        /\ js = Interrupted(file) /\ f = Ascending(FirstJobs(js))
        /\ o = [k \in DOMAIN f |-> js[f[k]].source]
        /\ p = [s \in Sources |-> Ascending(QueuedAt(js, s))]
        /\ d = [s \in Sources |-> Asleep]
        /\ jobs' = js /\ Schedule(o, p, d, <<>>, js, <<>>)
  BY RestartIs
<1> /\ file \in {jobs} \union {With(a) : a \in IF appends = <<>> THEN {} ELSE {Head(appends)}}
    /\ js = Interrupted(file) /\ f = Ascending(FirstJobs(js))
    /\ o = [k \in DOMAIN f |-> js[f[k]].source]
    /\ p = [s \in Sources |-> Ascending(QueuedAt(js, s))]
    /\ d = [s \in Sources |-> Asleep]
  BY <1>1
<1>2. jobs' = js /\ Schedule(o, p, d, <<>>, js, <<>>)
  BY <1>1
<1>3. js \in Seq(Job) /\ \A j \in 1..Len(js) : js[j].state # "running"
  BY FoundIs
<1>4. QueueOK(js, o, p, d, <<>>)
  BY <1>3, RestoredKeeps
<1>5. <<>> \in Seq(Notes) /\ ToSet(<<>>) = {}
  BY DEF ToSet
<1>6. Calls(js, <<>>, appends', <<>>)
  BY <1>2, <1>4, <1>5, ScheduleCalls
<1> QED BY SMTT(90), <1>2, <1>5, <1>6 DEF Calls

LEMMA RestartSeen ==
  ASSUME JobsInv, Restart, NEW c, Seen(jobs', appends', c)
  PROVE  Seen(jobs, appends, c) \/ \E q \in Requests : requests[q].pc # "idle" /\ c = requests[q].batch
<1>1. PICK file \in {jobs} \union {With(a) : a \in IF appends = <<>> THEN {} ELSE {Head(appends)}} :
        jobs' = Interrupted(file)
  BY ZenonT(90) DEF Restart
<1>2. PICK j \in 1..Len(jobs') : jobs'[j].batch = c
  BY RestartCame DEF Seen
<1>3. /\ file \in Seq(Job) /\ jobs' \in Seq(Job) /\ DOMAIN jobs' = DOMAIN file
  <2>1. jobs' \in Seq(Job) /\ DOMAIN jobs' = DOMAIN file
    BY <1>1, FoundIs DEF Interrupted
  <2>2. CASE file = jobs
    BY <2>1, <2>2, TypesAre
  <2>3. CASE appends # <<>> /\ file = With(Head(appends)) /\ ByNew(Head(appends))
    BY <2>1, <2>3, NewJoins
  <2>4. CASE appends # <<>> /\ file = With(Head(appends)) /\ ~ByNew(Head(appends))
    <3>1. Relabelled(jobs, file, Head(appends))
      BY <2>4, HeadIs, TypesAre, WithKnown
    <3> QED BY <2>1, <3>1 DEF Relabelled
  <2> QED BY <2>2, <2>3, <2>4
<1>4. j \in 1..Len(file) /\ j \in DOMAIN file /\ file[j] \in Job
  BY <1>3
<1>5. file[j].batch = c
  <2>1. jobs'[j] = IF file[j].state = "running"
                   THEN [file[j] EXCEPT !.state = "failed", !.error = "retryable"] ELSE file[j]
    BY <1>1, <1>4 DEF Interrupted
  <2>2. [file[j] EXCEPT !.state = "failed", !.error = "retryable"].batch = file[j].batch
    BY <1>4 DEF Job
  <2> QED BY <1>2, <2>1, <2>2
<1>6. CASE file = jobs
  BY <1>4, <1>5, <1>6 DEF Seen
<1>7. CASE appends # <<>> /\ file = With(Head(appends)) /\ ~ByNew(Head(appends))
  <2>1. Relabelled(jobs, file, Head(appends))
    BY <1>7, HeadIs, TypesAre, WithKnown
  <2> QED BY <1>4, <1>5, <2>1 DEF Relabelled, Seen
<1>8. CASE appends # <<>> /\ file = With(Head(appends)) /\ ByNew(Head(appends))
  <2> PICK a : a = Head(appends)
    OBVIOUS
  <2>1. /\ Len(jobs) \in Nat /\ Len(file) = Len(jobs) + 1 /\ appends \in Seq(Notes)
        /\ \A i \in 1..Len(jobs) : file[i] = jobs[i]
        /\ file[Len(jobs) + 1].batch = a.batch
    BY <1>8, NewJoins, TypesAre
  <2>2. j \in 1..Len(jobs) \/ j = Len(jobs) + 1
    BY <1>4, <2>1
  <2>3. CASE j \in 1..Len(jobs)
    BY <1>5, <2>1, <2>3 DEF Seen
  <2>4. CASE j = Len(jobs) + 1 /\ a.by = "retry"
    <3>1. a \in ToSet(appends) /\ a.batch = c
      BY <1>5, <1>8, <2>1, <2>4, TailSet
    <3> QED BY <2>4, <3>1 DEF Seen
  <2>5. CASE j = Len(jobs) + 1 /\ a.by = "enqueue"
    <3>1. Called(turns, requests, a)
      BY <1>8, <2>5, HeadIs
    <3>2. TurnsOK(turns, requests) /\ turns \in Seq(Requests)
      BY TypesAre DEF JobsInv, TurnsInv
    <3> PICK q : q = Head(turns)
      OBVIOUS
    <3>3. turns # <<>> /\ a.batch = requests[q].batch
      BY <3>1 DEF Called
    <3>4. q \in Requests /\ requests[q].pc = "queueing"
      BY <3>2, <3>3, TailOf DEF TurnsOK
    <3> QED BY <1>5, <2>1, <2>5, <3>3, <3>4
  <2> QED BY <1>8, <2>2, <2>3, <2>4, <2>5 DEF ByNew
<1> QED BY <1>6, <1>7, <1>8

LEMMA RestartBatch ==
  ASSUME JobsInv, BatchInv, IdleOK(requests), Restart
  PROVE  BatchInv' /\ \A r \in Requests : requests'[r].grant = NoGrant
<1>1. requests' = [r \in Requests |-> IF requests[r].pc = "idle" THEN requests[r]
                                      ELSE [requests[r] EXCEPT !.pc = "done", !.grant = NoGrant,
                                                               !.todo = <<>>, !.made = {}]]
  BY ZenonT(90) DEF Restart
<1>2. ASSUME NEW r \in Requests
      PROVE  /\ requests'[r].grant = NoGrant /\ requests'[r].todo = <<>>
             /\ requests'[r].batch = requests[r].batch
             /\ requests'[r].pc = "idle" => requests[r].pc = "idle"
  <2> PICK ask : ask = requests[r]
    OBVIOUS
  <2>1. ask \in Asks
    BY TypesAre
  <2>2. CASE ask.pc = "idle"
    BY <1>1, <2>2 DEF IdleOK
  <2>3. CASE ask.pc # "idle"
    <3>1. requests'[r] = [ask EXCEPT !.pc = "done", !.grant = NoGrant, !.todo = <<>>, !.made = {}]
      BY <1>1, <2>3
    <3> QED BY <2>1, <3>1 DEF Asks
  <2> QED BY <2>2, <2>3
<1>3. UnmadeOK(jobs', appends', requests')
  <2> SUFFICES ASSUME NEW u \in Requests, Unmade(requests', u)
               PROVE  /\ ~Seen(jobs', appends', u)
                      /\ \A q \in Requests : q # u => requests'[q].batch # u
    BY DEF UnmadeOK
  <2>1. requests[u].pc = "idle" /\ Unmade(requests, u)
    BY <1>2 DEF Unmade
  <2>2. ~Seen(jobs, appends, u) /\ \A q \in Requests : q # u => requests[q].batch # u
    BY <2>1 DEF BatchInv, UnmadeOK
  <2>3. ~Seen(jobs', appends', u)
    BY <2>1, <2>2, RestartSeen
  <2> QED BY <1>2, <2>2, <2>3
<1>4. SingleOK(requests') /\ FirstGrantOK(requests', batchGrants')
  <2>1. Len(<<>>) <= 1
    OBVIOUS
  <2> QED BY <1>2, <2>1 DEF SingleOK, FirstGrantOK
<1> QED BY <1>2, <1>3, <1>4 DEF BatchInv

LEMMA BatchKept ==
  ASSUME JobsInv, IdleOK(requests), BatchInv, [Next]_vars
  PROVE  BatchInv'
<1>1. CASE UNCHANGED <<jobs, appends, requests, batchGrants>>
  BY <1>1, BatchIdles
<1>2. CASE \E r \in Requests : Start(r) \/ \E j \in JobIds : Confirm(r, j)
  BY <1>2, StartBatch
<1>3. CASE \E j \in JobIds : Retry(j) \/ Cancel(j)
  BY <1>3, RetryBatch, CancelBatch
<1>4. CASE AppendLands
  <2>1. CASE Enqueued
    BY <2>1, EnqueuedBatch
  <2>2. CASE Retried
    BY <2>2, RetriedBatch
  <2>3. CASE Cancelled \/ Started \/ Reported \/ Finished
    <3>1. ~ByNew(Head(appends)) /\ UNCHANGED requests
      BY <2>3 DEF Cancelled, Started, Reported, Finished, Lands, ByNew
    <3> QED BY <1>4, <3>1, KnownBatch
  <2> QED BY <1>4, <2>1, <2>2, <2>3 DEF AppendLands
<1>5. CASE \E s \in Sources : Works(s)
  BY <1>5, WorksBatch
<1>6. CASE Restart
  BY <1>6, RestartBatch
<1>7. CASE Serve \/ EditConfig \/ UNCHANGED vars
  BY <1>1, <1>7 DEF Serve, EditConfig, vars
<1> QED BY <1>2, <1>3, <1>4, <1>5, <1>6, <1>7 DEF Next

\* Nothing else is called for in these steps.
Quiet(js, a) == NoCancels(a) /\ RunsQueued(js, a)

LEMMA QuietAdds ==
  ASSUME Quiet(jobs, appends), UNCHANGED jobs,
         \A n \in ToSet(appends') : \/ n \in ToSet(appends) \/ n.by \notin {"cancel", "run"}
                                    \/ n.by = "run" /\ jobs[n.job].state = "queued"
  PROVE  Quiet(jobs', appends')
BY DEF Quiet, NoCancels, RunsQueued

LEMMA FreshIn ==
  ASSUME appends \in Seq(Notes), NEW by, NEW r, NEW s, NEW b,
         appends' = Append(appends, Fresh(by, r, s, b))
  PROVE  \A n \in ToSet(appends') : n \in ToSet(appends) \/ n.by = by
<1> PICK x : x = Fresh(by, r, s, b)
  OBVIOUS
<1>1. x.by = by /\ appends' = Append(appends, x)
  BY DEF Fresh
<1> QED BY <1>1, OneMoreSet

LEMMA ChangeIn ==
  ASSUME appends \in Seq(Notes), NEW by, NEW j, NEW state, NEW error,
         appends' = Append(appends, Change(by, j, state, error))
  PROVE  \A n \in ToSet(appends') :
           \/ n \in ToSet(appends)
           \/ n.by = by /\ n.job = j /\ n.state = state /\ n.error = error
<1> PICK x : x = Change(by, j, state, error)
  OBVIOUS
<1>1. x.by = by /\ x.job = j /\ x.state = state /\ x.error = error /\ appends' = Append(appends, x)
  BY DEF Change
<1> QED BY <1>1, OneMoreSet

\* A run behind the record of a known job is of another job: one drain has one
\* record on its way.
LEMMA RunBehind ==
  ASSUME JobsInv, appends # <<>>, ByDrain(Head(appends)),
         NEW n \in ToSet(Tail(appends)), n.by = "run"
  PROVE  n.job # Head(appends).job
<1> PICK a : a = Head(appends)
  OBVIOUS
<1>1. /\ RecordsOK(jobs, pending, drain, appends) /\ AloneOK(appends) /\ appends \in Seq(Notes)
  BY TypesAre DEF JobsInv, QueueInv, QueueOK
<1>2. /\ Tail(appends) \in Seq(Notes)
      /\ RecordsOK(jobs, pending, drain, Tail(appends)) /\ RecordOK(jobs, pending, drain, a)
      /\ \A i \in 1..Len(Tail(appends)) : ByDrain(Tail(appends)[i]) => Tail(appends)[i].source # a.source
  BY <1>1, RecordsTail
<1>3. PICK i \in 1..Len(Tail(appends)) : Tail(appends)[i] = n
  <2> PICK t : t = Tail(appends)
    OBVIOUS
  <2>1. t \in Seq(Notes)
    BY <1>2
  <2>2. DOMAIN t = 1..Len(t)
    BY <2>1
  <2> QED BY <2>2 DEF ToSet
<1>4. RecordOK(jobs, pending, drain, n) /\ ByDrain(n) /\ n.source # a.source
  BY <1>2, <1>3 DEF RecordsOK, ByDrain
<1>5. n.source = jobs[n.job].source /\ a.source = jobs[a.job].source
  BY <1>2, <1>4 DEF RecordOK, ByDrain, ByNew
<1> QED BY <1>4, <1>5

LEMMA LandsQuiet ==
  ASSUME JobsInv, Quiet(jobs, appends), AppendLands
  PROVE  Quiet(jobs', appends')
<1> PICK a : a = Head(appends)
  OBVIOUS
<1>1. /\ appends # <<>> /\ jobs' = With(a) /\ Came(jobs', Tail(appends), appends')
      /\ appends \in Seq(Notes)
  BY LandsCame, TypesAre
<1>2. a \in ToSet(appends) /\ ToSet(Tail(appends)) \subseteq ToSet(appends)
  BY <1>1, TailSet
<1>3. NoCancels(appends')
  BY <1>1, <1>2 DEF Quiet, NoCancels, Came
<1>4. ASSUME NEW n \in ToSet(Tail(appends)), n.by = "run" PROVE jobs'[n.job].state = "queued"
  <2>1. jobs[n.job].state = "queued"
    BY <1>2, <1>4 DEF Quiet, RunsQueued
  <2>2. n.job \in 1..Len(jobs)
    <3>1. RecordsOK(jobs, pending, drain, appends)
      BY DEF JobsInv, QueueInv, QueueOK
    <3>2. \E i \in 1..Len(appends) : appends[i] = n
      BY <1>1, <1>2, SetIs
    <3> QED BY <1>4, <3>1, <3>2 DEF RecordsOK, RecordOK, ByNew
  <2>3. CASE ByNew(a)
    <3>1. jobs'[n.job] = jobs[n.job]
      BY <1>1, <2>2, <2>3, NewJoins
    <3> QED BY <2>1, <3>1
  <2>4. CASE ~ByNew(a)
    <3>1. ByDrain(a) /\ a \in Notes
      <4>1. a.by # "cancel" /\ a \in Notes
        BY <1>1, <1>2, HeadIs DEF Quiet, NoCancels
      <4> QED BY <2>4, <4>1 DEF Notes, ByNew, ByDrain
    <3>2. n.job # a.job
      BY <1>1, <1>4, <3>1, RunBehind
    <3>3. Relabelled(jobs, jobs', a)
      BY <1>1, <2>4, LandsGoes
    <3>4. jobs'[n.job] = jobs[n.job]
      BY <2>2, <3>2, <3>3 DEF Relabelled
    <3> QED BY <2>1, <3>4
  <2> QED BY <2>3, <2>4
<1>5. RunsQueued(jobs', appends')
  BY <1>1, <1>4 DEF RunsQueued, Came
<1> QED BY <1>3, <1>5 DEF Quiet

LEMMA WorksQuiet ==
  ASSUME JobsInv, Quiet(jobs, appends), NEW s \in Sources, Works(s)
  PROVE  Quiet(jobs', appends')
<1>1. appends \in Seq(Notes)
  BY TypesAre
<1>2. CASE Skip(s)
  BY <1>2, SkipCame, QuietAdds DEF Came
<1>3. CASE Plan(s) \/ Mutate(s)
  <2>1. UNCHANGED jobs
    BY <1>3 DEF Plan, Mutate
  <2>2. \/ UNCHANGED appends
        \/ \E by \in {"finish", "report"} : \E j, state, error :
             appends' = Append(appends, Change(by, j, state, error))
    BY <1>3 DEF Plan, Mutate, Throws, Ends
  <2>3. ASSUME NEW by \in {"finish", "report"}, NEW j, NEW state, NEW error,
               appends' = Append(appends, Change(by, j, state, error))
        PROVE  \A n \in ToSet(appends') : n \in ToSet(appends) \/ n.by \notin {"cancel", "run"}
    <3>1. \A n \in ToSet(appends') : n \in ToSet(appends) \/ n.by = by
      BY <1>1, <2>3, ChangeIn
    <3> QED BY <3>1
  <2>4. \A n \in ToSet(appends') : n \in ToSet(appends) \/ n.by \notin {"cancel", "run"}
    BY <2>2, <2>3
  <2> QED BY <2>1, <2>4, QuietAdds
<1> QED BY <1>2, <1>3 DEF Works

\* A request, or a retry, calls for no more than a record of a new job.
LEMMA AsksAdd ==
  ASSUME JobsInv, \/ \E r \in Requests : Start(r) \/ \E j \in JobIds : Confirm(r, j)
                  \/ \E j \in JobIds : Retry(j)
  PROVE  /\ UNCHANGED <<jobs, pending, drain, jobGrants, cancels>>
         /\ \A n \in ToSet(appends') : n \in ToSet(appends) \/ n.by \in {"enqueue", "retry"}
<1>1. appends \in Seq(Notes)
  BY TypesAre
<1>2. /\ UNCHANGED <<jobs, pending, drain, jobGrants, cancels>>
      /\ \/ UNCHANGED appends
         \/ \E by \in {"enqueue", "retry"} : \E r, s, b : appends' = Append(appends, Fresh(by, r, s, b))
  <2>1. ASSUME NEW r, NEW sources, NEW trust, NEW force, NEW b, QueueBatch(r, sources, trust, force, b)
        PROVE  /\ UNCHANGED <<jobs, pending, drain, jobGrants, cancels>>
               /\ \/ UNCHANGED appends
                  \/ appends' = Append(appends, Fresh("enqueue", r, Head(sources), b))
    BY <2>1 DEF QueueBatch
  <2>2. ASSUME NEW j \in JobIds, Retry(j)
        PROVE  /\ UNCHANGED <<jobs, pending, drain, jobGrants, cancels>>
               /\ appends' = Append(appends, Fresh("retry", 0, jobs[j].source, jobs[j].batch))
    BY <2>2 DEF Retry
  <2>3. \/ \E r, sources, trust, force, b : QueueBatch(r, sources, trust, force, b)
        \/ \E j \in JobIds : Retry(j)
    BY DEF Start, Confirm
  <2> QED BY <2>1, <2>2, <2>3
<1>3. ASSUME NEW by \in {"enqueue", "retry"}, NEW r, NEW s, NEW b,
             appends' = Append(appends, Fresh(by, r, s, b))
      PROVE  \A n \in ToSet(appends') : n \in ToSet(appends) \/ n.by \in {"enqueue", "retry"}
  <2>1. \A n \in ToSet(appends') : n \in ToSet(appends) \/ n.by = by
    BY <1>1, <1>3, FreshIn
  <2> QED BY <2>1
<1> QED BY <1>2, <1>3

LEMMA NobodyCancels ==
  ASSUME JobsInv, [Next]_vars, cancels' = 0
  PROVE  cancels = 0 /\ ~\E j \in JobIds : Cancel(j)
<1>1. cancels \in Nat
  BY DEF JobsInv, GrantTypes
<1>2. UNCHANGED cancels \/ cancels' = cancels + 1
  BY ZenonT(90)
     DEF Next, Start, Confirm, QueueBatch, Retry, Cancel, AppendLands, Enqueued, Retried, Cancelled,
         Started, Reported, Finished, Works, Plan, Mutate, Skip, Serve, Restart, EditConfig, vars
<1>3. (\E j \in JobIds : Cancel(j)) => cancels' = cancels + 1
  BY DEF Cancel
<1> QED BY <1>1, <1>2, <1>3

LEMMA QuietKept ==
  ASSUME JobsInv, Quiet(jobs, appends), [Next]_vars, cancels' = 0
  PROVE  Quiet(jobs', appends')
<1>1. CASE \/ \E r \in Requests : Start(r) \/ \E j \in JobIds : Confirm(r, j)
           \/ \E j \in JobIds : Retry(j)
  BY <1>1, AsksAdd, QuietAdds
<1>2. CASE AppendLands
  BY <1>2, LandsQuiet
<1>3. CASE \E s \in Sources : Works(s)
  BY <1>3, WorksQuiet
<1>4. CASE Restart
  BY <1>4, RestartCame DEF Quiet, NoCancels, RunsQueued
<1>5. CASE Serve \/ EditConfig \/ UNCHANGED vars
  BY <1>5, QuietAdds DEF Serve, EditConfig, vars
<1> QED BY <1>1, <1>2, <1>3, <1>4, <1>5, NobodyCancels DEF Next

\* A step that gives a job nothing to lose its confirmation by.
KeepsGrants(j) ==
  jobs'[j].state = "queued" =>
    /\ jobs[j].state = "queued"
    /\ jobGrants[j] # NoGrant => jobGrants'[j] # NoGrant
    /\ batchGrants[jobs[j].batch] # NoGrant => batchGrants'[jobs[j].batch] # NoGrant
KeepsPlans(j) ==
  \A s \in Sources :
    drain'[s].pc = "planning" /\ At(pending', drain', s) = j =>
      \/ drain'[s].grant # NoGrant
      \/ drain[s].pc = "planning" /\ At(pending, drain, s) = j /\ drain'[s].grant = drain[s].grant
KeepsAsked(j) ==
  /\ \A n \in ToSet(appends') : AsksFor(n, j) => n \in ToSet(appends)
  /\ Asked(j)' => Asked(j) \/ \E n \in ToSet(appends) : AsksFor(n, j)
Steady(j) == KeepsGrants(j) /\ KeepsPlans(j) /\ KeepsAsked(j)

LEMMA TrustedStays ==
  ASSUME NEW r \in Requests, NEW j, Trusted(r, j), Steady(j), jobs[j].batch = requests[r].batch,
         requests'[r].todo = requests[r].todo, requests'[r].batch = requests[r].batch
  PROVE  Trusted(r, j)'
<1>1. jobs'[j].state = "queued" =>
        IF requests'[r].todo = <<>> THEN jobGrants'[j] # NoGrant
                                    ELSE batchGrants'[requests'[r].batch] # NoGrant
  BY DEF Trusted, Steady, KeepsGrants
<1>2. \A s \in Sources :
        drain'[s].pc = "planning" /\ At(pending', drain', s) = j => drain'[s].grant # NoGrant
  BY DEF Trusted, Steady, KeepsPlans
<1>3. (\A n \in ToSet(appends') : ~AsksFor(n, j)) /\ ~Asked(j)'
  BY DEF Trusted, Steady, KeepsAsked
<1> QED BY <1>1, <1>2, <1>3 DEF Trusted

\* The drains are where they were, or at no plan.
LEMMA FollowsPlans ==
  ASSUME \A s \in Sources : Follows(pending, drain, pending', drain', s), NEW j
  PROVE  KeepsPlans(j)
BY DEF KeepsPlans, Follows, Busy

\* Nothing happens to the job, nor to a confirmation it may read.
LEMMA IdleSteady ==
  ASSUME UNCHANGED <<jobs, pending, drain, jobGrants>>,
         \A b \in Requests : batchGrants[b] # NoGrant => batchGrants'[b] # NoGrant,
         \A n \in ToSet(appends') : n \in ToSet(appends) \/ n.by # "finish",
         NEW j, jobs[j].batch \in Requests
  PROVE  Steady(j)
<1>1. KeepsGrants(j)
  BY DEF KeepsGrants
<1>2. KeepsPlans(j)
  BY DEF KeepsPlans
<1>3. KeepsAsked(j)
  BY DEF KeepsAsked, AsksFor, Asked
<1> QED BY <1>1, <1>2, <1>3 DEF Steady

LEMMA AsksSteady ==
  ASSUME JobsInv, \/ \E r \in Requests : Start(r) \/ \E j \in JobIds : Confirm(r, j)
                  \/ \E j \in JobIds : Retry(j),
         NEW j \in 1..Len(jobs)
  PROVE  Steady(j)
<1>1. /\ UNCHANGED <<jobs, pending, drain, jobGrants>>
      /\ \A n \in ToSet(appends') : n \in ToSet(appends) \/ n.by \in {"enqueue", "retry"}
  BY AsksAdd
<1>2. UNCHANGED batchGrants \/ \E b, g : batchGrants' = BatchGrant(b, g)
  BY ZenonT(90) DEF Start, Confirm, QueueBatch, Retry
<1>3. batchGrants \in [Requests -> Grant \union {NoGrant}]
  BY DEF JobsInv, GrantTypes
<1>4. \A b \in Requests : batchGrants[b] # NoGrant => batchGrants'[b] # NoGrant
  BY <1>2, <1>3 DEF BatchGrant
<1>5. jobs[j].batch \in Requests
  BY TypesAre
<1> QED BY <1>1, <1>4, <1>5, IdleSteady

\* The record of another job lands: none that asks for this one's confirmation.
LEMMA CameAsks ==
  ASSUME appends \in Seq(Notes), appends # <<>>, NEW js, Came(js, Tail(appends), appends'), NEW j
  PROVE  \A n \in ToSet(appends') : AsksFor(n, j) => n \in ToSet(appends)
BY TailSet DEF Came, AsksFor

LEMMA NewSteady ==
  ASSUME JobsInv, Enqueued \/ Retried, NEW j \in 1..Len(jobs)
  PROVE  Steady(j)
<1> PICK a : a = Head(appends)
  OBVIOUS
<1>1. /\ appends # <<>> /\ jobs' = With(a) /\ Came(jobs', Tail(appends), appends') /\ ByNew(a)
      /\ appends \in Seq(Notes)
  <2>1. AppendLands /\ ByNew(a)
    BY ZenonT(90) DEF AppendLands, Enqueued, Retried, Lands, ByNew
  <2> QED BY SMTT(90), <2>1, LandsCame, TypesAre
<1>2. jobs'[j] = jobs[j]
  BY <1>1, NewJoins
<1>3. KeepsGrants(j)
  <2>1. CASE Retried
    BY <1>2, <2>1 DEF Retried, KeepsGrants
  <2>2. CASE Enqueued
    <3>1. j \in JobIds /\ jobGrants \in [JobIds -> Grant \union {NoGrant}]
      BY SMTT(90), TypesAre DEF JobsInv, GrantTypes
    <3>2. UNCHANGED batchGrants /\ (jobGrants[j] # NoGrant => jobGrants'[j] # NoGrant)
      BY ZenonT(90), <2>2, <3>1 DEF Enqueued
    <3> QED BY <1>2, <3>2 DEF KeepsGrants
  <2> QED BY <2>1, <2>2
<1>4. KeepsPlans(j)
  <2>1. Joined
    BY EnqueuedKeeps, RetriedJoins
  <2>2. \A s \in Sources : Follows(pending, drain, pending', drain', s)
    BY <1>1, <2>1, NewFollows DEF Joined
  <2> QED BY <2>2, FollowsPlans
<1>5. KeepsAsked(j)
  BY <1>1, <1>2, CameAsks DEF KeepsAsked, Asked
<1> QED BY <1>3, <1>4, <1>5 DEF Steady

\* A job that goes on as queued keeps the confirmations it may read.
LEMMA ForgetGrants ==
  ASSUME JobsInv, NEW js, NEW i, Forget(js, i), NEW j \in 1..Len(js), j # i,
         js[j].state = "queued", j \in JobIds, js[j].batch \in Requests
  PROVE  jobGrants'[j] = jobGrants[j] /\ batchGrants'[js[j].batch] = batchGrants[js[j].batch]
<1>1. /\ jobGrants \in [JobIds -> Grant \union {NoGrant}]
      /\ batchGrants \in [Requests -> Grant \union {NoGrant}]
  BY DEF JobsInv, GrantTypes
<1>2. jobGrants'[j] = jobGrants[j]
  BY <1>1 DEF Forget
<1>3. AllEnded(js, js[i].batch) => js[i].batch # js[j].batch
  BY DEF AllEnded, Terminal
<1> QED BY <1>1, <1>2, <1>3 DEF Forget

\* A drain's record lands: its job is asked about if the record asks.
LEMMA KnownAsks ==
  ASSUME JobsInv, AppendLands, ByDrain(Head(appends)), NEW j \in 1..Len(jobs)
  PROVE  /\ KeepsAsked(j)
         /\ jobs'[j].state = "queued" => jobs'[j] = jobs[j] /\ j # Head(appends).job
         /\ jobs' \in Seq(Job) /\ Len(jobs') = Len(jobs)
<1> PICK a : a = Head(appends)
  OBVIOUS
<1>1. /\ appends # <<>> /\ jobs' = With(a) /\ Came(jobs', Tail(appends), appends')
      /\ appends \in Seq(Notes) /\ RecordOK(jobs, pending, drain, a) /\ a \in ToSet(appends)
  BY LandsCame, TypesAre, HeadIs, TailSet
<1>2. Relabelled(jobs, jobs', a)
  BY <1>1, LandsGoes DEF ByDrain, ByNew
<1>3. /\ a.job \in 1..Len(jobs) /\ jobs'[a.job].state = a.state /\ jobs'[a.job].error = a.error
      /\ a.state # "queued"
      /\ j # a.job => jobs'[j] = jobs[j]
      /\ jobs' \in Seq(Job) /\ Len(jobs') = Len(jobs)
  BY <1>1, <1>2 DEF Relabelled, RecordOK, ByDrain
<1>4. ASSUME Asked(j)' PROVE Asked(j) \/ AsksFor(a, j)
  <2>1. CASE j # a.job
    BY <1>3, <1>4, <2>1 DEF Asked
  <2>2. CASE j = a.job
    <3>1. a.state = "awaiting" /\ a.error = "confirm"
      BY <1>3, <1>4, <2>2 DEF Asked
    <3>2. a.by = "finish"
      BY <1>1, <3>1 DEF RecordOK, ByDrain
    <3> QED BY <2>2, <3>1, <3>2 DEF AsksFor
  <2> QED BY <2>1, <2>2
<1>5. KeepsAsked(j)
  BY <1>1, <1>4, CameAsks DEF KeepsAsked
<1> QED BY <1>3, <1>5

\* runJob reads the confirmation: a job that may count on one finds it.
LEMMA StartedSteady ==
  ASSUME JobsInv, RunsQueued(jobs, appends), Started, NEW r \in Requests, NEW j \in 1..Len(jobs),
         Trusted(r, j), jobs[j].batch = requests[r].batch
  PROVE  Steady(j)
<1> PICK a : a = Head(appends)
  OBVIOUS
<1> PICK s, d : s = a.source /\ d = drain[s]
  OBVIOUS
<1> PICK g : g = IF jobGrants[a.job] # NoGrant THEN jobGrants[a.job] ELSE batchGrants[a.batch]
  OBVIOUS
<1>1. /\ appends # <<>> /\ a.by = "run" /\ AppendLands
      /\ drain' = [drain EXCEPT ![s].pc = "planning", ![s].grant = g]
      /\ UNCHANGED <<pending, jobGrants, batchGrants>>
  BY DEF Started, Lands, AppendLands
<1>2. /\ s \in Sources /\ d \in Drains /\ drain \in [Sources -> Drains]
      /\ RecordOK(jobs, pending, drain, a) /\ ByDrain(a) /\ ~ByNew(a) /\ appends \in Seq(Notes)
  BY <1>1, HeadIs, TypesAre DEF ByNew, ByDrain
<1>3. a.job = At(pending, drain, s) /\ a.batch = jobs[a.job].batch /\ jobs[a.job].state = "queued"
  <2>1. a \in ToSet(appends)
    BY <1>1, <1>2, TailSet
  <2> QED BY <1>1, <1>2, <2>1 DEF RecordOK, RunsQueued
<1>4. KeepsAsked(j) /\ KeepsGrants(j)
  BY <1>1, <1>2, KnownAsks DEF KeepsGrants
<1>5. j = a.job => g # NoGrant
  BY <1>3 DEF Trusted
<1> PICK new : new = [d EXCEPT !.pc = "planning", !.grant = g]
  OBVIOUS
<1>6. new.pc = "planning" /\ new.grant = g /\ new.own = d.own /\ new.shared = d.shared
  BY <1>2 DEF Drains
<1>7. drain' = [drain EXCEPT ![s] = new]
  BY <1>1, <1>2
<1>8. /\ drain'[s] = new /\ At(pending', drain', s) = At(pending, drain, s)
      /\ \A t \in Sources : t # s => Follows(pending, drain, pending', drain', t)
  <2>1. new.own = drain[s].own /\ new.shared = drain[s].shared /\ UNCHANGED pending
    BY <1>1, <1>6
  <2> QED BY <1>2, <1>7, <2>1, OneMoves
<1>9. KeepsPlans(j)
  <2> SUFFICES ASSUME NEW t \in Sources, drain'[t].pc = "planning", At(pending', drain', t) = j
               PROVE  \/ drain'[t].grant # NoGrant
                      \/ /\ drain[t].pc = "planning" /\ At(pending, drain, t) = j
                         /\ drain'[t].grant = drain[t].grant
    BY DEF KeepsPlans
  <2>1. CASE t = s
    <3>1. At(pending', drain', t) = a.job /\ drain'[t].grant = g
      BY ZenonT(90), <1>3, <1>6, <1>8, <2>1
    <3>2. j = a.job
      BY <3>1
    <3> QED BY <1>5, <3>1, <3>2
  <2>2. CASE t # s
    BY <1>8, <2>2 DEF Follows, Busy
  <2> QED BY <2>1, <2>2
<1> QED BY <1>4, <1>9 DEF Steady

LEMMA ReportedSteady ==
  ASSUME JobsInv, Reported, NEW j \in 1..Len(jobs)
  PROVE  Steady(j)
<1> PICK a : a = Head(appends)
  OBVIOUS
<1> PICK s, d : s = a.source /\ d = drain[s]
  OBVIOUS
<1>1. /\ appends # <<>> /\ a.by = "report" /\ AppendLands
      /\ drain' = [drain EXCEPT ![s].pc = "mutating"]
      /\ UNCHANGED <<pending, jobGrants, batchGrants>>
  BY DEF Reported, Lands, AppendLands
<1>2. s \in Sources /\ d \in Drains /\ drain \in [Sources -> Drains] /\ ByDrain(a)
  BY <1>1, HeadIs, TypesAre DEF ByDrain
<1>3. KeepsAsked(j) /\ KeepsGrants(j)
  BY <1>1, <1>2, KnownAsks DEF KeepsGrants
<1> PICK new : new = [d EXCEPT !.pc = "mutating"]
  OBVIOUS
<1>4. new.pc = "mutating" /\ new.own = d.own /\ new.shared = d.shared
  BY <1>2 DEF Drains
<1>5. drain' = [drain EXCEPT ![s] = new]
  BY <1>1, <1>2
<1>6. /\ drain'[s] = new /\ At(pending', drain', s) = At(pending, drain, s)
      /\ \A t \in Sources : t # s => Follows(pending, drain, pending', drain', t)
  <2>1. new.own = drain[s].own /\ new.shared = drain[s].shared /\ UNCHANGED pending
    BY <1>1, <1>4
  <2> QED BY <1>2, <1>5, <2>1, OneMoves
<1>7. KeepsPlans(j)
  BY <1>4, <1>6 DEF KeepsPlans, Follows, Busy
<1> QED BY <1>3, <1>7 DEF Steady

LEMMA FinishedSteady ==
  ASSUME JobsInv, Finished, NEW j \in 1..Len(jobs)
  PROVE  Steady(j)
<1> PICK a : a = Head(appends)
  OBVIOUS
<1>1. /\ appends # <<>> /\ a.by = "finish" /\ AppendLands /\ jobs' = With(a)
      /\ Forget(jobs', a.job) /\ Advance(a.source, With(a), Tail(appends))
  BY DEF Finished, Lands, AppendLands
<1>2. a.source \in Sources /\ ByDrain(a)
  BY <1>1, HeadIs DEF ByDrain
<1>3. /\ KeepsAsked(j) /\ jobs' \in Seq(Job) /\ Len(jobs') = Len(jobs)
      /\ jobs'[j].state = "queued" => jobs'[j] = jobs[j] /\ j # a.job
  BY <1>1, <1>2, KnownAsks
<1>4. KeepsGrants(j)
  <2> SUFFICES ASSUME jobs'[j].state = "queued" PROVE KeepsGrants(j)
    BY DEF KeepsGrants
  <2>1. j \in JobIds /\ jobs[j].batch \in Requests /\ jobs'[j] = jobs[j] /\ j # a.job
        /\ j \in 1..Len(jobs')
    BY <1>3, TypesAre
  <2>2. jobGrants'[j] = jobGrants[j] /\ batchGrants'[jobs'[j].batch] = batchGrants[jobs'[j].batch]
    BY <1>1, <1>3, <2>1, ForgetGrants
  <2> QED BY <2>1, <2>2 DEF KeepsGrants
<1>5. KeepsPlans(j)
  BY <1>1, <1>2, AdvanceFollows, FollowsPlans
<1> QED BY <1>3, <1>4, <1>5 DEF Steady

LEMMA SkipSteady ==
  ASSUME JobsInv, NEW s \in Sources, Skip(s), NEW j \in 1..Len(jobs)
  PROVE  Steady(j)
<1>1. /\ Came(jobs, appends, appends') /\ UNCHANGED <<jobs, requests, jobGrants, batchGrants>>
      /\ Advance(s, jobs, appends)
  BY SkipCame DEF Skip
<1>2. KeepsPlans(j)
  BY <1>1, AdvanceFollows, FollowsPlans
<1>3. KeepsGrants(j)
  BY <1>1 DEF KeepsGrants
<1>4. KeepsAsked(j)
  BY <1>1 DEF KeepsAsked, Came, AsksFor, Asked
<1> QED BY <1>2, <1>3, <1>4 DEF Steady

\* A run ends, with a record that asks for the confirmation only without one.
LEMMA EndsSteady ==
  ASSUME JobsInv, NEW s \in Sources, drain[s].pc # "idle", NEW state, NEW error,
         Ends(s, state, error), UNCHANGED <<jobs, pending, batchGrants>>, NEW j \in 1..Len(jobs),
         j = Current(s) => ~(state = "awaiting" /\ error = "confirm"), KeepsGrants(j)
  PROVE  Steady(j)
<1> PICK d : d = drain[s]
  OBVIOUS
<1>1. d \in Drains /\ drain \in [Sources -> Drains] /\ appends \in Seq(Notes)
  BY TypesAre
<1> PICK new : new = [d EXCEPT !.pc = "finishing"]
  OBVIOUS
<1>2. new.pc = "finishing" /\ new.own = d.own /\ new.shared = d.shared
  BY <1>1 DEF Drains
<1>3. drain' = [drain EXCEPT ![s] = new]
  BY <1>1 DEF Ends
<1>4. drain'[s] = new /\ \A t \in Sources : t # s => Follows(pending, drain, pending', drain', t)
  BY <1>2, <1>3, OneMoves
<1>5. KeepsPlans(j)
  BY <1>2, <1>4 DEF KeepsPlans, Follows, Busy
<1>6. \A n \in ToSet(appends') :
        \/ n \in ToSet(appends)
        \/ n.by = "finish" /\ n.job = Current(s) /\ n.state = state /\ n.error = error
  BY <1>1, ChangeIn DEF Ends
<1>7. KeepsAsked(j)
  BY <1>6 DEF KeepsAsked, AsksFor, Asked
<1> QED BY <1>5, <1>7 DEF Steady

LEMMA ThrowsAsks ==
  ASSUME NEW s, Throws(s)
  PROVE  \E state \in {"cancelled", "failed"} : \E error : Ends(s, state, error)
BY DEF Throws

LEMMA PlanSteady ==
  ASSUME JobsInv, NEW s \in Sources, Plan(s), NEW r \in Requests, NEW j \in 1..Len(jobs),
         Trusted(r, j)
  PROVE  Steady(j)
<1> PICK d : d = drain[s]
  OBVIOUS
<1>1. /\ d.pc = "planning" /\ UNCHANGED <<jobs, pending, jobGrants, batchGrants>>
      /\ d \in Drains /\ drain \in [Sources -> Drains] /\ appends \in Seq(Notes)
  BY TypesAre DEF Plan
<1>2. j = Current(s) => d.grant # NoGrant
  <2>1. Current(s) = At(pending, drain, s)
    BY <1>1, CurrentIs
  <2> QED BY <1>1, <2>1 DEF Trusted
<1>3. KeepsGrants(j)
  BY <1>1 DEF KeepsGrants
<1>4. ASSUME NEW state, NEW error, Ends(s, state, error),
             j = Current(s) => ~(state = "awaiting" /\ error = "confirm")
      PROVE  Steady(j)
  <2>1. drain[s].pc # "idle" /\ UNCHANGED <<jobs, pending, batchGrants>>
    BY <1>1
  <2> QED BY <1>3, <1>4, <2>1, EndsSteady
<1>5. CASE Throws(s)
  BY <1>4, <1>5, ThrowsAsks
<1>6. CASE Ends(s, "failed", "final")
  BY <1>4, <1>6
<1>7. CASE d.grant = NoGrant /\ \E error \in {"confirm", "final"} : Ends(s, "awaiting", error)
  BY <1>2, <1>4, <1>7
<1>8. CASE Ends(s, "awaiting", "force")
  BY <1>4, <1>8
<1>9. CASE /\ \E pc \in {"mutating", "reporting"} :
                drain' = [drain EXCEPT ![s].pc = pc, ![s].rev = revision]
           /\ \/ UNCHANGED appends
              \/ \E i, error : appends' = Append(appends, Change("report", i, "running", error))
  <2>1. PICK pc \in {"mutating", "reporting"} :
          drain' = [drain EXCEPT ![s].pc = pc, ![s].rev = revision]
    BY <1>9
  <2>2. PICK new : new = [d EXCEPT !.pc = pc, !.rev = revision]
    OBVIOUS
  <2>3. new.pc = pc /\ new.own = drain[s].own /\ new.shared = drain[s].shared /\ UNCHANGED pending
    BY <1>1, <2>2 DEF Drains
  <2>4. drain' = [drain EXCEPT ![s] = new]
    BY <1>1, <2>1, <2>2
  <2>5. drain'[s] = new /\ \A t \in Sources : t # s => Follows(pending, drain, pending', drain', t)
    BY <2>3, <2>4, OneMoves
  <2>6. KeepsPlans(j)
    BY <2>3, <2>5 DEF KeepsPlans, Follows, Busy
  <2>7. \A n \in ToSet(appends') : n \in ToSet(appends) \/ n.by = "report"
    BY SMTT(90), <1>1, <1>9, ChangeIn
  <2>8. KeepsAsked(j)
    BY <1>1, <2>7 DEF KeepsAsked, AsksFor, Asked
  <2> QED BY <1>3, <2>6, <2>8 DEF Steady
<1> QED BY <1>5, <1>6, <1>7, <1>8, <1>9 DEF Plan

LEMMA MutateSteady ==
  ASSUME JobsInv, NEW s \in Sources, Mutate(s), NEW j \in 1..Len(jobs)
  PROVE  Steady(j)
<1>1. /\ drain[s].pc = "mutating" /\ UNCHANGED <<jobs, pending, batchGrants>>
      /\ jobGrants \in [JobIds -> Grant \union {NoGrant}] /\ j \in JobIds
  BY TypesAre DEF Mutate, JobsInv, GrantTypes
<1>2. jobs[Current(s)].state # "queued"
  <2>1. Current(s) = At(pending, drain, s) /\ PassedOK(jobs, pending, drain)
    BY <1>1, CurrentIs DEF JobsInv, QueueInv, QueueOK
  <2> QED BY <1>1, <2>1 DEF PassedOK
<1>3. KeepsGrants(j)
  <2>1. j # Current(s) => jobGrants'[j] = jobGrants[j]
    BY <1>1 DEF Mutate
  <2> QED BY <1>1, <1>2, <2>1 DEF KeepsGrants
<1>4. \E state \in {"completed", "failed", "cancelled"} : \E error : Ends(s, state, error)
  BY ThrowsAsks DEF Mutate
<1>5. drain[s].pc # "idle" /\ UNCHANGED <<jobs, pending, batchGrants>>
  BY <1>1
<1> QED BY <1>3, <1>4, <1>5, EndsSteady

\* Every step of a process that lives, nobody cancelling.
LEMMA StepSteady ==
  ASSUME JobsInv, Quiet(jobs, appends), [Next]_vars, ~Restart, cancels' = 0,
         NEW r \in Requests, NEW j \in 1..Len(jobs), Trusted(r, j), jobs[j].batch = requests[r].batch
  PROVE  Steady(j)
<1>1. CASE \/ \E q \in Requests : Start(q) \/ \E i \in JobIds : Confirm(q, i)
           \/ \E i \in JobIds : Retry(i)
  BY <1>1, AsksSteady
<1>2. CASE AppendLands
  <2>1. CASE Enqueued \/ Retried
    BY <2>1, NewSteady
  <2>2. CASE Cancelled
    <3>1. appends # <<>> /\ Head(appends).by = "cancel"
      BY <2>2 DEF Cancelled, Lands
    <3>2. Head(appends) \in ToSet(appends)
      BY <3>1, TailSet, TypesAre
    <3> QED BY <3>1, <3>2 DEF Quiet, NoCancels
  <2>3. CASE Started
    BY <2>3, StartedSteady DEF Quiet
  <2>4. CASE Reported
    BY <2>4, ReportedSteady
  <2>5. CASE Finished
    BY <2>5, FinishedSteady
  <2> QED BY <1>2, <2>1, <2>2, <2>3, <2>4, <2>5 DEF AppendLands
<1>3. CASE \E s \in Sources : Works(s)
  BY <1>3, PlanSteady, MutateSteady, SkipSteady DEF Works
<1>4. CASE Serve \/ EditConfig \/ UNCHANGED vars
  <2>1. UNCHANGED <<jobs, pending, drain, jobGrants, batchGrants, appends>>
    BY <1>4 DEF Serve, EditConfig, vars
  <2>2. jobs[j].batch \in Requests
    BY TypesAre
  <2> QED BY <2>1, <2>2, IdleSteady
<1> QED BY <1>1, <1>2, <1>3, <1>4, NobodyCancels DEF Next

\* The jobs of the requests there are.
LEMMA MadeTrusted ==
  ASSUME GrantsInv, AllTrusted, NEW r \in Requests, requests[r].grant # NoGrant,
         NEW j \in requests[r].made, FirstOrLast(r, j)
  PROVE  j \in 1..Len(jobs) /\ jobs[j].batch = requests[r].batch /\ Trusted(r, j)
BY DEF GrantsInv, MadeOK, AllTrusted

\* A request that a step does not touch.
LEMMA RequestTrusted ==
  ASSUME JobsInv, GrantsInv, Quiet(jobs, appends), AllTrusted, [Next]_vars, ~Restart, cancels' = 0,
         NEW r \in Requests, requests'[r] = requests[r], requests[r].grant # NoGrant,
         NEW j \in requests[r].made, FirstOrLast(r, j)
  PROVE  Trusted(r, j)'
<1>1. j \in 1..Len(jobs) /\ jobs[j].batch = requests[r].batch /\ Trusted(r, j)
  BY MadeTrusted
<1>2. Steady(j)
  BY <1>1, StepSteady
<1> QED BY <1>1, <1>2, TrustedStays

\* The job whose record has just landed: it is queued, and has a confirmation.
LEMMA NewTrusted ==
  ASSUME JobsInv, BatchInv, GrantsInv, Enqueued, NEW r, r = Head(appends).req,
         requests[r].grant # NoGrant, NEW j, j = Len(jobs) + 1, FirstOrLast(r, j)'
  PROVE  Trusted(r, j)'
<1> PICK a : a = Head(appends)
  OBVIOUS
<1> PICK todo : todo = requests[r].todo
  OBVIOUS
<1>1. /\ r \in Requests /\ todo # <<>> /\ todo \in Seq(Sources)
      /\ requests'[r].todo = Tail(todo) /\ requests'[r].made = requests[r].made \union {j}
      /\ requests'[r].grant = requests[r].grant /\ requests'[r].batch = requests[r].batch
  BY TurnIs
<1>2. /\ appends # <<>> /\ ByNew(a) /\ jobs' = With(a) /\ UNCHANGED batchGrants
      /\ Came(jobs', Tail(appends), appends') /\ appends \in Seq(Notes) /\ Len(jobs) \in Nat
      /\ Len(jobs) + 1 <= MaxJobs
  <2>1. AppendLands /\ appends # <<>> /\ ByNew(a)
    BY ZenonT(90) DEF AppendLands, Enqueued, Lands, ByNew
  <2>2. UNCHANGED batchGrants
    BY ZenonT(90) DEF Enqueued
  <2>3. jobs' = With(a) /\ Came(jobs', Tail(appends), appends')
    BY <2>1, LandsCame
  <2>4. appends \in Seq(Notes) /\ Len(jobs) \in Nat
    BY TypesAre
  <2> QED BY SMTT(90), <2>1, <2>2, <2>3, <2>4, NewHasRoom
<1>3. jobs'[j].state = "queued" /\ j \in JobIds /\ j \notin 1..Len(jobs)
  <2>1. With(a)[j].state = "queued"
    BY <1>2, NewJoins
  <2>2. j \in JobIds /\ j \notin 1..Len(jobs)
    BY SMTT(90), <1>2, CountsAre DEF JobIds
  <2> QED BY <1>2, <2>1, <2>2
<1>4. ASSUME Tail(todo) = <<>> PROVE jobGrants'[j] # NoGrant
  BY ZenonT(90), <1>1, <1>3, <1>4 DEF Enqueued
<1>5. ASSUME Tail(todo) # <<>> PROVE batchGrants'[requests'[r].batch] # NoGrant
  <2>1. \A i \in requests[r].made : i \in 1..Len(jobs)
    BY <1>1 DEF GrantsInv, MadeOK
  <2>2. requests[r].made = {}
    <3>1. \A i \in requests'[r].made : j <= i
      BY <1>1, <1>5 DEF FirstOrLast
    <3>2. ASSUME NEW i \in requests[r].made PROVE FALSE
      <4>1. j <= i /\ i \in 1..Len(jobs)
        BY <1>1, <2>1, <3>1
      <4> QED BY <1>2, <4>1
    <3> QED BY SMTT(90), <3>2
  <2>3. requests[r].batch = r
    <3>1. Len(todo) > 1
      BY SMTT(90), <1>1, <1>5
    <3>2. Len(todo) \in Nat /\ (requests[r].batch # r => Len(todo) <= 1)
      BY <1>1 DEF BatchInv, SingleOK
    <3> QED BY <3>1, <3>2
  <2>4. Unmade(requests, r)
    BY <1>1, <2>2, <2>3 DEF Unmade
  <2>5. batchGrants[r] # NoGrant
    BY <1>1, <2>4 DEF BatchInv, FirstGrantOK
  <2> QED BY <1>1, <1>2, <2>3, <2>5
<1>6. ASSUME NEW s \in Sources, drain'[s].pc = "planning", At(pending', drain', s) = j PROVE FALSE
  <2>1. Joined
    BY EnqueuedKeeps
  <2>2. Follows(pending, drain, pending', drain', s)
    BY <1>2, <2>1, NewFollows DEF Joined
  <2>3. drain[s].pc = "planning" /\ At(pending, drain, s) = j
    BY <1>6, <2>2 DEF Follows, Busy
  <2>4. At(pending, drain, s) \in 1..Len(jobs)
    BY <2>3, CurrentIs
  <2> QED BY <1>3, <2>3, <2>4
<1>7. ASSUME NEW n \in ToSet(appends'), AsksFor(n, j) PROVE FALSE
  <2>1. n \in ToSet(appends) /\ n.by = "finish" /\ n.job = j
    BY <1>2, <1>7, CameAsks DEF AsksFor
  <2>2. RecordsOK(jobs, pending, drain, appends) /\ \E i \in 1..Len(appends) : appends[i] = n
    BY <1>2, <2>1, SetIs DEF JobsInv, QueueInv, QueueOK
  <2>3. n.job \in 1..Len(jobs)
    BY <2>1, <2>2 DEF RecordsOK, RecordOK, ByNew
  <2> QED BY <1>3, <2>1, <2>3
<1>8. ~Asked(j)'
  BY <1>3 DEF Asked
<1>9. jobs'[j].state = "queued" =>
        IF requests'[r].todo = <<>> THEN jobGrants'[j] # NoGrant
                                    ELSE batchGrants'[requests'[r].batch] # NoGrant
  BY <1>1, <1>4, <1>5
<1> QED BY <1>6, <1>7, <1>8, <1>9 DEF Trusted

\* The jobs the request had already: the last landing gives them all the confirmation.
LEMMA OlderTrusted ==
  ASSUME JobsInv, GrantsInv, Quiet(jobs, appends), AllTrusted, Enqueued, ~Restart, cancels' = 0,
         NEW r, r = Head(appends).req, requests[r].grant # NoGrant,
         NEW j \in requests[r].made, FirstOrLast(r, j)'
  PROVE  Trusted(r, j)'
<1> PICK todo : todo = requests[r].todo
  OBVIOUS
<1>1. /\ r \in Requests /\ todo # <<>> /\ todo \in Seq(Sources)
      /\ requests'[r].todo = Tail(todo)
      /\ requests'[r].made = requests[r].made \union {Len(jobs) + 1}
      /\ requests'[r].grant = requests[r].grant /\ requests'[r].batch = requests[r].batch
  BY TurnIs
<1>2. j \in 1..Len(jobs) /\ Len(jobs) \in Nat /\ jobs[j].batch = requests[r].batch
  BY <1>1, TypesAre DEF GrantsInv, MadeOK
<1>3. FirstOrLast(r, j)
  <2>1. ~(Len(jobs) + 1 <= j)
    BY <1>2
  <2>2. \A i \in requests[r].made : j <= i
    BY <1>1, <2>1 DEF FirstOrLast
  <2> QED BY <2>2 DEF FirstOrLast
<1>4. Trusted(r, j)
  BY <1>1, <1>3, MadeTrusted
<1>5. Steady(j)
  <2>1. [Next]_vars
    BY DEF Next, AppendLands
  <2> QED BY <1>1, <1>2, <1>4, <2>1, StepSteady
<1>6. jobs'[j].state = "queued" =>
        IF requests'[r].todo = <<>> THEN jobGrants'[j] # NoGrant
                                    ELSE batchGrants'[requests'[r].batch] # NoGrant
  <2> SUFFICES ASSUME jobs'[j].state = "queued"
               PROVE  IF requests'[r].todo = <<>> THEN jobGrants'[j] # NoGrant
                                                  ELSE batchGrants'[requests'[r].batch] # NoGrant
    OBVIOUS
  <2>1. CASE Tail(todo) = <<>>
    <3>1. j \in JobIds
      BY SMTT(90), <1>2, TypesAre
    <3>2. jobGrants'[j] = requests[r].grant
      BY ZenonT(90), <1>1, <2>1, <3>1 DEF Enqueued
    <3> QED BY <1>1, <2>1, <3>2
  <2>2. CASE Tail(todo) # <<>>
    BY <1>1, <1>2, <1>4, <1>5, <2>2 DEF Trusted, Steady, KeepsGrants
  <2> QED BY <2>1, <2>2
<1>7. \A s \in Sources :
        drain'[s].pc = "planning" /\ At(pending', drain', s) = j => drain'[s].grant # NoGrant
  BY <1>4, <1>5 DEF Trusted, Steady, KeepsPlans
<1>8. (\A n \in ToSet(appends') : ~AsksFor(n, j)) /\ ~Asked(j)'
  BY <1>4, <1>5 DEF Trusted, Steady, KeepsAsked
<1> QED BY <1>6, <1>7, <1>8 DEF Trusted

LEMMA AllTrustedKept ==
  ASSUME JobsInv, IdleOK(requests), BatchInv, GrantsInv, Quiet(jobs, appends), AllTrusted,
         [Next]_vars, cancels' = 0
  PROVE  AllTrusted'
<1> SUFFICES ASSUME NEW r \in Requests, requests'[r].grant # NoGrant,
                    NEW j \in requests'[r].made, FirstOrLast(r, j)'
             PROVE  Trusted(r, j)'
  BY DEF AllTrusted
<1>1. CASE Restart
  BY <1>1, RestartBatch
<1>2. CASE ~Restart /\ requests'[r] = requests[r]
  <2>1. FirstOrLast(r, j)
    BY <1>2 DEF FirstOrLast
  <2> QED BY <1>2, <2>1, RequestTrusted
<1>3. CASE ~Restart /\ Enqueued /\ r = Head(appends).req
  <2>1. requests'[r].grant = requests[r].grant /\ requests'[r].made = requests[r].made \union {Len(jobs) + 1}
    BY <1>3, TurnIs
  <2>2. j \in requests[r].made \/ j = Len(jobs) + 1
    BY <2>1
  <2> QED BY <1>3, <2>1, <2>2, NewTrusted, OlderTrusted
<1>4. CASE Enqueued /\ r # Head(appends).req
  <2>1. requests'[r] = requests[r]
    BY <1>4, TurnIs
  <2> QED BY <1>1, <1>2, <2>1
<1>5. CASE \E q \in Requests : Start(q) \/ \E i \in JobIds : Confirm(q, i)
  <2>1. PICK q, sources, trust, force, b : q \in Requests /\ QueueBatch(q, sources, trust, force, b)
    BY <1>5 DEF Start, Confirm
  <2>2. requests' = [requests EXCEPT ![q] = [pc |-> "queueing", batch |-> b, grant |-> GrantFor(trust, force),
                                             todo |-> sources, made |-> {}]]
    BY <2>1 DEF QueueBatch
  <2>3. requests'[r] = requests[r] \/ requests'[r].made = {}
    BY <2>2, TypesAre
  <2> QED BY <1>1, <1>2, <2>3
<1>6. CASE UNCHANGED requests
  BY SMTT(90), <1>1, <1>2, <1>6
<1>7. \/ Restart \/ Enqueued \/ UNCHANGED requests
      \/ \E q \in Requests : Start(q) \/ \E i \in JobIds : Confirm(q, i)
  BY DEF Next, Retry, Cancel, AppendLands, Retried, Cancelled, Started, Reported, Finished,
         Works, Plan, Mutate, Skip, Serve, EditConfig, vars
<1> QED BY <1>1, <1>3, <1>4, <1>5, <1>6, <1>7

LEMMA TrustKept ==
  ASSUME JobsInv, IdleOK(requests), GrantsInv, TrustInv, [Next]_vars
  PROVE  TrustInv'
<1>1. BatchInv /\ BatchInv'
  BY BatchKept DEF TrustInv
<1>2. ASSUME cancels' = 0
      PROVE  NoCancels(appends') /\ RunsQueued(jobs', appends') /\ AllTrusted'
  <2>1. Quiet(jobs, appends) /\ AllTrusted
    BY <1>2, NobodyCancels DEF TrustInv, Quiet
  <2>2. Quiet(jobs', appends')
    BY <1>2, <2>1, QuietKept
  <2>3. AllTrusted'
    BY <1>1, <1>2, <2>1, AllTrustedKept
  <2> QED BY <2>2, <2>3 DEF Quiet
<1> QED BY <1>1, <1>2 DEF TrustInv

LEMMA TrustStarts ==
  ASSUME Init
  PROVE  TrustInv
<1>1. /\ jobs = <<>> /\ appends = <<>>
      /\ requests = [r \in Requests |-> [pc |-> "idle", batch |-> r, grant |-> NoGrant,
                                         todo |-> <<>>, made |-> {}]]
  BY DEF Init
<1>2. ToSet(<<>>) = {} /\ Len(<<>>) = 0
  BY DEF ToSet
<1>3. \A r \in Requests : requests[r].grant = NoGrant /\ requests[r].batch = r
  BY <1>1
<1>4. BatchInv
  BY <1>1, <1>2, <1>3 DEF BatchInv, UnmadeOK, SingleOK, FirstGrantOK, Seen
<1>5. NoCancels(appends) /\ RunsQueued(jobs, appends)
  BY <1>1, <1>2 DEF NoCancels, RunsQueued
<1> QED BY <1>3, <1>4, <1>5 DEF TrustInv, AllTrusted

\* Who may count on a confirmation finds it, and no batch is taken for another's.
THEOREM TrustHolds == Spec => []TrustInv
<1>1. Init => TrustInv
  BY TrustStarts
<1>2. (JobsInv /\ IdleOK(requests)) /\ GrantsInv /\ TrustInv /\ [Next]_vars => TrustInv'
  BY TrustKept
<1> QED BY <1>1, <1>2, JobsHold, GrantsHold, PTL DEF Spec

\* While nobody cancels, the first and the last job of a confirmed request are not
\* sent back for the confirmation (queueBatch, runJob, maybeDeleteBatchGrant).
THEOREM ConfirmedStaysUnasked == Spec => []ConfirmedIsNotAsked
<1>1. TrustInv => ConfirmedIsNotAsked
  BY DEF TrustInv, AllTrusted, Trusted, ConfirmedIsNotAsked
<1> QED BY <1>1, TrustHolds, PTL
=============================================================================
