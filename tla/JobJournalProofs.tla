-------------------------- MODULE JobJournalProofs --------------------------
(***************************************************************************)
(* What JobJournal promises, for any number of appends, crashes and faults. *)
(* The inductive invariant has two halves.  CallsInv holds always: appends  *)
(* take their turn, so that the one between its write and its sync is alone *)
(* and its record, the last of the file and not yet synced, carries the     *)
(* next number.  SoundInv holds until something is appended behind a cut or  *)
(* uncounted tail: piece i carries number i, all pieces but the last are     *)
(* records, what is acknowledged is synced and what is served is in the file. *)
(***************************************************************************)
EXTENDS JobJournal, TLAPS

Settled == {"acked", "failed", "lost"}

CallsInv ==
  /\ \A i \in DOMAIN file : calls[file[i].id] \notin {"none", "waiting"}
  /\ \A i, j \in DOMAIN file : file[i].id = file[j].id => i = j
  /\ \A c \in Calls : calls[c] = "written" =>
       /\ \A b \in Calls : b < c => calls[b] \in Settled
       /\ \A i \in DOMAIN file :
            file[i].id = c => file[i].whole /\ file[i].ended /\ file[i].seq = last + 1
       /\ durable < Len(file) /\ file[Len(file)].id = c
  /\ \A e \in served : calls[e.id] \in Settled
  /\ up = "up" => events \subseteq served
  /\ up # "up" => \A c \in Calls : calls[c] \notin {"waiting", "written"}

\* All pieces but the last are records, and the i-th has the number i.
Aligned ==
  \A i \in DOMAIN file : file[i].seq = i /\ (i < Len(file) => file[i].whole /\ file[i].ended)
\* What call c says is on the disk; what event e says is at least in the file.
OnDisk(i)   == i \in DOMAIN file /\ i <= durable /\ file[i].whole
AckedOnDisk == \A c \in Calls : calls[c] = "acked" => \E i \in DOMAIN file : OnDisk(i) /\ file[i].id = c
ServedInFile == \A e \in served : \E i \in DOMAIN file : file[i].whole /\ EventOf(file[i]) = e
\* What is served is the file up to the last number.
ServesFile ==
  up = "up" =>
    /\ last \in {Len(file), Len(file) - 1}
    /\ \A i \in 1..last : file[i].whole
    /\ \A i \in 1..durable : file[i].whole => i <= last
    /\ events = {EventOf(file[i]) : i \in 1..last}
SoundInv == ~spoilt => /\ Aligned /\ AckedOnDisk /\ ServedInFile /\ ServesFile
                       /\ up # "refusing"

IInv == TypeOK /\ CallsInv /\ SoundInv

-----------------------------------------------------------------------------
LEMMA InitIInv == Init => IInv
<1> SUFFICES ASSUME Init PROVE IInv
  OBVIOUS
<1>1. TypeOK
  <2>1. {e.seq : e \in events} = 1..last
    BY DEF Init
  <2>2. {MaxCrashes, MaxFaults} \subseteq Nat
    BY JournalAssumption
  <2>3. file \in Seq(Piece) /\ durable \in 0..Len(file)
    BY DEF Init
  <2>4. crashes \in 0..MaxCrashes /\ faults \in 0..MaxFaults
    BY <2>2 DEF Init
  <2> QED BY <2>1, <2>3, <2>4 DEF Init, TypeOK
<1>2. CallsInv
  BY DEF Init, CallsInv
<1>3. SoundInv
  <2>1. file = <<>> /\ events = {} /\ last = 0 /\ durable = 0 /\ served = {} /\ up = "up"
    BY DEF Init
  <2>2. Aligned /\ AckedOnDisk /\ ServedInFile
    BY <2>1 DEF Init, Aligned, AckedOnDisk, ServedInFile
  <2>3. ServesFile
    BY <2>1 DEF ServesFile
  <2> QED BY <2>1, <2>2, <2>3 DEF SoundInv
<1> QED BY <1>1, <1>2, <1>3 DEF IInv

\* An interval from one names its end.
LEMMA SameInterval ==
  ASSUME NEW m \in Nat, NEW n \in Nat, 1..m = 1..n
  PROVE  m = n
<1>1. m > 0 => m \in 1..n
  OBVIOUS
<1>2. n > 0 => n \in 1..m
  OBVIOUS
<1> QED BY <1>1, <1>2

LEMMA AllButTheLast ==
  ASSUME NEW n \in Nat, n # 0, NEW S, S \subseteq 1..n, \A i \in 1..n : i \in S <=> i < n
  PROVE  S = 1..(n - 1)
<1>1. \A i \in S : i \in 1..(n - 1)
  OBVIOUS
<1>2. \A i \in 1..(n - 1) : i \in S
  <2> SUFFICES ASSUME NEW i \in 1..(n - 1) PROVE i \in S
    OBVIOUS
  <2>1. i \in 1..n /\ i < n
    OBVIOUS
  <2> QED BY <2>1
<1> QED BY <1>1, <1>2

LEMMA PieceHasEvent ==
  \A p \in Piece : EventOf(p) \in Event
  BY DEF Piece, Event, EventOf

LEMMA FileOfPieces ==
  ASSUME TypeOK
  PROVE  /\ Len(file) \in Nat /\ DOMAIN file = 1..Len(file)
         /\ \A i \in DOMAIN file : file[i] \in Piece /\ file[i].id \in Calls
<1>1. file \in Seq(Piece)
  BY DEF TypeOK
<1>2. Len(file) \in Nat /\ DOMAIN file = 1..Len(file)
  BY <1>1
<1>3. \A i \in DOMAIN file : file[i] \in Piece
  BY <1>1
<1>4. \A p \in Piece : p.id \in Calls
  BY DEF Piece
<1> QED BY <1>2, <1>3, <1>4

\* A line that is a record, when the pieces are aligned.
LEMMA RecordsOfAligned ==
  ASSUME TypeOK, Aligned
  PROVE  /\ \A i \in DOMAIN file : i \in Records <=> file[i].whole
         /\ \A n \in 0..Len(file) :
              Counts(n) => Records = 1..n /\ n \in {Len(file), Len(file) - 1}
         /\ \E n \in 0..Len(file) : Readable(n)
<1>0. file \in Seq(Piece) /\ Len(file) \in Nat /\ DOMAIN file = 1..Len(file)
  BY DEF TypeOK
<1>a. Records \subseteq 1..Len(file)
  BY <1>0 DEF Records
<1>1. \A i \in DOMAIN file : i \in Records <=> file[i].whole
  BY <1>0 DEF Records, IsRecord, Aligned
<1>2. {file[i].seq : i \in Records} = Records
  BY DEF Aligned, Records
<1>4. Records = 1..Len(file) \/ (Len(file) # 0 /\ Records = 1..(Len(file) - 1))
  <2>1. CASE Len(file) = 0
    BY <1>0, <1>a, <2>1
  <2>2. CASE Len(file) # 0 /\ file[Len(file)].whole
    <3>1. \A i \in DOMAIN file : file[i].whole
      BY <1>0, <2>2 DEF Aligned
    <3> QED BY <1>0, <1>1, <1>a, <3>1
  <2>3. CASE Len(file) # 0 /\ ~file[Len(file)].whole
    <3>1. \A i \in DOMAIN file : i \in Records <=> i < Len(file)
      BY <1>0, <1>1, <2>3 DEF Aligned
    <3>2. Records = 1..(Len(file) - 1)
      BY <1>0, <1>a, <2>3, <3>1, AllButTheLast
    <3> QED BY <2>3, <3>2
  <2> QED BY <2>1, <2>2, <2>3
<1>5. \E n \in 0..Len(file) : Counts(n)
  <2>1. \A i, j \in Records : i < j => file[i].seq < file[j].seq
    BY DEF Aligned, Records
  <2>2. \A n \in 0..Len(file) : Records = 1..n => Counts(n)
    BY <1>2, <2>1 DEF Counts
  <2>3. CASE Records = 1..Len(file)
    <3>1. Len(file) \in 0..Len(file)
      BY <1>0
    <3>2. Counts(Len(file))
      BY <2>2, <2>3, <3>1
    <3> QED BY <3>1, <3>2
  <2>4. CASE Len(file) # 0 /\ Records = 1..(Len(file) - 1)
    <3>1. Len(file) - 1 \in 0..Len(file)
      BY <1>0, <2>4
    <3>2. Counts(Len(file) - 1)
      BY <2>2, <2>4, <3>1
    <3> QED BY <3>1, <3>2
  <2> QED BY <1>4, <2>3, <2>4
<1>3. \A n \in 0..Len(file) :
        Counts(n) => Records = 1..n /\ n \in {Len(file), Len(file) - 1}
  <2> SUFFICES ASSUME NEW n \in 0..Len(file), Counts(n)
               PROVE  Records = 1..n /\ n \in {Len(file), Len(file) - 1}
    OBVIOUS
  <2>1. Records = 1..n
    BY Zenon, <1>2 DEF Counts
  <2>2. CASE Records = 1..Len(file)
    <3>1. n \in Nat
      BY <1>0
    <3>2. 1..n = 1..Len(file)
      BY <2>1, <2>2
    <3> QED BY Zenon, <1>0, <2>1, <3>1, <3>2, SameInterval
  <2>3. CASE Len(file) # 0 /\ Records = 1..(Len(file) - 1)
    <3>1. Len(file) - 1 \in Nat
      BY <1>0, <2>3
    <3>2. n \in Nat
      BY <1>0
    <3>3. 1..n = 1..(Len(file) - 1)
      BY <2>1, <2>3
    <3> QED BY <2>1, <3>1, <3>2, <3>3, SameInterval
  <2> QED BY <1>4, <2>1, <2>2, <2>3
<1>6. \A i \in DOMAIN file : i \in Records \/ Tolerated(i)
  <2> SUFFICES ASSUME NEW i \in DOMAIN file, i \notin Records PROVE Tolerated(i)
    OBVIOUS
  <2>1. i = Len(file)
    BY <1>0, <1>4
  <2> QED BY <1>0, <2>1 DEF Tolerated, LastLine
<1> QED BY <1>1, <1>3, <1>5, <1>6 DEF Readable

-----------------------------------------------------------------------------
\* A start: it finds the records, and nothing else has changed.
LEMMA StartStep ==
  ASSUME IInv, Start
  PROVE  IInv'
<1> USE DEF IInv
<1>0. file \in Seq(Piece) /\ Len(file) \in Nat /\ DOMAIN file = 1..Len(file)
  BY DEF TypeOK
<1>1. UNCHANGED <<file, durable, calls, spoilt, crashes, faults>> /\ up = "dead"
  BY DEF Start
<1>2. \A c \in Calls : calls[c] \notin {"waiting", "written"}
  BY <1>1 DEF CallsInv
<1>3. CASE \E n \in 0..Len(file) : /\ Readable(n)
                                   /\ up' = "up"
                                   /\ events' = {EventOf(file[i]) : i \in Records}
                                   /\ last' = Restored(n)
                                   /\ served' = served \union events'
  <2>1. PICK n \in 0..Len(file) : /\ Readable(n)
                                  /\ up' = "up"
                                  /\ events' = {EventOf(file[i]) : i \in Records}
                                  /\ last' = n
                                  /\ served' = served \union events'
    BY <1>3 DEF Restored
  <2>2. Counts(n)
    BY <2>1 DEF Readable
  <2>3. events' \in SUBSET Event /\ {e.seq : e \in events'} = 1..n
    <3>1. \A i \in Records : EventOf(file[i]).seq = file[i].seq
      BY DEF EventOf
    <3>2. {e.seq : e \in events'} = {file[i].seq : i \in Records}
      BY <2>1, <3>1
    <3>3. \A i \in DOMAIN file : EventOf(file[i]) \in Event
      BY <1>0, PieceHasEvent
    <3>4. Records \subseteq DOMAIN file
      BY DEF Records
    <3>5. events' \subseteq Event
      BY <2>1, <3>3, <3>4
    <3> QED BY <2>2, <3>2, <3>5 DEF Counts
  <2>4. TypeOK'
    BY <1>0, <1>1, <2>1, <2>3 DEF TypeOK
  <2>5. CallsInv'
    <3>1. ASSUME NEW e \in served' PROVE calls[e.id] \in Settled
      <4>1. CASE e \in served
        BY <4>1 DEF CallsInv
      <4>2. CASE e \in events'
        <5>1. PICK i \in Records : e = EventOf(file[i])
          BY <2>1, <4>2
        <5>2. i \in DOMAIN file /\ e.id = file[i].id /\ file[i].id \in Calls
          BY <5>1, FileOfPieces DEF Records, EventOf
        <5>3. calls[e.id] \notin {"none", "waiting", "written"}
          BY <1>2, <5>2 DEF CallsInv
        <5>4. calls[e.id] \in {"none", "waiting", "written", "acked", "failed", "lost"}
          BY <5>2 DEF TypeOK
        <5> QED BY <5>3, <5>4 DEF Settled
      <4> QED BY <2>1, <3>1, <4>1, <4>2
    <3> QED BY <1>1, <1>2, <2>1, <3>1 DEF CallsInv
  <2>6. SoundInv'
    <3> SUFFICES ASSUME ~spoilt PROVE (Aligned /\ AckedOnDisk /\ ServedInFile /\ ServesFile)'
      BY <1>1, <2>1 DEF SoundInv
    <3>1. Aligned /\ AckedOnDisk /\ ServedInFile
      BY DEF SoundInv
    <3>2. Records = 1..n /\ \A i \in DOMAIN file : i \in Records <=> file[i].whole
      BY <2>2, <3>1, RecordsOfAligned
    <3>3. Aligned' /\ AckedOnDisk'
      BY <1>1, <3>1 DEF Aligned, AckedOnDisk, OnDisk
    <3>4. ServedInFile'
      <4> SUFFICES ASSUME NEW e \in served' PROVE \E i \in DOMAIN file : file[i].whole /\ EventOf(file[i]) = e
        BY <1>1 DEF ServedInFile, EventOf
      <4>1. CASE e \in served
        BY <3>1, <4>1 DEF ServedInFile
      <4>2. CASE e \in events'
        <5>1. PICK i \in Records : e = EventOf(file[i])
          BY <2>1, <4>2
        <5>2. i \in DOMAIN file /\ file[i].whole
          BY <3>2 DEF Records
        <5> QED BY <5>1, <5>2
      <4> QED BY <2>1, <4>1, <4>2
    <3>5. ServesFile'
      <4>1. n \in {Len(file), Len(file) - 1}
        BY <2>2, <3>1, RecordsOfAligned
      <4>2. /\ \A i \in 1..n : file[i].whole
            /\ \A i \in 1..Len(file) : file[i].whole => i <= n
        BY <1>0, <3>2
      <4>3. events' = {EventOf(file[i]) : i \in 1..n}
        BY <2>1, <3>2
      <4>4. \A i \in 1..durable : i \in 1..Len(file)
        BY <1>0 DEF TypeOK
      <4> QED BY <1>1, <2>1, <4>1, <4>2, <4>3, <4>4 DEF ServesFile, EventOf
    <3> QED BY <3>3, <3>4, <3>5
  <2> QED BY <2>4, <2>5, <2>6
<1>4. CASE /\ \A n \in 0..Len(file) : ~Readable(n)
           /\ up' = "refusing"
           /\ UNCHANGED <<events, last, served>>
  <2>1. spoilt
    BY <1>4, RecordsOfAligned DEF SoundInv
  <2>2. TypeOK'
    BY <1>1, <1>4 DEF TypeOK
  <2>3. CallsInv'
    BY <1>1, <1>2, <1>4 DEF CallsInv
  <2> QED BY <1>1, <2>1, <2>2, <2>3 DEF SoundInv
<1> QED BY <1>3, <1>4 DEF Start
-----------------------------------------------------------------------------
\* The other ways of not changing the file.
LEMMA CallStep ==
  ASSUME IInv, NEW c \in Calls, Call(c)
  PROVE  IInv'
<1> USE DEF IInv
<1>1. UNCHANGED <<file, durable, events, last, up, served, spoilt, crashes, faults>>
  BY DEF Call
<1>2. calls' = [calls EXCEPT ![c] = "waiting"] /\ calls[c] = "none" /\ up = "up"
  BY DEF Call
<1>3. calls' \in [Calls -> {"none", "waiting", "written", "acked", "failed", "lost"}]
  BY <1>2 DEF TypeOK
<1>4. TypeOK'
  BY <1>1, <1>3 DEF TypeOK
<1>5. \A b \in Calls : b # c => calls'[b] = calls[b]
  BY <1>2 DEF TypeOK
<1>6. calls'[c] = "waiting"
  BY <1>2 DEF TypeOK
<1>7. \A i \in DOMAIN file : file[i].id \in Calls
  BY FileOfPieces
<1>8. CallsInv'
  <2>1. \A i \in DOMAIN file : file[i].id # c
    BY <1>2 DEF CallsInv
  <2>2. \A i \in DOMAIN file : calls'[file[i].id] \notin {"none", "waiting"}
    BY <1>5, <1>7, <2>1 DEF CallsInv
  <2>3. \A b \in Calls : calls'[b] = "written" => calls[b] = "written" /\ b # c
    BY <1>5, <1>6
  <2>4. \A b \in Calls : calls[b] \in Settled => calls'[b] \in Settled
    BY <1>2, <1>5 DEF Settled
  <2> QED BY <1>1, <1>2, <2>2, <2>3, <2>4 DEF CallsInv
<1>9. SoundInv'
  <2> SUFFICES ASSUME ~spoilt PROVE AckedOnDisk'
    BY <1>1 DEF SoundInv, Aligned, ServedInFile, ServesFile, OnDisk
  <2>1. \A b \in Calls : calls'[b] = "acked" => calls[b] = "acked"
    BY <1>5, <1>6
  <2> QED BY <1>1, <2>1 DEF SoundInv, AckedOnDisk, OnDisk
<1> QED BY <1>4, <1>8, <1>9

-----------------------------------------------------------------------------
\* A call that fails and leaves the file as it is.
LEMMA FailStep ==
  ASSUME IInv, NEW c \in Calls, calls[c] \in {"waiting", "written"}, faults < MaxFaults,
         faults' = faults + 1, calls' = [calls EXCEPT ![c] = "failed"],
         UNCHANGED <<file, durable, events, last, up, served, spoilt, crashes>>
  PROVE  IInv'
<1> USE DEF IInv
<1>1. UNCHANGED <<file, durable, events, last, up, served, spoilt, crashes>>
  OBVIOUS
<1>2. calls' = [calls EXCEPT ![c] = "failed"] /\ calls[c] \in {"waiting", "written"}
  OBVIOUS
<1>3. calls' \in [Calls -> {"none", "waiting", "written", "acked", "failed", "lost"}]
  BY <1>2 DEF TypeOK
<1>4. faults' \in 0..MaxFaults
  BY JournalAssumption DEF TypeOK
<1>5. TypeOK'
  BY <1>1, <1>3, <1>4 DEF TypeOK
<1>6. \A b \in Calls : (b # c => calls'[b] = calls[b]) /\ calls'[c] = "failed"
  BY <1>2 DEF TypeOK
<1>7. \A i \in DOMAIN file : file[i].id \in Calls
  BY FileOfPieces
<1>8. CallsInv'
  <2>1. \A i \in DOMAIN file : calls'[file[i].id] \notin {"none", "waiting"}
    BY <1>6, <1>7 DEF CallsInv
  <2>2. \A b \in Calls : calls'[b] = "written" => calls[b] = "written" /\ b # c
    BY <1>6
  <2>3. \A b \in Calls : calls[b] \in Settled => calls'[b] \in Settled
    BY <1>2, <1>6 DEF Settled
  <2>4. up' # "up" => \A b \in Calls : calls'[b] \notin {"waiting", "written"}
    BY <1>1, <1>6 DEF CallsInv
  <2> QED BY <1>1, <2>1, <2>2, <2>3, <2>4 DEF CallsInv
<1>9. SoundInv'
  <2> SUFFICES ASSUME ~spoilt PROVE AckedOnDisk'
    BY <1>1 DEF SoundInv, Aligned, ServedInFile, ServesFile, OnDisk
  <2>1. \A b \in Calls : calls'[b] = "acked" => calls[b] = "acked"
    BY <1>6
  <2> QED BY <1>1, <2>1 DEF SoundInv, AckedOnDisk, OnDisk
<1> QED BY <1>5, <1>8, <1>9
-----------------------------------------------------------------------------
\* A write adds one piece, and changes none.
LEMMA Appended ==
  ASSUME TypeOK, NEW c \in Calls, NEW whole \in BOOLEAN, NEW ended \in BOOLEAN,
         Writes(c, whole, ended)
  PROVE  /\ file' \in Seq(Piece) /\ Len(file') = Len(file) + 1
         /\ DOMAIN file' = 1..(Len(file) + 1)
         /\ \A i \in DOMAIN file : file'[i] = file[i]
         /\ file'[Len(file) + 1] = [id |-> c, seq |-> last + 1, whole |-> whole, ended |-> ended]
<1> DEFINE p == [id |-> c, seq |-> last + 1, whole |-> whole, ended |-> ended]
<1>1. p \in Piece
  BY DEF TypeOK, Piece
<1>2. file' = Append(file, p)
  BY DEF Writes
<1>3. file \in Seq(Piece)
  BY DEF TypeOK
<1> HIDE DEF p
<1>4. /\ file' \in Seq(Piece) /\ Len(file') = Len(file) + 1
      /\ DOMAIN file' = 1..(Len(file) + 1)
      /\ \A i \in DOMAIN file : file'[i] = file[i]
      /\ file'[Len(file) + 1] = p
  BY <1>1, <1>2, <1>3
<1> QED BY <1>4 DEF p

\* A sound tail, when its turn has come, is the last record served.
LEMMA TailCounts ==
  ASSUME IInv, NEW c \in Calls, calls[c] = "waiting", Turn(c), ~spoilt, TailIsSound
  PROVE  /\ up = "up" /\ last = Len(file)
         /\ \A i \in DOMAIN file : file[i].whole /\ file[i].ended
<1> USE DEF IInv
<1>0. Len(file) \in Nat /\ DOMAIN file = 1..Len(file)
      /\ \A i \in DOMAIN file : file[i].id \in Calls
  BY FileOfPieces
<1>1. up = "up"
  BY DEF CallsInv
<1>2. Aligned /\ AckedOnDisk /\ ServesFile
  BY DEF SoundInv
<1>3. last \in {Len(file), Len(file) - 1} /\ \A i \in 1..durable : file[i].whole => i <= last
  BY <1>1, <1>2 DEF ServesFile
<1>4. CASE Len(file) = 0
  <2>1. last = 0
    BY <1>3, <1>4 DEF TypeOK
  <2> QED BY <1>0, <1>1, <1>4, <2>1
<1>5. CASE Len(file) # 0
  <2> DEFINE tail == file[Len(file)]
  <2>1. Len(file) \in DOMAIN file /\ tail.id \in Calls /\ file # <<>>
    BY <1>0, <1>5
  <2>2. tail.ended /\ (calls[tail.id] \in {"failed", "lost"} => EventOf(tail) \in events)
    BY <2>1 DEF TailIsSound
  <2>3. calls[tail.id] \in {"acked", "failed", "lost"}
    <3>1. calls[tail.id] \notin {"none", "waiting"}
      BY <2>1 DEF CallsInv
    <3>2. calls[tail.id] # "written"
      <4>1. ~(c < tail.id /\ calls[tail.id] = "written")
        BY <2>1 DEF CallsInv, Settled
      <4>2. ~(tail.id < c /\ calls[tail.id] = "written")
        BY <2>1 DEF Turn
      <4> QED BY <2>1, <3>1, <4>1, <4>2 DEF Calls
    <3>3. calls[tail.id] \in {"none", "waiting", "written", "acked", "failed", "lost"}
      BY <2>1 DEF TypeOK
    <3> QED BY <3>1, <3>2, <3>3
  <2>4. last = Len(file)
    <3>1. CASE calls[tail.id] = "acked"
      <4>1. PICK i \in DOMAIN file : OnDisk(i) /\ file[i].id = tail.id
        BY <1>2, <2>1, <3>1 DEF AckedOnDisk
      <4>2. i = Len(file)
        BY <2>1, <4>1 DEF CallsInv
      <4>3. Len(file) <= durable /\ tail.whole
        BY <4>1, <4>2 DEF OnDisk
      <4>4. durable \in Nat
        BY <1>0 DEF TypeOK
      <4>5. Len(file) \in 1..durable
        BY <1>0, <2>1, <4>3, <4>4
      <4>6. Len(file) <= last
        BY <1>3, <4>3, <4>5
      <4> QED BY <1>0, <1>3, <4>6
    <3>2. CASE calls[tail.id] \in {"failed", "lost"}
      <4>1. EventOf(tail) \in events
        BY <2>2, <3>2
      <4>2. EventOf(tail).seq = Len(file)
        BY <1>2, <2>1 DEF EventOf, Aligned
      <4>3. Len(file) \in {e.seq : e \in events}
        BY <4>1, <4>2
      <4>4. Len(file) \in 1..last
        BY <1>1, <4>3 DEF TypeOK
      <4> QED BY <1>0, <1>3, <4>4
    <3> QED BY <2>3, <3>1, <3>2
  <2>5. tail.whole
    <3>1. \A i \in 1..last : file[i].whole
      BY <1>1, <1>2 DEF ServesFile
    <3> QED BY <1>0, <2>1, <2>4, <3>1
  <2>6. \A i \in DOMAIN file : file[i].whole /\ file[i].ended
    <3> SUFFICES ASSUME NEW i \in DOMAIN file PROVE file[i].whole /\ file[i].ended
      OBVIOUS
    <3>1. i = Len(file) \/ i < Len(file)
      BY <1>0
    <3> QED BY <1>2, <2>2, <2>5, <3>1 DEF Aligned
  <2> QED BY <1>1, <2>4, <2>6
<1> QED BY <1>4, <1>5

\* A write, whole or not, whatever comes of the call.
LEMMA WritesKeep ==
  ASSUME IInv, NEW c \in Calls, calls[c] = "waiting", Turn(c),
         NEW whole \in BOOLEAN, NEW ended \in BOOLEAN, Writes(c, whole, ended),
         NEW s \in {"written", "failed"}, s = "written" => whole /\ ended,
         calls' = [calls EXCEPT ![c] = s],
         UNCHANGED <<durable, events, last, up, served>>
  PROVE  /\ calls' \in [Calls -> {"none", "waiting", "written", "acked", "failed", "lost"}]
         /\ spoilt' \in BOOLEAN /\ CallsInv' /\ SoundInv'
<1> USE DEF IInv
<1>0. Len(file) \in Nat /\ DOMAIN file = 1..Len(file)
      /\ \A i \in DOMAIN file : file[i].id \in Calls
  BY FileOfPieces
<1>1. /\ Len(file') = Len(file) + 1
      /\ DOMAIN file' = 1..(Len(file) + 1)
      /\ \A i \in DOMAIN file : file'[i] = file[i]
      /\ file'[Len(file) + 1] = [id |-> c, seq |-> last + 1, whole |-> whole, ended |-> ended]
  BY Appended
<1>2. \A i \in DOMAIN file' : i \in DOMAIN file \/ i = Len(file) + 1
  BY <1>0, <1>1
<1>3. \A b \in Calls : (b # c => calls'[b] = calls[b]) /\ calls'[c] = s
  BY DEF TypeOK
<1>4. spoilt' = (spoilt \/ ~TailIsSound)
  BY DEF Writes
<1>5. \A i \in DOMAIN file : file[i].id # c
  BY DEF CallsInv
<1>6. up = "up"
  BY DEF CallsInv
<1>7. CallsInv'
  <2>1. \A i \in DOMAIN file' : calls'[file'[i].id] \notin {"none", "waiting"}
    BY <1>0, <1>1, <1>2, <1>3, <1>5 DEF CallsInv
  <2>2. \A i, j \in DOMAIN file' : file'[i].id = file'[j].id => i = j
    BY <1>1, <1>2, <1>5 DEF CallsInv
  <2>3. \A b \in Calls : calls'[b] = "written" =>
          /\ \A a \in Calls : a < b => calls'[a] \in Settled
          /\ \A i \in DOMAIN file' :
               file'[i].id = b => file'[i].whole /\ file'[i].ended /\ file'[i].seq = last' + 1
          /\ durable' < Len(file') /\ file'[Len(file')].id = b
    <3> SUFFICES ASSUME NEW b \in Calls, calls'[b] = "written"
                 PROVE  /\ \A a \in Calls : a < b => calls'[a] \in Settled
                        /\ \A i \in DOMAIN file' : file'[i].id = b =>
                             file'[i].whole /\ file'[i].ended /\ file'[i].seq = last' + 1
                        /\ durable' < Len(file') /\ file'[Len(file')].id = b
      OBVIOUS
    <3>1. b = c
      <4>1. SUFFICES ASSUME b # c PROVE FALSE
        OBVIOUS
      <4>2. calls[b] = "written"
        BY <1>3, <4>1
      <4>3. ~(c < b) /\ ~(b < c)
        BY <4>2 DEF CallsInv, Settled, Turn
      <4> QED BY <4>1, <4>3 DEF Calls
    <3>2. \A a \in Calls : a < b => calls'[a] \in Settled
      <4>1. \A a \in Calls : a < c => a # c /\ calls[a] \in Settled
        BY DEF Turn, Settled, Calls
      <4> QED BY <1>3, <3>1, <4>1
    <3>3. \A i \in DOMAIN file' : file'[i].id = b =>
            file'[i].whole /\ file'[i].ended /\ file'[i].seq = last' + 1
      BY <1>1, <1>2, <1>3, <1>5, <3>1
    <3>4. durable' < Len(file') /\ file'[Len(file')].id = b
      <4>1. durable \in 0..Len(file)
        BY DEF TypeOK
      <4>2. file'[Len(file')].id = c
        BY <1>1
      <4> QED BY <1>0, <1>1, <3>1, <4>1, <4>2
    <3> QED BY <3>2, <3>3, <3>4
  <2>4. \A e \in served' : calls'[e.id] \in Settled
    <3> SUFFICES ASSUME NEW e \in served PROVE calls'[e.id] \in Settled
      OBVIOUS
    <3>1. e.id \in Calls /\ calls[e.id] \in Settled
      BY DEF TypeOK, Event, CallsInv
    <3>2. e.id # c
      BY <3>1 DEF Settled
    <3> QED BY <1>3, <3>1, <3>2
  <2>5. up' = "up"
    BY <1>6
  <2> QED BY <2>1, <2>2, <2>3, <2>4, <2>5 DEF CallsInv
<1>8. SoundInv'
  <2> SUFFICES ASSUME ~spoilt, TailIsSound
               PROVE  (Aligned /\ AckedOnDisk /\ ServedInFile /\ ServesFile)'
    BY <1>4, <1>6 DEF SoundInv
  <2>1. last = Len(file) /\ \A i \in DOMAIN file : file[i].whole /\ file[i].ended
    BY TailCounts
  <2>2. Aligned /\ AckedOnDisk /\ ServedInFile /\ ServesFile
    BY DEF SoundInv
  <2>3. Aligned'
    BY <1>0, <1>1, <1>2, <2>1, <2>2 DEF Aligned
  <2>4. \A i \in DOMAIN file : i \in DOMAIN file'
    BY <1>0, <1>1
  <2>5. \A i \in DOMAIN file : OnDisk(i) => OnDisk(i)'
    BY <1>1, <2>4 DEF OnDisk
  <2>6. AckedOnDisk'
    <3>1. \A b \in Calls : calls'[b] = "acked" => calls[b] = "acked"
      BY <1>3
    <3> QED BY <1>1, <2>2, <2>4, <2>5, <3>1 DEF AckedOnDisk
  <2>7. ServedInFile'
    BY <1>1, <2>2, <2>4, <2>5 DEF ServedInFile, EventOf
  <2>8. ServesFile'
    <3>1. last' \in {Len(file'), Len(file') - 1}
      BY <1>0, <1>1, <2>1
    <3>2. \A i \in 1..last : i \in DOMAIN file /\ file'[i] = file[i]
      BY <1>0, <1>1, <2>1
    <3>3. \A i \in 1..last : file'[i].whole
      BY <2>1, <3>2
    <3>4. \A i \in 1..durable : i <= last
      BY <1>0, <2>1 DEF TypeOK
    <3>5. {EventOf(file[i]) : i \in 1..last} = {EventOf(file'[i]) : i \in 1..last}
      BY <3>2
    <3>6. events' = {EventOf(file'[i]) : i \in 1..last}
      BY <1>6, <2>2, <3>5 DEF ServesFile
    <3> QED BY <3>1, <3>3, <3>4, <3>6 DEF ServesFile, EventOf
  <2> QED BY <2>3, <2>6, <2>7, <2>8
<1>9. calls' \in [Calls -> {"none", "waiting", "written", "acked", "failed", "lost"}]
  BY DEF TypeOK
<1>10. spoilt' \in BOOLEAN
  BY <1>4 DEF TypeOK, TailIsSound
<1> QED BY <1>7, <1>8, <1>9, <1>10

LEMMA AppendedTypes ==
  ASSUME TypeOK, NEW c \in Calls, NEW whole \in BOOLEAN, NEW ended \in BOOLEAN,
         Writes(c, whole, ended), durable' = durable
  PROVE  file' \in Seq(Piece) /\ durable' \in 0..Len(file')
<1>1. file' \in Seq(Piece) /\ Len(file') = Len(file) + 1
  BY Appended
<1>2. Len(file) \in Nat
  BY FileOfPieces
<1>3. durable \in 0..Len(file)
  BY DEF TypeOK
<1> QED BY <1>1, <1>2, <1>3

LEMMA WriteStep ==
  ASSUME IInv, NEW c \in Calls, Write(c)
  PROVE  IInv'
<1> USE DEF IInv
<1>1. UNCHANGED <<durable, events, last, up, served, crashes, faults>>
  BY DEF Write
<1>2. Writes(c, TRUE, TRUE) /\ calls[c] = "waiting" /\ Turn(c)
      /\ calls' = [calls EXCEPT ![c] = "written"]
  BY DEF Write
<1>3. /\ calls' \in [Calls -> {"none", "waiting", "written", "acked", "failed", "lost"}]
      /\ spoilt' \in BOOLEAN /\ CallsInv' /\ SoundInv'
  BY <1>1, <1>2, WritesKeep
<1>4. file' \in Seq(Piece) /\ durable' \in 0..Len(file')
  BY <1>1, <1>2, AppendedTypes
<1>5. TypeOK'
  BY <1>1, <1>3, <1>4 DEF TypeOK
<1> QED BY <1>3, <1>5

LEMMA WriteFailsStep ==
  ASSUME IInv, NEW c \in Calls, WriteFails(c)
  PROVE  IInv'
<1> USE DEF IInv
<1>1. /\ UNCHANGED <<durable, events, last, up, served, crashes>>
      /\ calls[c] = "waiting" /\ Turn(c)
      /\ faults < MaxFaults /\ faults' = faults + 1
      /\ calls' = [calls EXCEPT ![c] = "failed"]
      /\ Writes(c, FALSE, FALSE) \/ UNCHANGED <<file, spoilt>>
  BY DEF WriteFails
<1>2. CASE Writes(c, FALSE, FALSE)
  <2>1. /\ calls' \in [Calls -> {"none", "waiting", "written", "acked", "failed", "lost"}]
        /\ spoilt' \in BOOLEAN /\ CallsInv' /\ SoundInv'
    BY <1>1, <1>2, WritesKeep
  <2>2. file' \in Seq(Piece) /\ durable' \in 0..Len(file')
    BY <1>1, <1>2, AppendedTypes
  <2>3. faults' \in 0..MaxFaults
    BY <1>1, JournalAssumption DEF TypeOK
  <2>4. TypeOK'
    BY <1>1, <2>1, <2>2, <2>3 DEF TypeOK
  <2> QED BY <2>1, <2>4
<1>3. CASE UNCHANGED <<file, spoilt>>
  BY <1>1, <1>3, FailStep
<1> QED BY <1>1, <1>2, <1>3

\* The sync: the record of the call that wrote last is served from now on.
LEMMA SyncStep ==
  ASSUME IInv, NEW c \in Calls, Sync(c)
  PROVE  IInv'
<1> USE DEF IInv
<1>0. Len(file) \in Nat /\ DOMAIN file = 1..Len(file)
      /\ \A i \in DOMAIN file : file[i] \in Piece /\ file[i].id \in Calls
  BY FileOfPieces
<1>1. /\ UNCHANGED <<file, up, spoilt, crashes, faults>>
      /\ calls[c] = "written" /\ calls' = [calls EXCEPT ![c] = "acked"]
      /\ durable' = Len(file) /\ served' = served \union events'
  BY DEF Sync, Flushed
<1>2. PICK k \in DOMAIN file : /\ file[k].id = c
                               /\ last' = file[k].seq
                               /\ events' = events \union {EventOf(file[k])}
  BY DEF Sync
<1>3. file[k].whole /\ file[k].ended /\ last' = last + 1 /\ up = "up"
  BY <1>1, <1>2 DEF CallsInv
<1>4. \A b \in Calls : (b # c => calls'[b] = calls[b]) /\ calls'[c] = "acked"
  BY <1>1 DEF TypeOK
<1>5. TypeOK'
  <2>1. events' \in SUBSET Event
    BY <1>0, <1>2, PieceHasEvent DEF TypeOK
  <2>2. {e.seq : e \in events'} = 1..last'
    <3>1. {e.seq : e \in events} = 1..last
      BY <1>3 DEF TypeOK
    <3>2. EventOf(file[k]).seq = last + 1
      BY <1>2, <1>3 DEF EventOf
    <3>3. {e.seq : e \in events'} = {e.seq : e \in events} \union {last + 1}
      BY <1>2, <3>2
    <3>4. (1..last) \union {last + 1} = 1..(last + 1)
      BY DEF TypeOK
    <3> QED BY <1>3, <3>1, <3>3, <3>4
  <2>3. calls' \in [Calls -> {"none", "waiting", "written", "acked", "failed", "lost"}]
    BY <1>1 DEF TypeOK
  <2>4. last' \in Nat /\ durable' \in 0..Len(file) /\ served' \in SUBSET Event
    BY <1>0, <1>1, <1>3, <2>1 DEF TypeOK
  <2> QED BY <1>1, <2>1, <2>2, <2>3, <2>4 DEF TypeOK
<1>6. CallsInv'
  <2>1. \A i \in DOMAIN file : calls'[file[i].id] \notin {"none", "waiting"}
    BY <1>0, <1>4 DEF CallsInv
  <2>2. \A b \in Calls : calls'[b] # "written"
    <3> SUFFICES ASSUME NEW b \in Calls, calls'[b] = "written" PROVE FALSE
      OBVIOUS
    <3>1. calls[b] = "written" /\ b # c
      BY <1>4
    <3>2. ~(b < c) /\ ~(c < b)
      BY <1>1, <3>1 DEF CallsInv, Settled
    <3> QED BY <3>1, <3>2 DEF Calls
  <2>3. \A e \in served' : calls'[e.id] \in Settled
    <3> SUFFICES ASSUME NEW e \in served' PROVE calls'[e.id] \in Settled
      OBVIOUS
    <3>1. e \in served \/ e.id = c
      <4>1. events \subseteq served
        BY <1>3 DEF CallsInv
      <4> QED BY <1>1, <1>2, <4>1 DEF EventOf
    <3>2. ASSUME e \in served PROVE calls'[e.id] \in Settled
      <4>1. e.id \in Calls /\ calls[e.id] \in Settled
        BY <3>2 DEF TypeOK, Event, CallsInv
      <4> QED BY <1>1, <1>4, <4>1 DEF Settled
    <3> QED BY <1>4, <3>1, <3>2 DEF Settled
  <2> QED BY <1>1, <1>3, <2>1, <2>2, <2>3 DEF CallsInv
<1>7. SoundInv'
  <2> SUFFICES ASSUME ~spoilt PROVE (Aligned /\ AckedOnDisk /\ ServedInFile /\ ServesFile)'
    BY <1>1, <1>3 DEF SoundInv
  <2>1. Aligned /\ AckedOnDisk /\ ServedInFile /\ ServesFile
    BY DEF SoundInv
  <2>2. /\ last \in {Len(file), Len(file) - 1}
        /\ \A i \in 1..last : file[i].whole
        /\ events = {EventOf(file[i]) : i \in 1..last}
    BY <1>3, <2>1 DEF ServesFile
  <2>3. k = last + 1 /\ k = Len(file) /\ last \in Nat
    <3>1. k = last + 1
      BY <1>2, <1>3, <2>1 DEF Aligned
    <3>2. k \in 1..Len(file) /\ last \in Nat
      BY <1>0 DEF TypeOK
    <3>3. Len(file) \in Nat /\ last \in {Len(file), Len(file) - 1}
      BY <1>0, <2>2
    <3> QED BY <3>1, <3>2, <3>3
  <2>4. Aligned'
    BY <1>1, <2>1 DEF Aligned
  <2>5. \A i \in DOMAIN file : file[i].whole => OnDisk(i)'
    BY <1>0, <1>1 DEF OnDisk
  <2>6. AckedOnDisk'
    <3> SUFFICES ASSUME NEW b \in Calls, calls'[b] = "acked"
                 PROVE  \E i \in DOMAIN file : OnDisk(i)' /\ file[i].id = b
      BY <1>1 DEF AckedOnDisk
    <3>1. CASE b = c
      BY <1>2, <1>3, <2>5, <3>1
    <3>2. CASE b # c
      <4>1. PICK i \in DOMAIN file : OnDisk(i) /\ file[i].id = b
        BY <1>4, <2>1, <3>2 DEF AckedOnDisk
      <4> QED BY <2>5, <4>1 DEF OnDisk
    <3> QED BY <3>1, <3>2
  <2>7. events' = {EventOf(file[i]) : i \in 1..last'}
    <3>1. 1..last' = (1..last) \union {k}
      BY <1>3, <2>3
    <3> QED BY <1>2, <2>2, <3>1
  <2>8. \A i \in 1..last' : i \in DOMAIN file /\ file[i].whole
    <3> SUFFICES ASSUME NEW i \in 1..last' PROVE i \in DOMAIN file /\ file[i].whole
      OBVIOUS
    <3>1. i \in 1..last \/ i = k
      BY <1>3, <2>3
    <3>2. i \in 1..Len(file)
      BY <1>3, <2>3
    <3> QED BY <1>0, <1>3, <2>2, <3>1, <3>2
  <2>9. ServedInFile'
    <3> SUFFICES ASSUME NEW e \in served'
                 PROVE  \E i \in DOMAIN file : file[i].whole /\ EventOf(file[i]) = e
      BY <1>1 DEF ServedInFile, EventOf
    <3>1. CASE e \in served
      BY <2>1, <3>1 DEF ServedInFile
    <3>2. CASE e \in events'
      <4>1. PICK i \in 1..last' : e = EventOf(file[i])
        BY <2>7, <3>2
      <4> QED BY <2>8, <4>1
    <3> QED BY <1>1, <3>1, <3>2
  <2>10. ServesFile'
    <3>1. last' = Len(file) /\ durable' = Len(file)
      BY <1>1, <1>3, <2>3
    <3> QED BY <1>0, <1>1, <2>7, <2>8, <3>1 DEF ServesFile, EventOf
  <2> QED BY <2>4, <2>6, <2>9, <2>10
<1> QED BY <1>5, <1>6, <1>7

-----------------------------------------------------------------------------
\* What a crash leaves of the file: a first part, its last piece cut or not.
LEMMA CutFile ==
  ASSUME TypeOK, NEW k \in durable..Len(file), file' \in Cut(k)
  PROVE  /\ file' \in Seq(Piece) /\ Len(file') \in {k, k + 1} /\ Len(file') <= Len(file)
         /\ DOMAIN file' = 1..Len(file')
         /\ \A i \in 1..k : file'[i] = file[i]
         /\ \A i \in DOMAIN file' : file'[i].id = file[i].id /\ file'[i].seq = file[i].seq
<1>0. /\ file \in Seq(Piece) /\ Len(file) \in Nat /\ k \in Nat /\ k <= Len(file)
      /\ DOMAIN file = 1..Len(file)
  BY FileOfPieces DEF TypeOK
<1> DEFINE head == SubSeq(file, 1, k)
<1>1. /\ head \in Seq(Piece) /\ Len(head) = k /\ DOMAIN head = 1..k
      /\ \A i \in 1..k : head[i] = file[i]
  BY <1>0
<1>2. CASE file' = head
  BY <1>0, <1>1, <1>2
<1>3. CASE k # Len(file) /\ \E w \in BOOLEAN :
             file' = Append(head, [file[k + 1] EXCEPT !.whole = @ /\ w, !.ended = FALSE])
  <2>1. PICK w \in BOOLEAN :
          file' = Append(head, [file[k + 1] EXCEPT !.whole = @ /\ w, !.ended = FALSE])
    BY Zenon, <1>3
  <2> DEFINE p == [file[k + 1] EXCEPT !.whole = @ /\ w, !.ended = FALSE]
  <2>2. k + 1 \in DOMAIN file /\ k < Len(file)
    <3>1. Len(file) \in Nat /\ k \in Nat /\ k <= Len(file) /\ k # Len(file)
      BY Zenon, <1>0, <1>3
    <3>2. k + 1 \in 1..Len(file) /\ k < Len(file)
      BY <3>1
    <3> QED BY <1>0, <3>2
  <2>3. file[k + 1] \in Piece
    BY <1>0, <2>2
  <2>4. p \in Piece /\ p.id = file[k + 1].id /\ p.seq = file[k + 1].seq
    BY <2>3 DEF Piece
  <2>5. file' = Append(head, p)
    BY <2>1
  <2> HIDE DEF head, p
  <2>6. /\ file' \in Seq(Piece) /\ Len(file') = k + 1 /\ DOMAIN file' = 1..(k + 1)
        /\ \A i \in 1..k : file'[i] = head[i]
        /\ file'[k + 1] = p
    BY <1>0, <1>1, <2>4, <2>5
  <2>7. \A i \in DOMAIN file' : i \in 1..k \/ i = k + 1
    BY <1>0, <2>6
  <2> QED BY <1>0, <1>1, <2>2, <2>4, <2>6, <2>7
<1> QED BY Zenon, <1>2, <1>3 DEF Cut

\* A death that leaves all that was synced, and of the rest all that is served.
LEMMA DeathKeeps ==
  ASSUME IInv, Dies, NEW k \in durable..Len(file), file' \in Cut(k),
         durable' \in durable..Len(file'),
         served' \subseteq served, \A e \in served' : ~spoilt => e \in WholeRecords'
  PROVE  IInv'
<1> USE DEF IInv
<1>0. Len(file) \in Nat /\ DOMAIN file = 1..Len(file) /\ durable \in Nat
      /\ \A i \in DOMAIN file : file[i].id \in Calls
  BY FileOfPieces DEF TypeOK
<1>1. /\ up' = "dead"
      /\ UNCHANGED <<events, last, spoilt, faults>>
      /\ crashes < MaxCrashes /\ crashes' = crashes + 1
      /\ calls' = [c \in Calls |->
                     IF calls[c] \in {"waiting", "written"} THEN "lost" ELSE calls[c]]
  BY DEF Dies
<1>3. /\ file' \in Seq(Piece) /\ Len(file') \in {k, k + 1} /\ Len(file') <= Len(file)
      /\ DOMAIN file' = 1..Len(file')
      /\ \A i \in 1..k : file'[i] = file[i]
      /\ \A i \in DOMAIN file' : file'[i].id = file[i].id /\ file'[i].seq = file[i].seq
  BY CutFile
<1>4. Len(file') \in Nat /\ k \in Nat /\ durable <= k
  <2>1. k \in Nat /\ durable <= k
    <3>1. Len(file) \in Nat /\ durable \in Nat
      BY <1>0
    <3> QED BY <3>1
  <2>2. Len(file') \in {k, k + 1}
    BY Zenon, <1>3
  <2> QED BY <2>1, <2>2
<1>5. DOMAIN file' \subseteq DOMAIN file
  <2>1. Len(file') \in Nat /\ Len(file) \in Nat /\ Len(file') <= Len(file)
    BY Zenon, <1>0, <1>3, <1>4
  <2>2. 1..Len(file') \subseteq 1..Len(file)
    BY <2>1
  <2> QED BY Zenon, <1>0, <1>3, <2>2
<1>6. \A c \in Calls : calls'[c] \notin {"waiting", "written"}
                      /\ (calls[c] # "none" => calls'[c] # "none")
                      /\ (calls'[c] = "acked" => calls[c] = "acked")
                      /\ (calls[c] \in Settled => calls'[c] \in Settled)
  BY <1>1 DEF Settled
<1>a. durable' \in Nat /\ durable <= durable' /\ durable' <= Len(file')
  BY <1>0, <1>4
<1>7. TypeOK'
  <2>1. calls' \in [Calls -> {"none", "waiting", "written", "acked", "failed", "lost"}]
    BY <1>1 DEF TypeOK
  <2>2. crashes' \in 0..MaxCrashes
    BY <1>1, JournalAssumption DEF TypeOK
  <2>3. durable' \in 0..Len(file')
    BY <1>4, <1>a
  <2>4. served' \in SUBSET Event
    BY DEF TypeOK
  <2> QED BY <1>1, <1>3, <2>1, <2>2, <2>3, <2>4 DEF TypeOK
<1>8. CallsInv'
  <2>1. \A i \in DOMAIN file' : calls'[file'[i].id] \notin {"none", "waiting"}
    BY ZenonT(90), <1>0, <1>3, <1>5, <1>6 DEF CallsInv
  <2>2. \A i, j \in DOMAIN file' : file'[i].id = file'[j].id => i = j
    BY ZenonT(90), <1>3, <1>5 DEF CallsInv
  <2>3. \A e \in served' : calls'[e.id] \in Settled
    <3>1. \A e \in served : e.id \in Calls
      BY DEF TypeOK, Event
    <3> QED BY <1>6, <3>1 DEF CallsInv
  <2> QED BY <1>1, <1>6, <2>1, <2>2, <2>3 DEF CallsInv
<1>9. SoundInv'
  <2> SUFFICES ASSUME ~spoilt PROVE (Aligned /\ AckedOnDisk /\ ServedInFile)'
    BY <1>1 DEF SoundInv, ServesFile
  <2>1. Aligned /\ AckedOnDisk
    BY DEF SoundInv
  <2>2. Aligned'
    <3> SUFFICES ASSUME NEW i \in DOMAIN file'
                 PROVE  file'[i].seq = i /\ (i < Len(file') => file'[i].whole /\ file'[i].ended)
      BY DEF Aligned
    <3>1. file'[i].seq = i
      BY Zenon, <1>3, <1>5, <2>1 DEF Aligned
    <3>2. ASSUME i < Len(file') PROVE file'[i].whole /\ file'[i].ended
      <4>1. i \in 1..k /\ i < Len(file) /\ i \in DOMAIN file
        <5>1. /\ Len(file') \in Nat /\ Len(file) \in Nat /\ Len(file') <= Len(file) /\ k \in Nat
              /\ Len(file') \in {k, k + 1} /\ i \in 1..Len(file')
          BY Zenon, <1>0, <1>3, <1>4
        <5>2. i \in 1..k /\ i < Len(file)
          BY <3>2, <5>1
        <5> QED BY <1>5, <5>2
      <4> QED BY Zenon, <1>3, <2>1, <4>1 DEF Aligned
    <3> QED BY <3>1, <3>2
  <2>3. ASSUME NEW i \in DOMAIN file, OnDisk(i)
        PROVE  i \in DOMAIN file' /\ OnDisk(i)' /\ file'[i] = file[i]
    <3>1. i \in Nat /\ i \in 1..k /\ i <= durable
      BY <1>0, <1>4, <2>3 DEF OnDisk
    <3>2. k \in Nat /\ Len(file') \in {k, k + 1}
      BY Zenon, <1>3, <1>4
    <3>3. i \in 1..Len(file') /\ i <= durable'
      BY <1>0, <1>a, <3>1, <3>2
    <3>4. i \in DOMAIN file' /\ i <= durable'
      BY Zenon, <1>3, <3>3
    <3> QED BY <1>3, <2>3, <3>1, <3>4 DEF OnDisk
  <2>4. AckedOnDisk'
    BY <1>6, <2>1, <2>3 DEF AckedOnDisk
  <2>5. ServedInFile'
    BY DEF ServedInFile, WholeRecords
  <2> QED BY <2>2, <2>4, <2>5
<1> QED BY <1>7, <1>8, <1>9

\* The machine dies: what is left is on the disk, and what is not is served no
\* more.
LEMMA PowerFailsStep ==
  ASSUME IInv, PowerFails
  PROVE  IInv'
<1>1. /\ Dies /\ durable' = Len(file')
      /\ served' = served \intersect WholeRecords'
  BY DEF PowerFails
<1>2. PICK k \in durable..Len(file) : file' \in Cut(k)
  BY DEF PowerFails
<1>3. durable' \in durable..Len(file')
  <2>1. Len(file') \in {k, k + 1}
    BY <1>2, CutFile DEF IInv
  <2>2. durable \in Nat /\ Len(file) \in Nat
    BY FileOfPieces DEF IInv, TypeOK
  <2> QED BY <1>1, <2>1, <2>2
<1>4. served' \subseteq served /\ \A e \in served' : e \in WholeRecords'
  BY <1>1
<1> QED BY <1>1, <1>2, <1>3, <1>4, DeathKeeps

\* The process dies: the write it may die in is of a call not yet settled, so
\* that what is served, synced or not, is in what remains.
LEMMA ProcessDiesStep ==
  ASSUME IInv, ProcessDies
  PROVE  IInv'
<1>0. Len(file) \in Nat /\ DOMAIN file = 1..Len(file) /\ durable \in 0..Len(file)
      /\ file \in Seq(Piece)
  BY FileOfPieces DEF IInv, TypeOK
<1>1. Dies /\ durable' = durable /\ served' = served
  BY DEF ProcessDies
<1>2. \A e \in served : ~spoilt => \E i \in DOMAIN file : file[i].whole /\ EventOf(file[i]) = e
  BY DEF IInv, SoundInv, ServedInFile
<1>3. CASE file' = file
  <2>1. file' \in Cut(Len(file))
    <3>1. SubSeq(file, 1, Len(file)) = file
      BY <1>0
    <3> QED BY <1>3, <3>1 DEF Cut
  <2>2. Len(file) \in durable..Len(file) /\ durable' \in durable..Len(file')
    BY <1>0, <1>1, <1>3
  <2>3. \A e \in served' : ~spoilt => e \in WholeRecords'
    BY <1>1, <1>2, <1>3 DEF WholeRecords, EventOf
  <2> QED BY <1>1, <2>1, <2>2, <2>3, DeathKeeps
<1>4. CASE (\E c \in Calls : calls[c] = "written") /\ file' \in Cut(Len(file) - 1)
  <2>1. PICK c \in Calls : calls[c] = "written"
    BY <1>4
  <2>2. durable < Len(file) /\ file[Len(file)].id = c
    BY <2>1 DEF IInv, CallsInv
  <2>3. Len(file) - 1 \in durable..Len(file) /\ Len(file) - 1 \in Nat
    BY <1>0, <2>2
  <2>4. /\ Len(file') \in {Len(file) - 1, Len(file)} /\ DOMAIN file' = 1..Len(file')
        /\ \A i \in 1..(Len(file) - 1) : file'[i] = file[i]
    <3>1. /\ Len(file') \in {Len(file) - 1, Len(file) - 1 + 1} /\ DOMAIN file' = 1..Len(file')
          /\ \A i \in 1..(Len(file) - 1) : file'[i] = file[i]
      BY <1>4, <2>3, CutFile DEF IInv
    <3>2. Len(file) - 1 + 1 = Len(file)
      BY <1>0
    <3> QED BY <3>1, <3>2
  <2>5. durable' \in durable..Len(file')
    <3>1. Len(file') \in {Len(file) - 1, Len(file)}
      BY <2>4
    <3>2. durable \in Nat /\ Len(file) \in Nat /\ durable < Len(file) /\ durable' = durable
      BY <1>0, <1>1, <2>2
    <3> QED BY <3>1, <3>2
  <2>6. ASSUME NEW e \in served', ~spoilt PROVE e \in WholeRecords'
    <3>1. PICK i \in DOMAIN file : file[i].whole /\ EventOf(file[i]) = e
      BY <1>1, <1>2, <2>6
    <3>2. e.id = file[i].id /\ calls[e.id] \in Settled
      BY <1>1, <3>1 DEF IInv, CallsInv, EventOf
    <3>3. i # Len(file)
      BY <2>1, <2>2, <3>2 DEF Settled
    <3>4. i \in 1..(Len(file) - 1) /\ i \in 1..Len(file')
      <4>1. Len(file') \in {Len(file) - 1, Len(file)}
        BY <2>4
      <4>2. Len(file) \in Nat /\ i \in 1..Len(file)
        BY <1>0
      <4> QED BY <3>3, <4>1, <4>2
    <3>5. i \in DOMAIN file' /\ file'[i] = file[i]
      BY <2>4, <3>4
    <3> QED BY <3>1, <3>5 DEF WholeRecords, EventOf
  <2> QED BY <1>1, <1>4, <2>3, <2>5, <2>6, DeathKeeps
<1> QED BY <1>3, <1>4 DEF ProcessDies

-----------------------------------------------------------------------------
LEMMA Inductive == Spec => []IInv
<1>1. Init => IInv
  BY InitIInv
<1>2. IInv /\ [Next]_vars => IInv'
  <2> SUFFICES ASSUME IInv, [Next]_vars PROVE IInv'
    OBVIOUS
  <2>1. ASSUME NEW c \in Calls, Call(c) PROVE IInv'
    BY <2>1, CallStep
  <2>2. ASSUME NEW c \in Calls, Write(c) PROVE IInv'
    BY <2>2, WriteStep
  <2>3. ASSUME NEW c \in Calls, WriteFails(c) PROVE IInv'
    BY <2>3, WriteFailsStep
  <2>4. ASSUME NEW c \in Calls, Sync(c) PROVE IInv'
    BY <2>4, SyncStep
  <2>5. ASSUME NEW c \in Calls, SyncFails(c) PROVE IInv'
    BY <2>5, FailStep DEF SyncFails
  <2>6. CASE ProcessDies
    BY <2>6, ProcessDiesStep
  <2>7. CASE PowerFails
    BY <2>7, PowerFailsStep
  <2>8. CASE Start
    BY <2>8, StartStep
  <2>9. CASE UNCHANGED vars
    BY <2>9 DEF vars, IInv, TypeOK, CallsInv, SoundInv, Aligned, AckedOnDisk, ServedInFile,
                ServesFile, OnDisk, EventOf
  <2> QED BY <2>1, <2>2, <2>3, <2>4, <2>5, <2>6, <2>7, <2>8, <2>9 DEF Next
<1> QED BY <1>1, <1>2, PTL DEF Spec

\* The variables keep their types, and what is served is numbered without a gap.
THEOREM TypeCorrect == Spec => []TypeOK
<1>1. IInv => TypeOK
  BY DEF IInv
<1> QED BY <1>1, Inductive, PTL

\* Until an append goes behind a cut or uncounted tail, every record that was
\* acknowledged is served, over any number of crashes and restarts.
THEOREM AcknowledgedIsServed == Spec => []AckedIsServed
<1>1. IInv => AckedIsServed
  <2> SUFFICES ASSUME IInv, ~spoilt, up = "up", NEW c \in Calls, calls[c] = "acked"
               PROVE  \E e \in events : e.id = c
    BY DEF AckedIsServed
  <2>1. AckedOnDisk /\ ServesFile
    BY DEF IInv, SoundInv
  <2>2. PICK i \in DOMAIN file : OnDisk(i) /\ file[i].id = c
    BY <2>1 DEF AckedOnDisk
  <2>3. i \in 1..durable /\ file[i].whole
    BY <2>2, FileOfPieces DEF OnDisk, IInv, TypeOK
  <2>4. i \in 1..last
    BY <2>1, <2>3 DEF ServesFile, IInv, TypeOK
  <2>5. EventOf(file[i]) \in events /\ EventOf(file[i]).id = c
    BY <2>1, <2>2, <2>4 DEF ServesFile, EventOf
  <2> QED BY <2>5
<1> QED BY <1>1, Inductive, PTL

\* Until then, too, no start is refused: only the last line may be garbage.
THEOREM NeverRefused == Spec => []StartsAgain
<1>1. IInv => StartsAgain
  BY DEF IInv, SoundInv, StartsAgain
<1> QED BY <1>1, Inductive, PTL

\* And a sequence number once served names one record, until a power failure
\* takes that record back.
THEOREM NumbersNameOne == Spec => []NumbersStay
<1>1. IInv => NumbersStay
  <2> SUFFICES ASSUME IInv, ~spoilt, NEW e \in served, NEW f \in served, e.seq = f.seq
               PROVE  e.id = f.id
    BY DEF NumbersStay
  <2>1. ServedInFile /\ Aligned
    BY DEF IInv, SoundInv
  <2>2. PICK i \in DOMAIN file : EventOf(file[i]) = e
    BY <2>1 DEF ServedInFile
  <2>3. PICK j \in DOMAIN file : EventOf(file[j]) = f
    BY <2>1 DEF ServedInFile
  <2>4. e.seq = i /\ f.seq = j
    BY <2>1, <2>2, <2>3 DEF EventOf, Aligned
  <2> QED BY <2>2, <2>3, <2>4
<1> QED BY <1>1, Inductive, PTL
=============================================================================
