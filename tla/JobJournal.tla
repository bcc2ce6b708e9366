----------------------------- MODULE JobJournal -----------------------------
(***************************************************************************)
(* The append-only journal of workspace-job-journal.ts, and the file       *)
(* protocol it shares with operation-journal.ts: one JSON record a line,   *)
(* written and synced before it counts, one append at a time; a start reads *)
(* the file back, passing over a last line that does not parse.            *)
(*                                                                         *)
(* A piece is what one append has left in the file: the whole record or a  *)
(* part of it, with or without the newline.  Pieces between two newlines   *)
(* are one line.  What was not synced survives the death of the process,   *)
(* and a start serves it like the rest; the machine's death may lose it.   *)
(***************************************************************************)
EXTENDS Naturals, Sequences

CONSTANTS MaxAppends, MaxCrashes, MaxFaults   \* bounds

ASSUME JournalAssumption == {MaxAppends, MaxCrashes, MaxFaults} \subseteq Nat

VARIABLES
  file,      \* the pieces in the file
  durable,   \* how many of them have been synced
  events,    \* this.events, the records the journal serves
  last,      \* this.lastSequence
  calls,     \* appendSnapshot by call: appendTail is the order of the calls
  up,        \* initialized, dead, or refusing to start
  served,    \* history: every record served, but for those a power failure took back
  spoilt,    \* history: an append went behind something that is no record
  crashes, faults

vars == <<file, durable, events, last, calls, up, served, spoilt, crashes, faults>>

Calls  == 1..MaxAppends
Piece  == [id : Calls, seq : Nat \ {0}, whole : BOOLEAN, ended : BOOLEAN]
Event  == [id : Calls, seq : Nat \ {0}]
EventOf(p) == [id |-> p.id, seq |-> p.seq]

-----------------------------------------------------------------------------
\* readPersistedState: a line is one record, or garbage; garbage is tolerated
\* in the last line.
LastLine(i) == \A j \in i..(Len(file) - 1) : ~file[j].ended
IsRecord(i) == /\ file[i].whole
               /\ i > 1 => file[i - 1].ended
               /\ file[i].ended \/ i = Len(file)
\* Mutant: garbage is not tolerated.
NeverTolerated(i) == FALSE
Tolerated(i) == LastLine(i)
Records == {i \in DOMAIN file : IsRecord(i)}
\* The sequence numbers count the records from one.
Counts(n) == /\ {file[i].seq : i \in Records} = 1..n
             /\ \A i, j \in Records : i < j => file[i].seq < file[j].seq
Readable(n) == Counts(n) /\ \A i \in DOMAIN file : i \in Records \/ Tolerated(i)

\* doInitialize
\* Mutant: the numbers start again.
FromZero(n) == 0
Restored(n) == n
Start ==
  /\ up = "dead"
  /\ \/ \E n \in 0..Len(file) :
          /\ Readable(n)
          /\ up' = "up"
          /\ events' = {EventOf(file[i]) : i \in Records}
          /\ last' = Restored(n)
          /\ served' = served \union events'
     \/ /\ \A n \in 0..Len(file) : ~Readable(n)
        /\ up' = "refusing"
        /\ UNCHANGED <<events, last, served>>
  /\ UNCHANGED <<file, durable, calls, spoilt, crashes, faults>>

-----------------------------------------------------------------------------
\* appendSnapshot waits for the appends called before.
Call(c) ==
  /\ up = "up"
  /\ calls[c] = "none" /\ \A b \in Calls : b < c => calls[b] # "none"
  /\ calls' = [calls EXCEPT ![c] = "waiting"]
  /\ UNCHANGED <<file, durable, events, last, up, served, spoilt, crashes, faults>>
\* Mutant: it does not wait.
AnyTurn(c) == TRUE
Turn(c)    == \A b \in Calls : b < c => calls[b] \in {"acked", "failed", "lost"}

\* The tail of the file is neither cut nor left by an append that failed.
TailIsSound ==
  file # <<>> =>
    LET tail == file[Len(file)]
    IN  tail.ended /\ (calls[tail.id] \in {"failed", "lost"} => EventOf(tail) \in events)

\* appendJsonLine, in its two steps, and what may go wrong with each.
Writes(c, whole, ended) ==
  /\ file' = Append(file, [id |-> c, seq |-> last + 1, whole |-> whole, ended |-> ended])
  /\ spoilt' = (spoilt \/ ~TailIsSound)
Write(c) ==
  /\ calls[c] = "waiting" /\ Turn(c)
  /\ Writes(c, TRUE, TRUE)
  /\ calls' = [calls EXCEPT ![c] = "written"]
  /\ UNCHANGED <<durable, events, last, up, served, crashes, faults>>
WriteFails(c) ==
  /\ calls[c] = "waiting" /\ Turn(c)
  /\ faults < MaxFaults
  /\ faults' = faults + 1
  /\ Writes(c, FALSE, FALSE) \/ UNCHANGED <<file, spoilt>>
  /\ calls' = [calls EXCEPT ![c] = "failed"]
  /\ UNCHANGED <<durable, events, last, up, served, crashes>>
\* The sync is through, and only then the record counts.
\* Mutant: it is not asked for.
NotFlushed == durable
Flushed    == Len(file)
Sync(c) ==
  /\ calls[c] = "written"
  /\ durable' = Flushed
  /\ \E i \in DOMAIN file :
       /\ file[i].id = c
       /\ last' = file[i].seq
       /\ events' = events \union {EventOf(file[i])}
  /\ served' = served \union events'
  /\ calls' = [calls EXCEPT ![c] = "acked"]
  /\ UNCHANGED <<file, up, spoilt, crashes, faults>>
SyncFails(c) ==
  /\ calls[c] = "written"
  /\ faults < MaxFaults
  /\ faults' = faults + 1
  /\ calls' = [calls EXCEPT ![c] = "failed"]
  /\ UNCHANGED <<file, durable, events, last, up, served, spoilt, crashes>>

\* A first part of the file, the piece after it cut or gone.
Cut(k) ==
  {SubSeq(file, 1, k)} \union
  (IF k = Len(file) THEN {}
   ELSE {Append(SubSeq(file, 1, k), [file[k + 1] EXCEPT !.whole = @ /\ w, !.ended = FALSE])
           : w \in BOOLEAN})
Dies ==
  /\ up # "dead"
  /\ crashes < MaxCrashes
  /\ crashes' = crashes + 1
  /\ up' = "dead"
  /\ calls' = [c \in Calls |-> IF calls[c] \in {"waiting", "written"} THEN "lost" ELSE calls[c]]
  /\ UNCHANGED <<events, last, spoilt, faults>>
\* The process dies: what it wrote stays in the file, no more synced than it
\* was, but for the write it dies in, which may have got through in part.
ProcessDies ==
  /\ Dies
  /\ \/ file' = file
     \/ /\ \E c \in Calls : calls[c] = "written"
        /\ file' \in Cut(Len(file) - 1)
  /\ UNCHANGED <<durable, served>>
\* The machine dies: of what was not synced a first part remains, cut
\* anywhere, though an earlier start may have read and served it.
WholeRecords == {EventOf(file[i]) : i \in {j \in DOMAIN file : file[j].whole}}
PowerFails ==
  /\ Dies
  /\ \E k \in durable..Len(file) : file' \in Cut(k)
  /\ durable' = Len(file')
  /\ served' = served \intersect WholeRecords'

Init ==
  /\ file = <<>> /\ durable = 0 /\ events = {} /\ last = 0
  /\ calls = [c \in Calls |-> "none"]
  /\ up = "up" /\ served = {} /\ spoilt = FALSE /\ crashes = 0 /\ faults = 0
Next ==
  \/ \E c \in Calls : Call(c) \/ Write(c) \/ WriteFails(c) \/ Sync(c) \/ SyncFails(c)
  \/ ProcessDies \/ PowerFails \/ Start
Spec == Init /\ [][Next]_vars

-----------------------------------------------------------------------------
TypeOK ==
  /\ file \in Seq(Piece) /\ durable \in 0..Len(file)
  /\ events \in SUBSET Event /\ served \in SUBSET Event /\ last \in Nat
  /\ calls \in [Calls -> {"none", "waiting", "written", "acked", "failed", "lost"}]
  /\ up \in {"up", "dead", "refusing"} /\ spoilt \in BOOLEAN
  /\ crashes \in 0..MaxCrashes /\ faults \in 0..MaxFaults
  /\ up = "up" => {e.seq : e \in events} = 1..last

\* Until something is appended behind a record that was cut or not counted,
\* every acknowledged record is served, over any restart.
AckedIsServed ==
  ~spoilt /\ up = "up" => \A c \in Calls : calls[c] = "acked" => \E e \in events : e.id = c

\* Until then, too, the journal starts again, cut tail or not.
StartsAgain == ~spoilt => up # "refusing"

\* And a sequence number once served names the same record for as long as no
\* power failure takes that record back: a client that asks for the events
\* after the last it knows misses none.
NumbersStay ==
  ~spoilt => \A e, f \in served : e.seq = f.seq => e.id = f.id

\* Not so: a record is acknowledged once it is durable, and is served after
\* every restart.
AckedSurvives ==
  up = "up" => \A c \in Calls : calls[c] = "acked" => \E e \in events : e.id = c
\* Not so either: what is served stays served.  A start serves what the last
\* process wrote and did not sync, and does not sync it itself.
ServedForGood == [][served \subseteq served']_vars
=============================================================================
