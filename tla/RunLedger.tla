----------------------------- MODULE RunLedger -----------------------------
(***************************************************************************)
(* What studio-tasks promises of a run, without queue, worker or process:  *)
(* an accepted run is owed work until it has ended, what ended may be      *)
(* asked for again unless it succeeded, and what succeeded stays so -- but *)
(* for a run that two requests to run it again had in hand at once.        *)
(***************************************************************************)
CONSTANTS Runs

VARIABLES
  state,     \* [Runs -> the state a run's row reads]
  owed,      \* runs the queue still owes a delivery
  writtenOff,\* runs whose ending was answered although the row was not written
  contested  \* runs that two requests to run again had in hand at once

ledger == <<state, owed, writtenOff, contested>>

Working  == {"queued", "running"}
Finished == {"succeeded", "failed", "cancelled"}

LedgerInit ==
  /\ state = [r \in Runs |-> "none"]
  /\ owed = {}
  /\ writtenOff = {}
  /\ contested = {}

\* A run is accepted together with the debt to work on it.
Accept(r) ==
  /\ state[r] = "none"
  /\ state' = [state EXCEPT ![r] = "queued"]
  /\ owed' = owed \cup {r}
  /\ UNCHANGED <<writtenOff, contested>>

\* A run changes state only while it is owed work and has not ended.
Work(r) ==
  /\ r \in owed
  /\ state[r] \in Working
  /\ \E s \in Working \cup Finished : state' = [state EXCEPT ![r] = s]
  /\ UNCHANGED <<owed, writtenOff, contested>>

\* The debt is paid only for a run that ended, or that was written off.
Discharge(r) ==
  /\ r \in owed
  /\ state[r] \notin Working \/ r \in writtenOff
  /\ owed' = owed \ {r}
  /\ UNCHANGED <<state, writtenOff, contested>>

WriteOff(r) ==
  /\ state[r] \in Working
  /\ r \in owed
  /\ writtenOff' = writtenOff \cup {r}
  /\ UNCHANGED <<state, owed, contested>>

\* A second request to run again finds the run as the first one found it.
Contend(r) ==
  /\ state[r] \in {"failed", "cancelled"}
  /\ contested' = contested \cup {r}
  /\ UNCHANGED <<state, owed, writtenOff>>

\* A request to run again: of anything but a success it makes a queued run,
\* and the debt is back.  Of a run that was deleted it makes a debt only.
Again(r) ==
  /\ state[r] # "none"
  /\ state[r] = "succeeded" => r \in contested
  /\ state' = [state EXCEPT ![r] = IF @ = "pruned" THEN @ ELSE "queued"]
  /\ owed' = owed \cup {r}
  /\ writtenOff' = writtenOff \ {r}
  /\ UNCHANGED contested

Forget(r) ==
  /\ state[r] \in Finished
  /\ state' = [state EXCEPT ![r] = "pruned"]
  /\ UNCHANGED <<owed, writtenOff, contested>>

LedgerNext ==
  \E r \in Runs : Accept(r) \/ Work(r) \/ Discharge(r) \/ WriteOff(r)
                    \/ Contend(r) \/ Again(r) \/ Forget(r)

LedgerSpec == LedgerInit /\ [][LedgerNext]_ledger
=============================================================================
