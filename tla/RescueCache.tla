---------------------------- MODULE RescueCache ----------------------------
(***************************************************************************)
(* The disk report of the workstation dashboard, inference-api's main.py:  *)
(* it takes 20 seconds to make, and is kept in the memory of each worker   *)
(* process and in one file they share.                                     *)
(***************************************************************************)
EXTENDS Clock

CONSTANTS
  Workers,     \* processes serving the dashboard
  TTL,         \* _DISK_RESCUE_TTL
  Longest      \* the time a report takes to make

ASSUME RescueAssumption == TTL \in Nat \ {0} /\ Longest \in Nat

VARIABLES
  memory,      \* [Workers -> {} or one report with its _mem_ts]: _DISK_RESCUE_MEM
  filed,       \* {}, or what disk_rescue.json holds: a report, or nothing readable
  making,      \* [Workers -> the reports its threads are making or writing]
  age          \* how old the report of the last answer was

rescueVars == << now, memory, filed, making, age >>

torn == [readable |-> FALSE]

RescueInit ==
  /\ now = 0 /\ age = 0
  /\ memory = [w \in Workers |-> {}]
  /\ filed = {}
  /\ making = [w \in Workers |-> {}]

RememberedReports(w) == {m \in memory[w] : now < m.stamp + TTL}
FiledReports == {f \in filed : f.readable /\ now < f.written + TTL}

-----------------------------------------------------------------------------
(* _disk_rescue_report: three tiers                                        *)

\* mutant: a report in use stays young
Touched(w) == [memory EXCEPT ![w] = {[m EXCEPT !.stamp = now] : m \in @}]

\* an answer from memory leaves the memory as it is
Untouched(w) == memory

FromMemory(w) ==
  /\ RememberedReports(w) # {}
  /\ age' \in {now - m.made : m \in RememberedReports(w)}
  /\ memory' = Untouched(w)
  /\ UNCHANGED << now, filed, making >>

\* a report of the file starts a life of its own in memory
FromFile(w) ==
  /\ RememberedReports(w) = {}
  /\ \E f \in FiledReports :
       /\ age' = now - f.made
       /\ memory' = [memory EXCEPT ![w] = {[made |-> f.made, stamp |-> now]}]
  /\ UNCHANGED << now, filed, making >>

\* several threads, of several workers, may be at it at once
StartReport(w) ==
  /\ RememberedReports(w) = {} /\ FiledReports = {}
  /\ making' = [making EXCEPT ![w] = @ \union {[made |-> now, writing |-> FALSE]}]
  /\ UNCHANGED << now, memory, filed, age >>

\* write_text empties the file before it fills it
OpenReport(w, report) ==
  /\ ~report.writing
  /\ making' = [making EXCEPT ![w] = (@ \ {report}) \union {[report EXCEPT !.writing = TRUE]}]
  /\ filed' = {torn}
  /\ UNCHANGED << now, memory, age >>

\* A disk that is full leaves the file empty and the memory as it was; the
\* answer is fresh all the same.
FinishReport(w, report, failed) ==
  /\ report.writing
  /\ making' = [making EXCEPT ![w] = @ \ {report}]
  /\ age' = now - report.made
  /\ IF failed
     THEN UNCHANGED << memory, filed >>
     ELSE /\ filed' = {[readable |-> TRUE, made |-> report.made, written |-> now]}
          /\ memory' = [memory EXCEPT ![w] = {[made |-> report.made, stamp |-> now]}]
  /\ UNCHANGED now

\* the next start: memories and unfinished reports are gone, the file stays
WorkerRestarts(w) ==
  /\ memory' = [memory EXCEPT ![w] = {}]
  /\ making' = [making EXCEPT ![w] = {}]
  /\ UNCHANGED << now, filed, age >>

RescueNext ==
  \/ /\ Passes /\ UNCHANGED << memory, filed, making, age >>
     /\ \A w \in Workers : \A r \in making[w] : now < r.made + Longest
  \/ \E w \in Workers :
       \/ FromMemory(w) \/ FromFile(w) \/ StartReport(w) \/ WorkerRestarts(w)
       \/ \E r \in making[w] : OpenReport(w, r) \/ \E failed \in BOOLEAN : FinishReport(w, r, failed)

RescueSpec == RescueInit /\ [][RescueNext]_rescueVars

-----------------------------------------------------------------------------
(* Properties                                                              *)

\* Through both tiers, restarts, torn files and reports made twice, no answer
\* is older than two lives of a cached report and the making of it.
ReportsAgeBounded == age < 2 * TTL + Longest
=============================================================================
