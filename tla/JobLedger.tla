------------------------------ MODULE JobLedger ------------------------------
(***************************************************************************)
(* The dashboard's job ledger of inference-api: jobs.json, a JSON list     *)
(* that every reader reads whole and every writer writes whole.            *)
(*                                                                         *)
(* Its writers are the event loop (a generation that was queued, a status  *)
(* poll that resumes after its await, the watchdog) and the threads in     *)
(* which POST /api/system/self-heal prunes.  A write is three steps:       *)
(* write_text opens, and so empties, the file, then fills it, and a thread *)
(* may come in between any two of them; the loop's handlers may not.  A    *)
(* file that is not valid JSON reads as an empty list, and is one here.    *)
(* A poll writes back the list it read before its await.                   *)
(*                                                                         *)
(* A list is a set: readers sort it.  A created_at is the week it lies in, *)
(* as pruning compares it with a cutoff of seven days.                     *)
(***************************************************************************)
EXTENDS Naturals

CONSTANTS
  Prompts,      \* prompt ids ComfyUI hands out
  Sweeps,       \* status requests that can be open at once
  Loop,         \* the event loop as a writer
  Threads,      \* the threads of self-heal requests
  MaxWeek, MaxCrashes     \* bounds of the model

ASSUME LedgerAssumption == Loop \notin Threads /\ MaxWeek \in Nat /\ MaxCrashes \in Nat

Writers == {Loop} \cup Threads

Ends == {"success", "error"}

Record == [id : Prompts, status : {"running"} \cup Ends, born : 0 .. MaxWeek]

VARIABLES
  file,      \* jobs.json, as a reader gets it
  writer,    \* how far each writer is with a write, and what it will write
  sweep,     \* the status requests, and what each holds over its awaits
  comfy,     \* what ComfyUI knows of each prompt
  queued,    \* prompts whose generation request waits for the loop
  week, crashes,
  ended      \* history: how ComfyUI ended each prompt

vars == << file, writer, sweep, comfy, queued, week, crashes, ended >>

Resting == [stage |-> "idle", content |-> {}]
NoSweep == [at |-> "idle", todo |-> {}, others |-> {}, job |-> {}]

\* "job" (one record, or none) and "others" (the rest of the list it was read
\* with) are the locals of _comfy_job_status.
TypeOK ==
  /\ file \subseteq Record
  /\ writer \in [Writers -> [stage : {"idle", "opening", "filling"}, content : SUBSET Record]]
  /\ sweep \in [Sweeps -> [at : {"idle", "ready", "asked", "writing"}, todo : SUBSET Prompts,
                           others : SUBSET Record, job : SUBSET Record]]
  /\ comfy \in [Prompts -> {"absent", "running", "forgotten"} \cup Ends]
  /\ queued \subseteq Prompts
  /\ week \in 0 .. MaxWeek /\ crashes \in 0 .. MaxCrashes
  /\ ended \in [Prompts -> {"no"} \cup Ends]

Init ==
  /\ file = {}
  /\ writer = [w \in Writers |-> Resting]
  /\ sweep = [s \in Sweeps |-> NoSweep]
  /\ comfy = [p \in Prompts |-> "absent"]
  /\ queued = {}
  /\ week = 0 /\ crashes = 0
  /\ ended = [p \in Prompts |-> "no"]

-----------------------------------------------------------------------------
(* Reading and writing                                                     *)

Listed(p) == \E r \in file : r.id = p

\* mutant: the record is added to what the list has
WithJobBeside(list, job) == list \cup {job}

\* The list with "job" for the record it has of that prompt.
WithJob(list, job) == {r \in list : r.id # job.id} \cup {job}

Free(w) == writer[w].stage = "idle"

\* No handler holds the event loop.
LoopFree == Free(Loop) /\ \A s \in Sweeps : sweep[s].at # "ready"

\* w is about to write "content".
WriteList(w, content) ==
  writer' = [writer EXCEPT ![w] = [stage |-> "opening", content |-> content]]

OpenFile(w) ==
  /\ writer[w].stage = "opening"
  /\ writer' = [writer EXCEPT ![w].stage = "filling"]
  /\ file' = {}
  /\ UNCHANGED << sweep, comfy, queued, week, crashes, ended >>

\* The sweep whose write this is polls its next job, or has answered.
Resumed(s) ==
  IF sweep[s].at # "writing" THEN sweep[s]
  ELSE IF sweep[s].todo = {} THEN NoSweep
  ELSE [sweep[s] EXCEPT !.at = "ready"]

\* What another writer has put into the file since w opened it is written
\* over from its start; of a longer text the tail stays, and is not JSON.
FillFile(w) ==
  /\ writer[w].stage = "filling"
  /\ writer' = [writer EXCEPT ![w] = Resting]
  /\ \/ file' = writer[w].content
     \/ file # {} /\ file' = {}
  /\ IF w = Loop THEN sweep' = [s \in Sweeps |-> Resumed(s)] ELSE UNCHANGED sweep
  /\ UNCHANGED << comfy, queued, week, crashes, ended >>

-----------------------------------------------------------------------------
(* Generations and status requests, in the event loop                      *)

\* POST /prompt reaches ComfyUI, whose answer may take forever.
Queue(p) ==
  /\ comfy[p] = "absent"
  /\ comfy' = [comfy EXCEPT ![p] = "running"]
  /\ queued' = queued \cup {p}
  /\ UNCHANGED << file, writer, sweep, week, crashes, ended >>

\* A job that has not ended is "running", also while it is "queued".
NewRecord(p) == [id |-> p, status |-> "running", born |-> week]

RegisterJob(p) ==
  /\ p \in queued /\ LoopFree
  /\ WriteList(Loop, WithJob(file, NewRecord(p)))
  /\ queued' = queued \ {p}
  /\ UNCHANGED << file, sweep, comfy, week, crashes, ended >>

\* GET /api/jobs polls the jobs of the list as it is now, one after the
\* other; GET /api/jobs/{id} polls one prompt, listed or not.
StartSweep(s) ==
  /\ sweep[s].at = "idle" /\ LoopFree
  /\ \E todo \in {{r.id : r \in file}} \cup {{p} : p \in {q \in Prompts : comfy[q] # "absent"}} :
       /\ todo # {}
       /\ sweep' = [sweep EXCEPT ![s] = [NoSweep EXCEPT !.at = "ready", !.todo = todo]]
  /\ UNCHANGED << file, writer, comfy, queued, week, crashes, ended >>

\* _comfy_job_status up to its await.  A prompt that is not listed is taken
\* for one of now.
AskStatus(s, p) ==
  /\ sweep[s].at = "ready" /\ p \in sweep[s].todo
  /\ LET known == {r \in file : r.id = p}
     IN  \E job \in IF Listed(p) THEN known ELSE {NewRecord(p)} :
           sweep' = [sweep EXCEPT ![s] =
             [at |-> "asked", todo |-> sweep[s].todo \ {p}, others |-> file \ known,
              job |-> {[job EXCEPT !.status = "running"]}]]
  /\ UNCHANGED << file, writer, comfy, queued, week, crashes, ended >>

\* mutant: a prompt that ComfyUI has no history of is taken to have ended
AnswersOfForgotten(p) ==
  {"running"} \cup (IF comfy[p] \in Ends \cup {"forgotten"} THEN {"success"} ELSE {})

\* mutant: only "completed" is looked at, so an error is never told
AnswersOfCompleted(p) ==
  {"running"} \cup (IF comfy[p] = "success" THEN {"success"} ELSE {})

\* What a poll makes of ComfyUI: without an answer in five seconds, without
\* a history, or before the end, the job is "running".
Answers(p) == {"running"} \cup (IF comfy[p] \in Ends THEN {comfy[p]} ELSE {})

\* ... and from its await to its end, with "status".
TakeStatus(s, status) ==
  /\ sweep[s].at = "asked" /\ LoopFree
  /\ \E job \in sweep[s].job :
       /\ status \in Answers(job.id)
       /\ WriteList(Loop, WithJob(sweep[s].others, [job EXCEPT !.status = status]))
  /\ sweep' = [sweep EXCEPT ![s] = [NoSweep EXCEPT !.at = "writing", !.todo = sweep[s].todo]]
  /\ UNCHANGED << file, comfy, queued, week, crashes, ended >>

-----------------------------------------------------------------------------
(* Pruning, by the watchdog in the loop or by a request in a thread        *)

Stale(r) == r.born < week /\ r.status \in Ends

SelfHeal(w) ==
  /\ IF w = Loop THEN LoopFree ELSE Free(w)
  /\ \E r \in file : Stale(r)
  /\ WriteList(w, {r \in file : ~Stale(r)})
  /\ UNCHANGED << file, sweep, comfy, queued, week, crashes, ended >>

-----------------------------------------------------------------------------
(* The rest of the world                                                   *)

ComfyEnds(p) ==
  /\ comfy[p] = "running"
  /\ \E end \in Ends :
       comfy' = [comfy EXCEPT ![p] = end] /\ ended' = [ended EXCEPT ![p] = end]
  /\ UNCHANGED << file, writer, sweep, queued, week, crashes >>

\* ComfyUI is started again, and has no history.
ComfyRestart ==
  /\ comfy' = [p \in Prompts |-> IF comfy[p] = "absent" THEN "absent" ELSE "forgotten"]
  /\ comfy' # comfy
  /\ UNCHANGED << file, writer, sweep, queued, week, crashes, ended >>

\* The server's process ends, maybe in the middle of a write, and is started.
Crash ==
  /\ crashes < MaxCrashes
  /\ crashes' = crashes + 1
  /\ writer' = [w \in Writers |-> Resting]
  /\ sweep' = [s \in Sweeps |-> NoSweep]
  /\ queued' = {}
  /\ UNCHANGED << file, comfy, week, ended >>

WeekPasses ==
  /\ week < MaxWeek
  /\ week' = week + 1
  /\ UNCHANGED << file, writer, sweep, comfy, queued, crashes, ended >>

Next ==
  \/ \E w \in Writers : OpenFile(w) \/ FillFile(w) \/ SelfHeal(w)
  \/ \E p \in Prompts : Queue(p) \/ RegisterJob(p) \/ ComfyEnds(p)
  \/ \E s \in Sweeps : StartSweep(s) \/ (\E p \in Prompts : AskStatus(s, p))
                       \/ (\E status \in {"running"} \cup Ends : TakeStatus(s, status))
  \/ ComfyRestart \/ Crash \/ WeekPasses

(* The loop and the threads run on; an await ends, and a job that ComfyUI  *)
(* has ended is told ended in the end however often the request for it     *)
(* times out; the dashboard asks for its jobs every five seconds.          *)
SweepList(s) == StartSweep(s) /\ sweep'[s].todo = {r.id : r \in file}

TakeEnd(s, p) ==
  /\ \E job \in sweep[s].job : job.id = p
  /\ \E status \in Ends : TakeStatus(s, status)

Fairness ==
  /\ \A w \in Writers : WF_vars(OpenFile(w)) /\ WF_vars(FillFile(w))
  /\ \A s \in Sweeps :
       /\ SF_vars(SweepList(s))
       /\ WF_vars(\E p \in Prompts : AskStatus(s, p))
       /\ SF_vars(\E status \in {"running"} \cup Ends : TakeStatus(s, status))
       /\ \A p \in Prompts : SF_vars(TakeEnd(s, p))

Spec == Init /\ [][Next]_vars /\ Fairness

-----------------------------------------------------------------------------
(* Properties                                                              *)

OneEach(list) == \A r, s \in list : r.id = s.id => r = s

\* However status requests, registrations and prunings overlap, the ledger
\* has no two records of a prompt.
OneRecordPerPrompt == OneEach(file)

\* A job the ledger shows as ended was ended so by ComfyUI, however old the
\* list is that a request writes back and whatever ComfyUI has forgotten.
EndsAreReal == \A r \in file : r.status \in Ends => ended[r.id] = r.status

ShownEnded(p) == \E r \in file : r.id = p /\ r.status = ended[p]

\* A job that ComfyUI has ended and remembers, and that is not lost from the
\* ledger, is shown as ended again and again, although requests that ran into
\* their timeout or hold an older list keep writing it back as running.
EndedJobsAreShown ==
  \A p \in Prompts :
    (<>[](comfy[p] \in Ends) /\ []<>Listed(p)) => []<>ShownEnded(p)
=============================================================================
