---------------------------- MODULE DashboardPage ----------------------------
(***************************************************************************)
(* One tab of the workstation dashboard, inference-api's dashboard.js: the *)
(* prompt studio, the image actions and the upload box, whose requests are *)
(* answered in any order, and the progress the page keeps in localStorage. *)
(* Left out: panels that only show what a request returns; the activity    *)
(* log and the job strip; workflows that take an image along; and the      *)
(* messages xp, activity and threat, which no server sends.                *)
(***************************************************************************)
EXTENDS Integers, Sequences, FiniteSetsExt

CONSTANTS
  Drops,        \* batches of files a user may drop: sequences of [name, image]
  StartXP,      \* what earlier sessions have earned
  MaxActions    \* bound: things the user does

Buttons == {"optimize-queue", "direct-queue", "improve-prompt"}

VARIABLES
  progress,     \* state.xp, level and badges
  stored,       \* localStorage: the progress, and how long the queue was
  dropped,      \* state.uploadQueue: [file, upload], upload {} or {the file it is of}
  input,        \* the prompt in the box: "typed" or "improved"
  button,       \* [Buttons -> [label, original, disabled]]
  running,      \* the actions under way: a set of [id, kind, stage, sent, files]
  actions,      \* actions begun
  repeated,     \* the buttons that were made busy while they were
  outcome       \* what was last sent: the prompt asked for and queued, the image shown and used

pageVars == << progress, stored, dropped, input, button, running, actions, repeated, outcome >>

Power(base, n) == LET p[i \in 0..n] == IF i = 0 THEN 1 ELSE base * p[i - 1] IN p[n]

\* XP_PER_LEVEL: 100 half as much again for each level, rounded down
XPPerLevel(level) == (100 * Power(3, level - 1)) \div Power(2, level - 1)

ASSUME PageAssumption == StartXP \subseteq 0..(XPPerLevel(1) - 1)

fresh == [label |-> "own", original |-> "none", disabled |-> FALSE]

PageInit ==
  /\ progress \in {[xp |-> x, level |-> 1, badges |-> {}] : x \in StartXP}
  /\ stored = [progress |-> progress, queued |-> 0]
  /\ dropped = << >> /\ input = "typed"
  /\ button = [b \in Buttons |-> fresh]
  /\ running = {} /\ actions = 0 /\ repeated = {}
  /\ outcome = [asked |-> "none", queued |-> "none", shown |-> "none", used |-> "none"]

-----------------------------------------------------------------------------
(* Helpers of the page                                                     *)

Busy(b) == [label |-> "loading", original |-> b.label, disabled |-> TRUE]
Ready(b) == [b EXCEPT !.label = b.original, !.disabled = FALSE]

\* awardXP: a level may be reached, and the next with what is left
Awarded(p, amount) ==
  LET xp == p.xp + amount
  IN  IF xp < XPPerLevel(p.level) THEN [p EXCEPT !.xp = xp]
      ELSE [xp |-> xp - XPPerLevel(p.level), level |-> p.level + 1, badges |-> p.badges]

Unlocked(p, badge) == [p EXCEPT !.badges = @ \union {badge}]

\* every award, badge and log entry is followed by a save of the whole state
Progresses(p) == progress' = p /\ stored' = [progress |-> p, queued |-> Len(dropped)]

Images(files) == SelectSeq(files, LAMBDA f : f.image)

\* selectedImageFile: the first image that was ever dropped
SelectedImage == LET at == {i \in DOMAIN dropped : dropped[i].file.image}
                 IN  IF at = {} THEN {} ELSE {Min(at)}

Action(kind, stage, files) ==
  [id |-> actions, kind |-> kind, stage |-> stage, sent |-> input, files |-> files]

Begins(a) == actions < MaxActions /\ actions' = actions + 1 /\ running' = running \union {a}
Goes(a, stage) == running' = (running \ {a}) \union {[a EXCEPT !.stage = stage]}
Finishes(a) == running' = running \ {a}

-----------------------------------------------------------------------------
(* The prompt studio                                                       *)

\* Ctrl+Enter begins another optimisation whatever the button says, and either
\* way begins while the prompt is being improved; both buttons then say that
\* they are busy.  The prompt is read before it is improved.
Optimize(keyboard) ==
  /\ keyboard \/ ~button["optimize-queue"].disabled
  /\ Begins(Action("optimize", "improving", << >>))
  /\ button' = [b \in Buttons |-> IF b = "direct-queue" THEN button[b] ELSE Busy(button[b])]
  /\ repeated' = repeated \union {b \in Buttons \ {"direct-queue"} : button[b].disabled}
  /\ UNCHANGED << progress, stored, dropped, input, outcome >>

DirectQueue ==
  /\ ~button["direct-queue"].disabled
  /\ Begins(Action("direct", "queueing", << >>))
  /\ button' = [button EXCEPT !["direct-queue"] = Busy(@)]
  /\ UNCHANGED << progress, stored, dropped, input, repeated, outcome >>

Improve ==
  /\ ~button["improve-prompt"].disabled
  /\ Begins(Action("improve", "improving", << >>))
  /\ button' = [button EXCEPT !["improve-prompt"] = Busy(@)]
  /\ UNCHANGED << progress, stored, dropped, input, repeated, outcome >>

\* a failure is told and swallowed, and an optimisation goes on to queue
ImproveAnswers(a, ok) ==
  /\ a.kind \in {"optimize", "improve"} /\ a.stage = "improving"
  /\ IF ok THEN /\ input' = "improved"
                /\ Progresses(Unlocked(Awarded(progress, 10), "prompt-engineer"))
     ELSE UNCHANGED << input, progress, stored >>
  /\ button' = [button EXCEPT !["improve-prompt"] = Ready(@)]
  /\ IF a.kind = "optimize" THEN Goes(a, "queueing") ELSE Finishes(a)
  /\ UNCHANGED << dropped, actions, repeated, outcome >>

Types == input' = "typed" /\ input # "typed"
         /\ UNCHANGED << progress, stored, dropped, button, running, actions, repeated, outcome >>

QueueButton(kind) == IF kind = "optimize" THEN "optimize-queue" ELSE "direct-queue"

\* mutant: an action whose request fails returns before its button is given back
AfterQueueing(a, ok) == IF ok THEN [button EXCEPT ![QueueButton(a.kind)] = Ready(@)] ELSE button

\* queueToComfyUI swallows its failures, so the award and the badge follow
\* whether or not anything was queued
WhenQueued(a, ok) == [button EXCEPT ![QueueButton(a.kind)] = Ready(@)]

GenerateAnswers(a, ok) ==
  /\ a.kind \in {"optimize", "direct"} /\ a.stage = "queueing"
  /\ Progresses(Unlocked(Awarded(progress, 15), "first-gen"))
  /\ outcome' = IF ok THEN [outcome EXCEPT !.asked = a.kind, !.queued = a.sent] ELSE outcome
  /\ button' = WhenQueued(a, ok)
  /\ Finishes(a)
  /\ UNCHANGED << dropped, input, actions, repeated >>

-----------------------------------------------------------------------------
(* The upload box and the image actions                                    *)

\* handleFiles: a drop is appended at once, and its images are sent
Drop(files) ==
  /\ Begins(Action("drop", "uploading", files))
  /\ dropped' = dropped \o [i \in DOMAIN files |-> [file |-> files[i], upload |-> {}]]
  /\ UNCHANGED << progress, stored, input, button, repeated, outcome >>

\* what came back is marked on the queue from its beginning on
Marked(uploads) ==
  [i \in DOMAIN dropped |->
     IF i \in DOMAIN uploads THEN [dropped[i] EXCEPT !.upload = {uploads[i]}] ELSE dropped[i]]

\* uploadFiles turns a failure into an empty answer
DropAnswers(a, ok) ==
  /\ a.kind = "drop"
  /\ dropped' = IF ok THEN Marked(Images(a.files)) ELSE dropped
  /\ Progresses(progress)
  /\ Finishes(a)
  /\ UNCHANGED << input, button, actions, repeated, outcome >>

\* upscale and variations: an image not marked yet is uploaded first
ImageAction ==
  /\ \E i \in SelectedImage :
       Begins([Action("image", IF dropped[i].upload = {} THEN "uploading" ELSE "calling", << >>)
                 EXCEPT !.files = <<dropped[i]>>])
  /\ UNCHANGED << progress, stored, dropped, input, button, repeated, outcome >>

ImageUploaded(a, ok) ==
  /\ a.kind = "image" /\ a.stage = "uploading"
  /\ LET own == IF ok THEN {a.files[1].file} ELSE {}
         i == Min({j \in DOMAIN dropped : dropped[j].file = a.files[1].file})
     IN  /\ dropped' = [dropped EXCEPT ![i].upload = own]
         /\ running' = (running \ {a}) \union {[a EXCEPT !.stage = "calling", !.files = <<[@[1] EXCEPT !.upload = own]>>]}
  /\ UNCHANGED << progress, stored, input, button, actions, repeated, outcome >>

\* without an upload the file's own name is sent, which the server may not know
ImageAnswers(a, ok) ==
  /\ a.kind = "image" /\ a.stage = "calling"
  /\ LET shown == a.files[1].file.name
         used == {f.name : f \in a.files[1].upload}
     IN  outcome' = IF ok THEN [outcome EXCEPT !.shown = shown,
                                  !.used = IF used = {} THEN shown ELSE CHOOSE n \in used : TRUE]
                    ELSE outcome
  /\ IF ok THEN Progresses(Unlocked(Awarded(progress, 15), "upscale-king"))
     ELSE UNCHANGED << progress, stored >>
  /\ Finishes(a)
  /\ UNCHANGED << dropped, input, button, actions, repeated >>

-----------------------------------------------------------------------------
\* What was under way is gone, what was stored is loaded; a File is stored
\* without its name, so its entry stays and no longer is an image.
Nameless == [file |-> [name |-> "none", image |-> FALSE], upload |-> {}]

Reload ==
  /\ progress' = stored.progress
  /\ dropped' = [i \in 1..stored.queued |-> Nameless]
  /\ input' = "typed"
  /\ button' = [b \in Buttons |-> fresh]
  /\ running' = {} /\ repeated' = {}
  /\ outcome' = [asked |-> "none", queued |-> "none", shown |-> "none", used |-> "none"]
  /\ UNCHANGED << stored, actions >>

PageNext ==
  \/ \E keyboard \in BOOLEAN : Optimize(keyboard)
  \/ DirectQueue \/ Improve \/ Types \/ ImageAction \/ Reload
  \/ \E files \in Drops : Drop(files)
  \/ \E a \in running, ok \in BOOLEAN :
       \/ ImproveAnswers(a, ok) \/ GenerateAnswers(a, ok)
       \/ DropAnswers(a, ok) \/ ImageUploaded(a, ok) \/ ImageAnswers(a, ok)

PageSpec == PageInit /\ [][PageNext]_pageVars

-----------------------------------------------------------------------------
(* Properties                                                              *)

Uses(a) == CASE a.kind = "optimize" -> {"optimize-queue"} \union (IF a.stage = "improving" THEN {"improve-prompt"} ELSE {})
             [] a.kind = "direct" -> {"direct-queue"}
             [] a.kind = "improve" -> {"improve-prompt"}
             [] a.kind \in {"drop", "image"} -> {}

\* Answers in any order, failures and overlapping actions: a button that
\* cannot be clicked belongs to an action still under way; one at rest has
\* its own label back unless it was made busy while it was (which saves the
\* spinner as its label, see OwnLabelsReturn), whatever became of the others;
\* and what the page shows of the user's progress is what a reload would bring
\* back, short of the next level (setLoading, handlePromptAction, awardXP, save).
PageComesToRest ==
  /\ \A b \in Buttons :
       LET used == \E a \in running : b \in Uses(a)
       IN  /\ button[b].disabled => used
           /\ ~used /\ b \notin repeated => button[b].label = "own"
  /\ stored.progress = progress
  /\ progress.xp \in 0..(XPPerLevel(progress.level) - 1)

\* A button at rest says what it does (dashboard.html:208-210).  Not so: an
\* optimisation begun while the prompt is being improved, by mouse or keyboard,
\* leaves "Loading..." on the button for good.
OwnLabelsReturn == \A b \in Buttons : ~(\E a \in running : b \in Uses(a)) => button[b].label = "own"

\* "Optimize + Queue" (dashboard.html:208) queues the prompt it improved.
OptimizedIsQueued == outcome.asked = "optimize" => outcome.queued = "improved"

\* The image an action says it works on (dashboard.js:1893) is the one it uses.
OwnImageIsUsed == outcome.shown = outcome.used
=============================================================================
