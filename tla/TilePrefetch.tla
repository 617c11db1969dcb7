---------------------------- MODULE TilePrefetch ----------------------------
(***************************************************************************)
(* One tile download job of the application                                *)
(* (mobile_app/lib/services/tile_prefetch_service.dart on top of           *)
(* mobile_app/lib/data/tiles_repository.dart): the job and tile tables,    *)
(* the tiles on disk, the workers of a _JobRunner, the user's buttons,     *)
(* process death and the recovery at the next start.                       *)
(*                                                                         *)
(* The database executes its statements one at a time in the order they    *)
(* were issued, so a statement takes effect in the step that issues it;    *)
(* what follows its await is a step of its own.  The two statements of     *)
(* markTileInProgress are one.  The database itself does not fail, and     *)
(* says nothing of the order of the rows it selects: batches are sets,     *)
(* seen to in any order.                                                   *)
(***************************************************************************)
EXTENDS Naturals, Sequences, FiniteSets

CONSTANTS
  Zooms,      \* the tiles of each zoom level in turn
  Worker,     \* the workers of a runner, concurrency of them
  Limit,      \* tiles fetched at once, concurrency * 4
  MaxAttempts,\* kMaxTileAttempts, 5
  MaxRunners, \* bound on the runners that exist at once
  MaxEvents   \* bound on the user's taps and the process deaths

Tiles == UNION {Zooms[z] : z \in DOMAIN Zooms}
Runner == 1 .. MaxRunners

ASSUME PrefetchAssumption ==
  /\ Zooms \in Seq(SUBSET Nat) /\ IsFiniteSet(Tiles)
  /\ Worker /= {} /\ IsFiniteSet(Worker)
  /\ Limit \in Nat \ {0} /\ MaxAttempts \in Nat \ {0} /\ MaxRunners \in Nat \ {0}
  /\ MaxEvents \in Nat

VARIABLES
  status,     \* status of the job row, "none" before there is one
  tilesDone,  \* its progress counter
  tile,       \* status of each tile row, "none" before it is enqueued
  attempts,   \* attempts of each tile row
  files,      \* tiles on disk
  starting,   \* startJob: the next zoom to enqueue, 0 when not under way
  resuming,   \* resumeJob: its next step
  recovery,   \* resumePendingJobs: its next step
  owned,      \* _activeJobId of the controller is set
  shown,      \* the status the screen shows
  active,     \* the runner in _activeJobs, 0 for none
  run,        \* state of the runners
  pc,         \* pc[r][w]: where worker w of runner r awaits
  todo,       \* todo[r][w]: the tiles it still has to see to
  events,     \* taps and process deaths so far
  \* What has happened, for the properties; no action reads these.
  crossed,    \* the job was cancelled in the middle of a resumption or recovery
  stranded,   \* the last start found a runner that was about to leave
  meddled     \* a runner worked when another was about to be started

dbVars == <<status, tilesDone, tile, attempts, files>>
uiVars == <<starting, resuming, recovery, owned, shown>>
runVars == <<active, run, pc, todo>>
history == <<crossed, stranded, meddled>>
vars == <<dbVars, uiVars, runVars, events, history>>

Fresh == [phase |-> "working", paused |-> FALSE, cancelled |-> FALSE,
          isDone |-> FALSE, fetching |-> FALSE, batch |-> {}, queue |-> {}]
Gone == [Fresh EXCEPT !.phase = "gone"]

Init ==
  /\ status = "none" /\ tilesDone = 0 /\ files = {}
  /\ tile = [t \in Tiles |-> "none"] /\ attempts = [t \in Tiles |-> 0]
  /\ starting = 0 /\ resuming = "no" /\ recovery = "due"
  /\ owned = FALSE /\ shown = "none" /\ active = 0
  /\ run = [r \in Runner |-> Gone]
  /\ pc = [r \in Runner |-> [w \in Worker |-> "done"]]
  /\ todo = [r \in Runner |-> [w \in Worker |-> {}]]
  /\ events = 0
  /\ crossed = FALSE /\ stranded = FALSE /\ meddled = FALSE

----------------------------------------------------------------------------
(* The repository. *)

Queued == {t \in Tiles : tile[t] = "queued"}

\* nextBatchOfTiles: Limit queued tiles, or all there are.
IsNextBatch(B) ==
  IF Cardinality(Queued) < Limit THEN B = Queued ELSE Cardinality(B) = Limit

\* requeueFailedTiles
Retryable == {t \in Tiles : tile[t] = "failed" /\ attempts[t] < MaxAttempts}

\* Wrong: an attempt is not counted.
CountedNever(t) == attempts

Counted(t) == IF attempts[t] < MaxAttempts THEN [attempts EXCEPT ![t] = @ + 1] ELSE attempts

\* markTileInProgress
MarkInProgress(t) ==
  /\ tile' = [tile EXCEPT ![t] = "in_progress"]
  /\ attempts' = Counted(t)

\* Wrong: every tile of the job is queued again.
ResetAll == tile' = [t \in Tiles |-> IF tile[t] = "none" THEN "none" ELSE "queued"]

\* resetInProgressTiles
ResetInProgress ==
  tile' = [t \in Tiles |-> IF tile[t] = "in_progress" THEN "queued" ELSE tile[t]]

----------------------------------------------------------------------------
(* The service. *)

\* _startProcessing: nothing if _activeJobs has a runner for the job.
StartProcessing ==
  \/ /\ active /= 0
     /\ stranded' = (run[active].paused \/ run[active].phase = "ending")
     /\ UNCHANGED runVars
  \/ /\ active = 0 /\ stranded' = FALSE
     /\ \E r \in Runner :
          /\ run[r].phase = "gone" /\ \A q \in 1 .. (r - 1) : run[q].phase /= "gone"
          /\ active' = r
          /\ run' = [run EXCEPT ![r] = Fresh]
          /\ pc' = [pc EXCEPT ![r] = [w \in Worker |-> "next"]]
          /\ UNCHANGED todo

Quiet == resuming = "no" /\ recovery = "done"
Working == {r \in Runner : run[r].phase /= "gone"}

\* The tiles are enqueued or reset for a runner that is still to be started, and
\* there is one, or the job is complete.
Meddling ==
  /\ starting /= 0 \/ resuming = "start" \/ recovery \in {"status", "start"}
  /\ Working /= {} \/ status = "completed"

Noted == meddled' = (meddled \/ Meddling')

\* startJob creates the job row.
CreateJob ==
  /\ status = "none"
  /\ status' = "running" /\ starting' = 1
  /\ UNCHANGED <<tilesDone, tile, attempts, files, resuming, recovery, owned, shown,
                 runVars, events, history>>

EnqueueTiles ==
  /\ starting \in DOMAIN Zooms
  /\ tile' = [t \in Tiles |-> IF t \in Zooms[starting] THEN "queued" ELSE tile[t]]
  /\ starting' = starting + 1
  /\ UNCHANGED <<status, tilesDone, attempts, files, resuming, recovery, owned, shown,
                 runVars, events, history>>

\* startJob is through and the controller keeps the job's id.
JobStarted ==
  /\ starting = Len(Zooms) + 1
  /\ StartProcessing
  /\ starting' = 0 /\ owned' = TRUE
  /\ UNCHANGED <<dbVars, resuming, recovery, shown, events, crossed>>
  /\ Noted

\* The screen follows the job row.
Show ==
  /\ owned /\ shown /= status
  /\ shown' = status
  /\ UNCHANGED <<dbVars, starting, resuming, recovery, owned, runVars, events, history>>

Tap ==
  /\ owned /\ events < MaxEvents
  /\ events' = events + 1

\* pauseJob
Pause ==
  /\ Tap /\ shown \notin {"paused", "completed", "cancelled"}
  /\ run' = IF active = 0 THEN run ELSE [run EXCEPT ![active].paused = TRUE]
  /\ status' = "paused"
  /\ UNCHANGED <<tilesDone, tile, attempts, files, starting, resuming, recovery, owned, shown,
                 active, pc, todo, history>>

\* cancelJob: the runner leaves _activeJobs although it still works.
Cancel ==
  /\ Tap /\ shown \notin {"completed", "cancelled"}
  /\ run' = IF active = 0 THEN run ELSE [run EXCEPT ![active].cancelled = TRUE]
  /\ active' = 0
  /\ status' = "cancelled" /\ owned' = FALSE
  /\ crossed' = (crossed \/ resuming /= "no" \/ recovery \notin {"due", "done"})
  /\ UNCHANGED <<tilesDone, tile, attempts, files, starting, resuming, recovery, shown,
                 pc, todo, stranded, meddled>>

\* resumeJob in its three steps
Resume ==
  /\ Tap /\ shown = "paused" /\ resuming = "no"
  /\ status' = "running" /\ resuming' = "reset"
  /\ UNCHANGED <<tilesDone, tile, attempts, files, starting, recovery, owned, shown,
                 runVars, history>>

ResumeReset ==
  /\ resuming = "reset"
  /\ ResetInProgress /\ resuming' = "start"
  /\ UNCHANGED <<status, tilesDone, attempts, files, starting, recovery, owned, shown,
                 runVars, events, crossed, stranded>>
  /\ Noted

ResumeStart ==
  /\ resuming = "start"
  /\ StartProcessing /\ resuming' = "no"
  /\ UNCHANGED <<dbVars, starting, recovery, owned, shown, events, crossed>>
  /\ Noted

\* resumePendingJobs, two seconds after the application starts
RecoverSelect ==
  /\ recovery = "due"
  /\ recovery' = IF status \in {"running", "paused"} THEN "reset" ELSE "done"
  /\ UNCHANGED <<dbVars, starting, resuming, owned, shown, runVars, events, history>>

RecoverReset ==
  /\ recovery = "reset"
  /\ ResetInProgress /\ recovery' = "status"
  /\ UNCHANGED <<status, tilesDone, attempts, files, starting, resuming, owned, shown,
                 runVars, events, crossed, stranded>>
  /\ Noted

RecoverStatus ==
  /\ recovery = "status"
  /\ status' = "running" /\ recovery' = "start"
  /\ UNCHANGED <<tilesDone, tile, attempts, files, starting, resuming, owned, shown,
                 runVars, events, history>>

RecoverStart ==
  /\ recovery = "start"
  /\ StartProcessing /\ recovery' = "done"
  /\ UNCHANGED <<dbVars, starting, resuming, owned, shown, events, crossed>>
  /\ Noted

----------------------------------------------------------------------------
(* The workers of a runner. *)

Halted(r) == run[r].paused \/ run[r].cancelled \/ run[r].isDone

Goto(r, w, label, left) ==
  /\ pc' = [pc EXCEPT ![r][w] = label]
  /\ todo' = [todo EXCEPT ![r][w] = left]

Stop(r, w) ==
  /\ pc[r][w] = "next" /\ Halted(r)
  /\ Goto(r, w, "done", {})
  /\ UNCHANGED <<dbVars, uiVars, active, run, events, history>>

\* The next tile of the local queue: on disk already, or to be downloaded.
Take(r, w, t) ==
  /\ pc[r][w] = "next" /\ ~Halted(r) /\ t \in run[r].queue
  /\ run' = [run EXCEPT ![r].queue = @ \ {t}]
  /\ \/ /\ t \in files
        /\ tile' = [tile EXCEPT ![t] = "skipped"]
        /\ Goto(r, w, "count", {t})
        /\ UNCHANGED attempts
     \/ /\ t \notin files
        /\ MarkInProgress(t)
        /\ Goto(r, w, "get", {t})
  /\ UNCHANGED <<status, tilesDone, files, uiVars, active, events, history>>

\* One worker at a time fetches the next batch.
Fetch(r, w) ==
  /\ pc[r][w] = "next" /\ ~Halted(r) /\ run[r].queue = {} /\ ~run[r].fetching
  /\ \E B \in SUBSET Queued :
       /\ IsNextBatch(B)
       /\ run' = [run EXCEPT ![r].fetching = TRUE, ![r].batch = B]
       /\ Goto(r, w, IF B = {} THEN "empty" ELSE "mark", B)
  /\ UNCHANGED <<dbVars, uiVars, active, events, history>>

MarkTile(r, w, t) ==
  /\ pc[r][w] = "mark" /\ t \in todo[r][w]
  /\ MarkInProgress(t)
  /\ Goto(r, w, "mark", todo[r][w] \ {t})
  /\ UNCHANGED <<status, tilesDone, files, uiVars, active, run, events, history>>

AddBatch(r, w) ==
  /\ pc[r][w] = "mark" /\ todo[r][w] = {}
  /\ run' = [run EXCEPT ![r].queue = @ \union run[r].batch, ![r].batch = {}, ![r].fetching = FALSE]
  /\ Goto(r, w, "next", {})
  /\ UNCHANGED <<dbVars, uiVars, active, events, history>>

\* Nothing is queued: which failed tiles are tried again?
SelectFailed(r, w) ==
  /\ pc[r][w] = "empty"
  /\ Goto(r, w, IF Retryable = {} THEN "dry" ELSE "requeue", Retryable)
  /\ UNCHANGED <<dbVars, uiVars, active, run, events, history>>

RequeueTile(r, w, t) ==
  /\ pc[r][w] = "requeue" /\ t \in todo[r][w]
  /\ tile' = [tile EXCEPT ![t] = "queued"]
  /\ Goto(r, w, "requeue", todo[r][w] \ {t})
  /\ UNCHANGED <<status, tilesDone, attempts, files, uiVars, active, run, events, history>>

Requeued(r, w) ==
  /\ pc[r][w] = "requeue" /\ todo[r][w] = {}
  /\ run' = [run EXCEPT ![r].fetching = FALSE]
  /\ Goto(r, w, "next", {})
  /\ UNCHANGED <<dbVars, uiVars, active, events, history>>

\* None: the runner is done, whatever the other workers still download.
Dry(r, w) ==
  /\ pc[r][w] = "dry"
  /\ run' = [run EXCEPT ![r].isDone = TRUE, ![r].fetching = FALSE]
  /\ Goto(r, w, "next", {})
  /\ UNCHANGED <<dbVars, uiVars, active, events, history>>

\* Wrong: the temporary file is not renamed.
DownloadUnsaved(r, w, t) ==
  /\ pc[r][w] = "get"
  /\ Goto(r, w, "saved", {t})
  /\ UNCHANGED <<dbVars, uiVars, active, run, events, history>>

\* The answer is written to a temporary file, which is renamed.
Download(r, w, t) ==
  /\ pc[r][w] = "get"
  /\ files' = files \union {t}
  /\ Goto(r, w, "saved", {t})
  /\ UNCHANGED <<status, tilesDone, tile, attempts, uiVars, active, run, events, history>>

\* No answer within the time limit, an error, or the file cannot be written.
Fail(r, w, t) ==
  /\ pc[r][w] = "get"
  /\ Goto(r, w, "failed", {t})
  /\ UNCHANGED <<dbVars, uiVars, active, run, events, history>>

MarkDownloaded(r, w, t) ==
  /\ pc[r][w] = "saved"
  /\ tile' = [tile EXCEPT ![t] = "downloaded"]
  /\ Goto(r, w, "count", {t})
  /\ UNCHANGED <<status, tilesDone, attempts, files, uiVars, active, run, events, history>>

IncrementJobProgress(r, w, t) ==
  /\ pc[r][w] = "count"
  /\ tilesDone' = tilesDone + 1
  /\ Goto(r, w, "next", {})
  /\ UNCHANGED <<status, tile, attempts, files, uiVars, active, run, events, history>>

MarkFailed(r, w, t) ==
  /\ pc[r][w] = "failed"
  /\ tile' = [tile EXCEPT ![t] = "failed"]
  /\ Goto(r, w, "next", {})
  /\ UNCHANGED <<status, tilesDone, attempts, files, uiVars, active, run, events, history>>

\* Wrong: a runner that was stopped completes the job as well.
CompletesAlways(r) == ~run[r].cancelled

\* Wrong: a cancelled runner completes the job as well.
CompletesCancelled(r) == run[r].isDone /\ ~run[r].paused

Completes(r) == run[r].isDone /\ ~run[r].paused /\ ~run[r].cancelled

\* All workers are through.  onComplete removes whatever runner is active.
Finish(r) ==
  /\ run[r].phase = "working" /\ \A w \in Worker : pc[r][w] = "done"
  /\ IF Completes(r)
       THEN /\ status' = "completed" /\ run' = [run EXCEPT ![r].phase = "ending"]
            /\ UNCHANGED active
       ELSE /\ active' = 0 /\ run' = [run EXCEPT ![r] = Gone]
            /\ UNCHANGED status
  /\ UNCHANGED <<tilesDone, tile, attempts, files, uiVars, pc, todo, events, history>>

\* Wrong: the runner stays in _activeJobs.
OnCompleteKept(r) ==
  /\ run[r].phase = "ending"
  /\ run' = [run EXCEPT ![r] = Gone]
  /\ UNCHANGED <<dbVars, uiVars, active, pc, todo, events, history>>

OnComplete(r) ==
  /\ run[r].phase = "ending"
  /\ active' = 0 /\ run' = [run EXCEPT ![r] = Gone]
  /\ UNCHANGED <<dbVars, uiVars, pc, todo, events, history>>

----------------------------------------------------------------------------

\* The process dies: the tables and the files stay.
Crash ==
  /\ events < MaxEvents
  /\ events' = events + 1
  /\ starting' = 0 /\ resuming' = "no" /\ recovery' = "due"
  /\ owned' = FALSE /\ shown' = "none" /\ active' = 0
  /\ run' = [r \in Runner |-> Gone]
  /\ pc' = [r \in Runner |-> [w \in Worker |-> "done"]]
  /\ todo' = [r \in Runner |-> [w \in Worker |-> {}]]
  /\ UNCHANGED <<dbVars, history>>

\* _processTile, from the answer to its end
Process(r, w, t) ==
  \/ Download(r, w, t) \/ Fail(r, w, t) \/ MarkDownloaded(r, w, t)
  \/ IncrementJobProgress(r, w, t) \/ MarkFailed(r, w, t)

Work(r, w) ==
  \/ Stop(r, w) \/ (\E t \in run[r].queue : Take(r, w, t))
  \/ Fetch(r, w) \/ AddBatch(r, w) \/ SelectFailed(r, w) \/ Requeued(r, w) \/ Dry(r, w)
  \/ \E t \in todo[r][w] : MarkTile(r, w, t) \/ RequeueTile(r, w, t) \/ Process(r, w, t)

Service ==
  \/ EnqueueTiles \/ JobStarted \/ ResumeReset \/ ResumeStart
  \/ RecoverSelect \/ RecoverReset \/ RecoverStatus \/ RecoverStart
  \/ \E r \in Runner : Finish(r) \/ OnComplete(r) \/ \E w \in Worker : Work(r, w)

User == CreateJob \/ Show \/ Pause \/ Resume \/ Cancel

Next == Service \/ User \/ Crash

\* The event loop runs whatever is ready; a download ends within 15 seconds.
Spec == Init /\ [][Next]_vars /\ WF_vars(Service)

----------------------------------------------------------------------------

Settled == {t \in Tiles : tile[t] \in {"downloaded", "skipped"}}
Counting == {rw \in Runner \X Worker : pc[rw[1]][rw[2]] = "count"}

\* What the tables call available offline is on disk, whenever the process died
\* ("Atomic writes: temp file + rename", docs/day11_prefetch.md).
SettledHasFile == Settled \subseteq files

\* A completed job has left no tile behind: each one it enqueued was downloaded,
\* skipped or given up, unless a runner was at work while another was about to be
\* started, as when the user resumes before the paused one has left: what it still
\* marks is nobody's then.
CompletedIsSettled ==
  ~meddled /\ status = "completed" =>
    \A t \in Tiles : tile[t] \notin {"queued", "in_progress"}

\* The progress shown never exceeds the tiles there are: for however often a tile
\* is fetched, reset and recovered, it is counted once, unless it was reset in the
\* hands of a runner that counts it too.
ProgressNotOverstated ==
  ~meddled => tilesDone + Cardinality(Counting) <= Cardinality(Settled)

\* A job the user has cancelled stays so, whatever its workers still do, unless it
\* was cancelled between two statements of a resumption or of the recovery, which
\* goes on and starts a runner.
CancelIsFinal == [][status = "cancelled" /\ ~crossed => status' = "cancelled"]_vars

\* However many downloads fail, the retries come to an end and every runner
\* leaves.
ComesToRest == <>[](Working = {})

\* A running job has a runner, whatever the user taps and whenever, or one is about
\* to be started, unless the last start found the paused or the finished runner
\* still in _activeJobs and did nothing.
RunningHasRunner ==
  status = "running" /\ starting = 0 /\ Quiet => Working /= {} \/ stranded
=============================================================================
