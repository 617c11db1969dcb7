------------------------- MODULE TilePrefetchProofs -------------------------
(***************************************************************************)
(* Theorems about the tile downloads of TilePrefetch, for every order of   *)
(* the user's taps, the service's steps and the process deaths.            *)
(*                                                                         *)
(* The types, the files and the bookkeeping of the service (JobOK, ServeOK)*)
(* hold always.  What is said of a cancelled job (CancelOK) holds until    *)
(* one is cancelled in the middle of a resumption or of the recovery; that *)
(* each tile in progress is in the hands of one worker (TileOK), until a   *)
(* runner works while another is about to be started.                      *)
(***************************************************************************)
EXTENDS TilePrefetch, FiniteSetTheorems, TLAPS

Statuses == {"none", "running", "paused", "completed", "cancelled"}
Labels == {"next", "mark", "empty", "requeue", "dry", "get", "saved", "failed", "count", "done"}

Runs == [phase : {"working", "ending", "gone"}, paused : BOOLEAN, cancelled : BOOLEAN,
         isDone : BOOLEAN, fetching : BOOLEAN, batch : SUBSET Tiles, queue : SUBSET Tiles]

\* Types of the variables.
TypeOK ==
  /\ status \in Statuses /\ tilesDone \in Nat
  /\ tile \in [Tiles -> {"none", "queued", "in_progress", "failed", "downloaded", "skipped"}]
  /\ attempts \in [Tiles -> Nat] /\ files \subseteq Tiles
  /\ starting \in Nat /\ resuming \in {"no", "reset", "start"}
  /\ recovery \in {"due", "reset", "status", "start", "done"}
  /\ owned \in BOOLEAN /\ shown \in Statuses /\ events \in Nat
  /\ crossed \in BOOLEAN /\ stranded \in BOOLEAN /\ meddled \in BOOLEAN
  /\ active \in Runner \union {0}
  /\ run \in [Runner -> Runs]
  /\ pc \in [Runner -> [Worker -> Labels]]
  /\ todo \in [Runner -> [Worker -> SUBSET Tiles]]

\* What is about to be marked as downloaded is on disk.
FilesOK ==
  /\ SettledHasFile
  /\ \A r \in Runner, w \in Worker : pc[r][w] = "saved" => todo[r][w] \subseteq files

\* The runner in _activeJobs works and was not cancelled, the job has a row before
\* anything is done for it, and a worker leaves only a runner that was told to stop.
JobOK ==
  /\ active /= 0 => active \in Working /\ ~run[active].cancelled
  /\ owned \/ resuming /= "no" => starting = 0 /\ status /= "none"
  /\ status = "none" => /\ Working = {} /\ starting = 0 /\ recovery \in {"due", "done"}
                        /\ \A t \in Tiles : tile[t] = "none"
  /\ \A r \in Runner, w \in Worker : run[r].phase /= "working" => pc[r][w] = "done"
  /\ \A r \in Runner, w \in Worker : run[r].phase = "working" /\ pc[r][w] = "done" => Halted(r)

\* Runner r works on, and nobody has told it to stop.
Serving(r) == run[r].phase = "working" /\ ~run[r].paused /\ ~run[r].cancelled

ServeOK ==
  status = "running" /\ starting = 0 /\ Quiet => stranded \/ \E r \in Runner : Serving(r)

\* At most one runner works, the one in _activeJobs unless the job was cancelled;
\* nothing is about to be started for a cancelled job.
Alone ==
  /\ \A r, q \in Working : r = q
  /\ \A r \in Working : active = r \/ status = "cancelled"
  /\ status = "cancelled" => /\ active = 0 /\ starting = 0 /\ ~owned /\ resuming = "no"
                             /\ recovery \in {"due", "done"}
                             /\ \A r \in Working : run[r].cancelled

CancelOK == ~crossed => Alone

Holding == {"get", "saved", "failed"}
Fetching == {"mark", "empty", "requeue", "dry"}
InProgress == {t \in Tiles : tile[t] = "in_progress"}
Failed == {t \in Tiles : tile[t] = "failed"}
Held(r) == {t \in Tiles : \E w \in Worker : pc[r][w] \in Holding /\ t \in todo[r][w]}

\* One worker at a time fetches, with an empty queue.
FetchOK(r) ==
  /\ \A w, v \in Worker : pc[r][w] \in Fetching /\ pc[r][v] \in Fetching => w = v
  /\ \A w \in Worker : pc[r][w] \in Fetching => run[r].fetching
  /\ run[r].fetching => run[r].queue = {} /\ ~run[r].isDone
  /\ ~run[r].fetching => run[r].batch = {}
  /\ \A w \in Worker : pc[r][w] \in {"empty", "requeue", "dry"} => run[r].batch = {}
  /\ \A w \in Worker : pc[r][w] \in {"empty", "dry"} => Queued = {}
  /\ run[r].isDone => Queued = {} /\ run[r].queue = {}

\* Every tile in progress is in the batch, in the queue or in the hands of one
\* worker.
HandOK(r) ==
  /\ InProgress \subseteq run[r].batch \union run[r].queue \union Held(r)
  /\ run[r].queue \subseteq InProgress
  /\ run[r].batch \subseteq Queued \union InProgress
  /\ (run[r].batch \union run[r].queue) \intersect Held(r) = {}
  /\ \A w \in Worker :
       /\ pc[r][w] = "mark" => todo[r][w] \subseteq run[r].batch /\ run[r].batch \ todo[r][w] \subseteq InProgress
       /\ pc[r][w] = "requeue" => todo[r][w] \subseteq Failed
       /\ pc[r][w] \in Holding => \E t \in InProgress : todo[r][w] = {t}
  /\ \A w, v \in Worker :
       pc[r][w] \in Holding /\ pc[r][v] \in Holding /\ w /= v => todo[r][w] \intersect todo[r][v] = {}

ProgressOK == tilesDone + Cardinality(Counting) <= Cardinality(Settled)

\* One runner works, on tiles that were enqueued or reset before it was started.
Tidy ==
  /\ ~Meddling
  /\ \A r, q \in Working : r = q
  /\ \A r \in Working : run[r].phase = "working" => status /= "completed"
  /\ starting /= 0 => \A t \in Tiles : tile[t] \in {"none", "queued"}
  /\ resuming = "start" \/ recovery \in {"status", "start"} => InProgress = {}
  /\ \A r \in Working : FetchOK(r) /\ HandOK(r)
  /\ status = "completed" => Queued = {} /\ InProgress = {}
  /\ ProgressOK

TileOK == ~meddled => Tidy

IInv == TypeOK /\ FilesOK /\ JobOK /\ ServeOK /\ CancelOK /\ TileOK

----------------------------------------------------------------------------
(* What the steps do to the runners. *)

\* Worker w of runner r is at label l with the tiles S, all others where they were.
Moved(r, w, l, S) ==
  /\ pc' \in [Runner -> [Worker -> Labels]] /\ todo' \in [Runner -> [Worker -> SUBSET Tiles]]
  /\ pc'[r][w] = l /\ todo'[r][w] = S
  /\ \A q \in Runner, v \in Worker :
       q /= r \/ v /= w => pc'[q][v] = pc[q][v] /\ todo'[q][v] = todo[q][v]

LEMMA GotoMoves ==
  ASSUME TypeOK, NEW r \in Runner, NEW w \in Worker, NEW l \in Labels, NEW S \in SUBSET Tiles,
         Goto(r, w, l, S)
  PROVE  Moved(r, w, l, S)
  BY DEF TypeOK, Goto, Moved

\* The state of runner r is s, that of the others what it was.
Becomes(r, s) ==
  /\ run' \in [Runner -> Runs] /\ run'[r] = s
  /\ \A q \in Runner \ {r} : run'[q] = run[q]

LEMMA ExceptBecomes ==
  ASSUME TypeOK, NEW r \in Runner, NEW s \in Runs, run' = [run EXCEPT ![r] = s]
  PROVE  Becomes(r, s)
  BY DEF TypeOK, Becomes

\* The two states a runner is in when nothing has been done yet, or any more.
LEMMA FreshRuns ==
  /\ Fresh \in Runs /\ Fresh.phase = "working" /\ ~Fresh.paused /\ ~Fresh.cancelled
  /\ ~Fresh.isDone /\ ~Fresh.fetching /\ Fresh.batch = {} /\ Fresh.queue = {}
  /\ Gone \in Runs /\ Gone.phase = "gone"
  BY DEF Fresh, Gone, Runs

\* Each step of a runner, with the fields of its new state.
LEMMA RunFields ==
  ASSUME NEW s \in Runs, NEW S \in SUBSET Tiles, NEW B \in SUBSET Tiles, NEW b \in BOOLEAN
  PROVE  /\ [s EXCEPT !.queue = S] \in Runs
         /\ [s EXCEPT !.fetching = b, !.batch = B] \in Runs
         /\ [s EXCEPT !.queue = S, !.batch = B, !.fetching = b] \in Runs
         /\ [s EXCEPT !.fetching = b] \in Runs
         /\ [s EXCEPT !.isDone = TRUE, !.fetching = b] \in Runs
         /\ [s EXCEPT !.paused = TRUE] \in Runs
         /\ [s EXCEPT !.cancelled = TRUE] \in Runs
         /\ [s EXCEPT !.phase = "ending"] \in Runs
  BY DEF Runs

----------------------------------------------------------------------------
(* Types. *)

LEMMA InitType == Init => TypeOK
<1> SUFFICES ASSUME Init PROVE TypeOK
  OBVIOUS
<1>1. run \in [Runner -> Runs]
  BY FreshRuns DEF Init
<1> QED BY <1>1 DEF Init, TypeOK, Statuses, Labels

LEMMA StartType ==
  ASSUME TypeOK, StartProcessing
  PROVE  /\ active' \in Runner \union {0} /\ run' \in [Runner -> Runs]
         /\ pc' \in [Runner -> [Worker -> Labels]] /\ todo' \in [Runner -> [Worker -> SUBSET Tiles]]
<1>1. CASE active /= 0 /\ UNCHANGED runVars
  BY <1>1 DEF TypeOK, runVars
<1>2. CASE ~(active /= 0 /\ UNCHANGED runVars)
  <2>1. PICK r \in Runner : /\ active' = r /\ run' = [run EXCEPT ![r] = Fresh] /\ UNCHANGED todo
                            /\ pc' = [pc EXCEPT ![r] = [w \in Worker |-> "next"]]
    BY <1>2 DEF StartProcessing
  <2>2. run' \in [Runner -> Runs]
    BY <2>1, FreshRuns, ExceptBecomes DEF Becomes
  <2>3. [w \in Worker |-> "next"] \in [Worker -> Labels]
    BY DEF Labels
  <2>4. pc' \in [Runner -> [Worker -> Labels]]
    BY <2>1, <2>3 DEF TypeOK
  <2> QED BY <2>1, <2>2, <2>4 DEF TypeOK
<1> QED BY <1>1, <1>2

\* The rows of tiles a step writes.
TileRows == [Tiles -> {"none", "queued", "in_progress", "failed", "downloaded", "skipped"}]

LEMMA MarkType ==
  ASSUME TypeOK, NEW t \in Tiles, MarkInProgress(t)
  PROVE  /\ tile' \in TileRows /\ attempts' \in [Tiles -> Nat]
         /\ tile'[t] = "in_progress" /\ \A u \in Tiles \ {t} : tile'[u] = tile[u]
<1>1. tile' \in TileRows /\ tile'[t] = "in_progress" /\ \A u \in Tiles \ {t} : tile'[u] = tile[u]
  BY DEF MarkInProgress, TypeOK, TileRows
<1>2. attempts' \in [Tiles -> Nat]
  BY DEF MarkInProgress, Counted, TypeOK
<1> QED BY <1>1, <1>2

\* What the steps of a worker on its runner's queue do.
LEMMA TakeEffect ==
  ASSUME TypeOK, NEW r \in Runner, NEW w \in Worker, NEW t \in run[r].queue, Take(r, w, t)
  PROVE  /\ t \in Tiles /\ Becomes(r, [run[r] EXCEPT !.queue = @ \ {t}])
         /\ \/ t \in files /\ tile' = [tile EXCEPT ![t] = "skipped"] /\ Moved(r, w, "count", {t})
               /\ UNCHANGED attempts
            \/ t \notin files /\ MarkInProgress(t) /\ Moved(r, w, "get", {t})
<1>1. run[r] \in Runs
  BY DEF TypeOK
<1>2. t \in Tiles /\ {t} \in SUBSET Tiles /\ run[r].queue \ {t} \in SUBSET Tiles
  BY <1>1 DEF Runs
<1>3. [run[r] EXCEPT !.queue = @ \ {t}] \in Runs
  BY <1>1, <1>2 DEF Runs
<1>4. run' = [run EXCEPT ![r] = [run[r] EXCEPT !.queue = @ \ {t}]]
  BY DEF Take
<1>5. Becomes(r, [run[r] EXCEPT !.queue = @ \ {t}])
  BY <1>3, <1>4, ExceptBecomes
<1>6. Goto(r, w, "count", {t}) => Moved(r, w, "count", {t})
  BY <1>2, GotoMoves DEF Labels
<1>7. Goto(r, w, "get", {t}) => Moved(r, w, "get", {t})
  BY <1>2, GotoMoves DEF Labels
<1> QED BY <1>2, <1>5, <1>6, <1>7 DEF Take

LEMMA FetchEffect ==
  ASSUME TypeOK, NEW r \in Runner, NEW w \in Worker, Fetch(r, w)
  PROVE  \E B \in SUBSET Queued :
           /\ B = {} => Queued = {}
           /\ Becomes(r, [run[r] EXCEPT !.fetching = TRUE, !.batch = B])
           /\ Moved(r, w, IF B = {} THEN "empty" ELSE "mark", B)
<1>1. PICK B \in SUBSET Queued :
        /\ IsNextBatch(B)
        /\ run' = [run EXCEPT ![r].fetching = TRUE, ![r].batch = B]
        /\ Goto(r, w, IF B = {} THEN "empty" ELSE "mark", B)
  BY DEF Fetch
<1>2. B \in SUBSET Tiles /\ run[r] \in Runs
  BY DEF Queued, TypeOK
<1>3. [run[r] EXCEPT !.fetching = TRUE, !.batch = B] \in Runs
  BY <1>2 DEF Runs
<1>4. run' = [run EXCEPT ![r] = [run[r] EXCEPT !.fetching = TRUE, !.batch = B]]
  BY <1>1 DEF TypeOK
<1>5. Becomes(r, [run[r] EXCEPT !.fetching = TRUE, !.batch = B])
  BY <1>3, <1>4, ExceptBecomes
<1>6. Moved(r, w, IF B = {} THEN "empty" ELSE "mark", B)
  BY <1>1, <1>2, GotoMoves DEF Labels
<1>7. B = {} => Queued = {}
  BY <1>1, PrefetchAssumption, FS_EmptySet DEF IsNextBatch
<1> QED BY <1>5, <1>6, <1>7

LEMMA AddBatchEffect ==
  ASSUME TypeOK, NEW r \in Runner, NEW w \in Worker, AddBatch(r, w)
  PROVE  /\ Becomes(r, [run[r] EXCEPT !.queue = @ \union run[r].batch, !.batch = {}, !.fetching = FALSE])
         /\ Moved(r, w, "next", {})
<1>1. run[r] \in Runs
  BY DEF TypeOK
<1>2. [run[r] EXCEPT !.queue = @ \union run[r].batch, !.batch = {}, !.fetching = FALSE] \in Runs
  BY <1>1 DEF Runs
<1>3. run' = [run EXCEPT ![r] = [run[r] EXCEPT !.queue = @ \union run[r].batch, !.batch = {}, !.fetching = FALSE]]
  BY DEF AddBatch, TypeOK
<1>4. Moved(r, w, "next", {})
  BY GotoMoves DEF AddBatch, Labels
<1> QED BY <1>2, <1>3, <1>4, ExceptBecomes

LEMMA RequeuedEffect ==
  ASSUME TypeOK, NEW r \in Runner, NEW w \in Worker, Requeued(r, w)
  PROVE  Becomes(r, [run[r] EXCEPT !.fetching = FALSE]) /\ Moved(r, w, "next", {})
<1>1. run[r] \in Runs
  BY DEF TypeOK
<1>2. [run[r] EXCEPT !.fetching = FALSE] \in Runs
  BY <1>1 DEF Runs
<1>3. run' = [run EXCEPT ![r] = [run[r] EXCEPT !.fetching = FALSE]]
  BY DEF Requeued, TypeOK
<1>4. Moved(r, w, "next", {})
  BY GotoMoves DEF Requeued, Labels
<1> QED BY <1>2, <1>3, <1>4, ExceptBecomes

LEMMA DryEffect ==
  ASSUME TypeOK, NEW r \in Runner, NEW w \in Worker, Dry(r, w)
  PROVE  /\ Becomes(r, [run[r] EXCEPT !.isDone = TRUE, !.fetching = FALSE])
         /\ Moved(r, w, "next", {})
<1>1. run[r] \in Runs
  BY DEF TypeOK
<1>2. [run[r] EXCEPT !.isDone = TRUE, !.fetching = FALSE] \in Runs
  BY <1>1 DEF Runs
<1>3. run' = [run EXCEPT ![r] = [run[r] EXCEPT !.isDone = TRUE, !.fetching = FALSE]]
  BY DEF Dry, TypeOK
<1>4. Moved(r, w, "next", {})
  BY GotoMoves DEF Dry, Labels
<1> QED BY <1>2, <1>3, <1>4, ExceptBecomes

LEMMA SelectEffect ==
  ASSUME TypeOK, NEW r \in Runner, NEW w \in Worker, SelectFailed(r, w)
  PROVE  Moved(r, w, IF Retryable = {} THEN "dry" ELSE "requeue", Retryable)
<1>1. Retryable \in SUBSET Tiles
  BY DEF Retryable
<1> QED BY <1>1, GotoMoves DEF SelectFailed, Labels

LEMMA StopEffect ==
  ASSUME TypeOK, NEW r \in Runner, NEW w \in Worker, Stop(r, w)
  PROVE  Moved(r, w, "done", {})
  BY GotoMoves DEF Stop, Labels

\* The steps of a worker on a tile.
LEMMA TileEffect ==
  ASSUME TypeOK, NEW r \in Runner, NEW w \in Worker, NEW t \in todo[r][w]
  PROVE  /\ t \in Tiles
         /\ MarkTile(r, w, t) => Moved(r, w, "mark", todo[r][w] \ {t})
         /\ RequeueTile(r, w, t) => Moved(r, w, "requeue", todo[r][w] \ {t})
         /\ Download(r, w, t) => Moved(r, w, "saved", {t})
         /\ Fail(r, w, t) => Moved(r, w, "failed", {t})
         /\ MarkDownloaded(r, w, t) => Moved(r, w, "count", {t})
         /\ IncrementJobProgress(r, w, t) \/ MarkFailed(r, w, t) => Moved(r, w, "next", {})
<1>1. t \in Tiles /\ {t} \in SUBSET Tiles /\ todo[r][w] \ {t} \in SUBSET Tiles /\ {} \in SUBSET Tiles
  BY DEF TypeOK
<1> USE DEF Labels
<1>2. MarkTile(r, w, t) => Moved(r, w, "mark", todo[r][w] \ {t})
  BY <1>1, GotoMoves DEF MarkTile
<1>3. RequeueTile(r, w, t) => Moved(r, w, "requeue", todo[r][w] \ {t})
  BY <1>1, GotoMoves DEF RequeueTile
<1>4. Download(r, w, t) => Moved(r, w, "saved", {t})
  BY <1>1, GotoMoves DEF Download
<1>5. Fail(r, w, t) => Moved(r, w, "failed", {t})
  BY <1>1, GotoMoves DEF Fail
<1>6. MarkDownloaded(r, w, t) => Moved(r, w, "count", {t})
  BY <1>1, GotoMoves DEF MarkDownloaded
<1>7. IncrementJobProgress(r, w, t) \/ MarkFailed(r, w, t) => Moved(r, w, "next", {})
  BY <1>1, GotoMoves DEF IncrementJobProgress, MarkFailed
<1> QED BY <1>1, <1>2, <1>3, <1>4, <1>5, <1>6, <1>7

\* The step of a worker, seen from the rest of the service: it moves this worker, who
\* was not done, and takes no flag of its runner back.
Steady(r, w) ==
  /\ UNCHANGED <<status, uiVars, active, events, history>>
  /\ \E l \in Labels, S \in SUBSET Tiles : Moved(r, w, l, S)
  /\ run' \in [Runner -> Runs]
  /\ \A q \in Runner : /\ run'[q].phase = run[q].phase /\ run'[q].paused = run[q].paused
                       /\ run'[q].cancelled = run[q].cancelled
                       /\ run[q].isDone => run'[q].isDone
                       /\ q /= r => run'[q] = run[q]
  /\ pc[r][w] /= "done"
  /\ pc'[r][w] = "done" => Halted(r)

LEMMA WorkIsSteady ==
  ASSUME TypeOK, NEW r \in Runner, NEW w \in Worker, Work(r, w)
  PROVE  Steady(r, w)
<1>0. /\ run[r] \in Runs /\ todo[r][w] \in SUBSET Tiles /\ {} \in SUBSET Tiles /\ run \in [Runner -> Runs]
      /\ \A t \in todo[r][w] : {t} \in SUBSET Tiles /\ todo[r][w] \ {t} \in SUBSET Tiles
  BY DEF TypeOK
<1> USE DEF Labels, Steady
<1>1. CASE Stop(r, w)
  <2>1. Moved(r, w, "done", {})
    BY <1>1, StopEffect
  <2>2. \E l \in Labels, S \in SUBSET Tiles : Moved(r, w, l, S)
    BY <1>0, <2>1
  <2>3. UNCHANGED <<status, uiVars, active, run, events, history>> /\ pc[r][w] = "next" /\ Halted(r)
    BY <1>1 DEF Stop, dbVars
  <2> QED BY <1>0, <2>2, <2>3
<1>2. ASSUME NEW t \in run[r].queue, Take(r, w, t) PROVE Steady(r, w)
  <2>1. {t} \in SUBSET Tiles /\ Becomes(r, [run[r] EXCEPT !.queue = @ \ {t}])
    BY <1>2, TakeEffect
  <2>2. Moved(r, w, "count", {t}) \/ Moved(r, w, "get", {t})
    BY <1>2, TakeEffect
  <2>3. \E l \in Labels, S \in SUBSET Tiles : Moved(r, w, l, S)
    BY <2>1, <2>2
  <2>4. pc'[r][w] /= "done"
    BY <2>2 DEF Moved
  <2> QED BY <1>0, <1>2, <2>1, <2>3, <2>4 DEF Take, Becomes, Runs
<1>3. CASE Fetch(r, w)
  <2>1. PICK B \in SUBSET Queued : /\ Becomes(r, [run[r] EXCEPT !.fetching = TRUE, !.batch = B])
                                   /\ Moved(r, w, IF B = {} THEN "empty" ELSE "mark", B)
    BY <1>3, FetchEffect
  <2>2. B \in SUBSET Tiles
    BY DEF Queued
  <2>3. \E l \in Labels, S \in SUBSET Tiles : Moved(r, w, l, S)
    BY <2>1, <2>2
  <2>4. pc'[r][w] /= "done"
    BY <2>1 DEF Moved
  <2> QED BY <1>0, <1>3, <2>1, <2>3, <2>4 DEF Fetch, Becomes, Runs, dbVars
<1>4. CASE AddBatch(r, w)
  <2>1. /\ Becomes(r, [run[r] EXCEPT !.queue = @ \union run[r].batch, !.batch = {}, !.fetching = FALSE])
        /\ Moved(r, w, "next", {})
    BY <1>4, AddBatchEffect
  <2> QED BY <1>0, <1>4, <2>1, ZenonT(40) DEF AddBatch, Becomes, Runs, dbVars, Moved
<1>5. CASE SelectFailed(r, w)
  <2>1. Retryable \in SUBSET Tiles
    BY DEF Retryable
  <2>2. Moved(r, w, IF Retryable = {} THEN "dry" ELSE "requeue", Retryable)
    BY <1>5, SelectEffect
  <2>3. \E l \in Labels, S \in SUBSET Tiles : Moved(r, w, l, S)
    BY <2>1, <2>2
  <2>4. pc'[r][w] /= "done"
    BY <2>2 DEF Moved
  <2> QED BY <1>0, <1>5, <2>3, <2>4 DEF SelectFailed, dbVars
<1>6. CASE Requeued(r, w)
  <2>1. Becomes(r, [run[r] EXCEPT !.fetching = FALSE]) /\ Moved(r, w, "next", {})
    BY <1>6, RequeuedEffect
  <2> QED BY <1>0, <1>6, <2>1 DEF Requeued, Becomes, Runs, dbVars, Moved
<1>7. CASE Dry(r, w)
  <2>1. Becomes(r, [run[r] EXCEPT !.isDone = TRUE, !.fetching = FALSE]) /\ Moved(r, w, "next", {})
    BY <1>7, DryEffect
  <2> QED BY <1>0, <1>7, <2>1 DEF Dry, Becomes, Runs, dbVars, Moved
<1>8. ASSUME NEW t \in todo[r][w],
             MarkTile(r, w, t) \/ RequeueTile(r, w, t) \/ Process(r, w, t)
      PROVE  Steady(r, w)
  <2>1. \E l \in Labels \ {"done"}, S \in SUBSET Tiles : Moved(r, w, l, S)
    BY <1>0, <1>8, TileEffect DEF Process
  <2>2. UNCHANGED <<status, uiVars, active, run, events, history>> /\ pc[r][w] /= "done"
    BY <1>8 DEF MarkTile, RequeueTile, Process, Download, Fail, MarkDownloaded,
                IncrementJobProgress, MarkFailed, dbVars
  <2>3. pc'[r][w] /= "done"
    BY <2>1 DEF Moved
  <2> QED BY <1>0, <2>1, <2>2, <2>3
<1> QED BY <1>1, <1>2, <1>3, <1>4, <1>5, <1>6, <1>7, <1>8 DEF Work

\* What it does to the tables.
LEMMA WorkRows ==
  ASSUME TypeOK, NEW r \in Runner, NEW w \in Worker, Work(r, w)
  PROVE  /\ tile' \in TileRows /\ attempts' \in [Tiles -> Nat] /\ files' \subseteq Tiles
         /\ tilesDone' \in Nat
<1>0. tile \in TileRows /\ attempts \in [Tiles -> Nat] /\ files \subseteq Tiles /\ tilesDone \in Nat
  BY DEF TypeOK, TileRows
<1>1. ASSUME NEW t \in run[r].queue, Take(r, w, t)
      PROVE  tile' \in TileRows /\ attempts' \in [Tiles -> Nat] /\ UNCHANGED <<files, tilesDone>>
  <2>1. t \in Tiles /\ ((tile' = [tile EXCEPT ![t] = "skipped"] /\ UNCHANGED attempts) \/ MarkInProgress(t))
    BY <1>1, TakeEffect
  <2>2. tile' \in TileRows /\ attempts' \in [Tiles -> Nat]
    BY <1>0, <2>1, MarkType DEF TileRows
  <2> QED BY <1>1, <2>2 DEF Take
<1>2. CASE Stop(r, w) \/ Fetch(r, w) \/ AddBatch(r, w) \/ SelectFailed(r, w) \/ Requeued(r, w) \/ Dry(r, w)
  BY <1>0, <1>2 DEF Stop, Fetch, AddBatch, SelectFailed, Requeued, Dry, dbVars
<1>3. ASSUME NEW t \in todo[r][w], MarkTile(r, w, t)
      PROVE  tile' \in TileRows /\ attempts' \in [Tiles -> Nat] /\ UNCHANGED <<files, tilesDone>>
  BY <1>3, TileEffect, MarkType DEF MarkTile
<1>4. ASSUME NEW t \in todo[r][w], RequeueTile(r, w, t) \/ MarkDownloaded(r, w, t) \/ MarkFailed(r, w, t)
      PROVE  tile' \in TileRows /\ UNCHANGED <<attempts, files, tilesDone>>
  BY <1>0, <1>4, TileEffect DEF RequeueTile, MarkDownloaded, MarkFailed, TileRows
<1>5. ASSUME NEW t \in todo[r][w], Download(r, w, t) \/ Fail(r, w, t) \/ IncrementJobProgress(r, w, t)
      PROVE  UNCHANGED <<tile, attempts>> /\ files' \subseteq Tiles /\ tilesDone' \in Nat
  <2>1. t \in Tiles
    BY TileEffect
  <2>2. UNCHANGED <<tile, attempts>>
    BY <1>5 DEF Download, Fail, IncrementJobProgress, dbVars
  <2>3. files' \in {files, files \union {t}} /\ tilesDone' \in {tilesDone, tilesDone + 1}
    BY <1>5 DEF Download, Fail, IncrementJobProgress, dbVars
  <2> QED BY <1>0, <2>1, <2>2, <2>3
<1> QED BY <1>0, <1>1, <1>2, <1>3, <1>4, <1>5 DEF Work, Process

LEMMA WorkType ==
  ASSUME TypeOK, NEW r \in Runner, NEW w \in Worker, Work(r, w)
  PROVE  TypeOK'
<1>1. Steady(r, w)
  BY WorkIsSteady
<1>2. pc' \in [Runner -> [Worker -> Labels]] /\ todo' \in [Runner -> [Worker -> SUBSET Tiles]]
  BY <1>1 DEF Steady, Moved
<1> QED BY <1>1, <1>2, WorkRows DEF Steady, TypeOK, TileRows, uiVars, history

LEMMA NextType == TypeOK /\ [Next]_vars => TypeOK'
<1> SUFFICES ASSUME TypeOK, [Next]_vars PROVE TypeOK'
  OBVIOUS
<1> USE DEF Statuses
<1>1. CASE CreateJob \/ EnqueueTiles \/ Show \/ Resume \/ RecoverSelect \/ RecoverStatus \/ UNCHANGED vars
  BY <1>1, PrefetchAssumption
  DEF CreateJob, EnqueueTiles, Show, Resume, Tap, RecoverSelect, RecoverStatus, TypeOK, vars, dbVars, uiVars, runVars, history
<1>2. CASE ResumeReset \/ RecoverReset
  <2>1. meddled' \in BOOLEAN
    BY <1>2, Zenon DEF ResumeReset, RecoverReset, Noted
  <2>2. /\ UNCHANGED <<status, tilesDone, attempts, files, starting, owned, shown, runVars, events, crossed, stranded>>
        /\ resuming' \in {"no", "reset", "start"} /\ recovery' \in {"due", "reset", "status", "start", "done"}
        /\ ResetInProgress
    BY <1>2 DEF ResumeReset, RecoverReset, TypeOK
  <2> QED BY <2>1, <2>2 DEF ResetInProgress, TypeOK, runVars
<1>3. CASE JobStarted \/ ResumeStart \/ RecoverStart
  <2>1. StartProcessing /\ UNCHANGED dbVars /\ owned' \in {owned, TRUE}
    BY <1>3 DEF JobStarted, ResumeStart, RecoverStart
  <2>2. /\ starting' \in Nat /\ resuming' \in {"no", "reset", "start"} /\ UNCHANGED <<shown, events, crossed>>
        /\ recovery' \in {"due", "reset", "status", "start", "done"}
    BY <1>3 DEF JobStarted, ResumeStart, RecoverStart, TypeOK
  <2>3. meddled' \in BOOLEAN
    BY <1>3, Zenon DEF JobStarted, ResumeStart, RecoverStart, Noted
  <2>4. stranded' \in BOOLEAN
    BY <2>1, Zenon DEF StartProcessing
  <2> QED BY <2>1, <2>2, <2>3, <2>4, StartType DEF TypeOK, dbVars
<1>4. CASE Pause \/ Cancel
  <2>1. run' \in [Runner -> Runs]
    <3>1. CASE active = 0
      BY <1>4, <3>1 DEF Pause, Cancel, TypeOK
    <3>2. CASE active /= 0
      <4>1. active \in Runner /\ run[active] \in Runs
        BY <3>2 DEF TypeOK
      <4>2. \/ run' = [run EXCEPT ![active] = [run[active] EXCEPT !.paused = TRUE]]
            \/ run' = [run EXCEPT ![active] = [run[active] EXCEPT !.cancelled = TRUE]]
        BY <1>4, <3>2 DEF Pause, Cancel
      <4>3. /\ [run[active] EXCEPT !.paused = TRUE] \in Runs
            /\ [run[active] EXCEPT !.cancelled = TRUE] \in Runs
        BY <4>1, RunFields, Zenon
      <4> QED BY <4>1, <4>2, <4>3, ExceptBecomes, Zenon DEF Becomes
    <3> QED BY <3>1, <3>2
  <2>2. /\ UNCHANGED <<tilesDone, tile, attempts, files, starting, resuming, recovery, shown, pc, todo, stranded, meddled>>
        /\ events' \in Nat /\ owned' \in BOOLEAN /\ active' \in Runner \union {0} /\ status' \in Statuses
    <3>1. /\ UNCHANGED <<tilesDone, tile, attempts, files, starting, resuming, recovery, shown, pc, todo, stranded, meddled>>
          /\ events' = events + 1 /\ owned' \in {owned, FALSE} /\ active' \in {active, 0}
          /\ status' \in {"paused", "cancelled"}
      BY <1>4 DEF Pause, Cancel, Tap, history
    <3>2. owned' \in BOOLEAN
      BY <3>1 DEF TypeOK
    <3>3. active' \in Runner \union {0} /\ status' \in Statuses /\ events' \in Nat
      BY <3>1 DEF TypeOK
    <3> QED BY <3>1, <3>2, <3>3
  <2>3. crossed' \in BOOLEAN
    BY <1>4, Zenon DEF Pause, Cancel, history, TypeOK
  <2> QED BY <2>1, <2>2, <2>3 DEF TypeOK
<1>5. ASSUME NEW r \in Runner, Finish(r) \/ OnComplete(r) PROVE TypeOK'
  <2>1. run[r] \in Runs
    BY DEF TypeOK
  <2>2. run' = [run EXCEPT ![r] = Gone] \/ run' = [run EXCEPT ![r] = [run[r] EXCEPT !.phase = "ending"]]
    BY <1>5, Zenon DEF Finish, OnComplete
  <2>3. [run[r] EXCEPT !.phase = "ending"] \in Runs /\ Gone \in Runs
    BY <2>1, RunFields, FreshRuns, Zenon
  <2>4. run' \in [Runner -> Runs]
    BY <2>2, <2>3, ExceptBecomes DEF Becomes
  <2>5. /\ status' \in Statuses /\ active' \in Runner \union {0}
        /\ UNCHANGED <<tilesDone, tile, attempts, files, uiVars, pc, todo, events, history>>
    BY <1>5 DEF Finish, OnComplete, dbVars, TypeOK
  <2> QED BY <2>4, <2>5 DEF TypeOK, uiVars, history
<1>6. CASE Crash
  <2>1. run' \in [Runner -> Runs]
    BY <1>6, FreshRuns DEF Crash
  <2>2. pc' \in [Runner -> [Worker -> Labels]]
    BY <1>6 DEF Crash, Labels
  <2>3. todo' \in [Runner -> [Worker -> SUBSET Tiles]]
    BY <1>6 DEF Crash
  <2>4. /\ UNCHANGED <<status, tilesDone, tile, attempts, files, crossed, stranded, meddled>> /\ events' = events + 1
        /\ starting' = 0 /\ resuming' = "no" /\ recovery' = "due" /\ owned' = FALSE
        /\ shown' = "none" /\ active' = 0
    BY <1>6 DEF Crash, dbVars, history
  <2>5. owned' \in BOOLEAN
    BY <2>4
  <2>6. events' \in Nat
    BY <2>4 DEF TypeOK
  <2> QED BY <2>1, <2>2, <2>3, <2>4, <2>5, <2>6 DEF TypeOK
<1>7. ASSUME NEW r \in Runner, NEW w \in Worker, Work(r, w) PROVE TypeOK'
  BY <1>7, WorkType
<1> QED BY <1>1, <1>2, <1>3, <1>4, <1>5, <1>6, <1>7 DEF Next, Service, User

----------------------------------------------------------------------------
(* Files and tables. *)

LEMMA WorkFiles ==
  ASSUME TypeOK, FilesOK, NEW r \in Runner, NEW w \in Worker, Work(r, w)
  PROVE  FilesOK'
<1> DEFINE OthersOK == \A q \in Runner, v \in Worker :
                         (q /= r \/ v /= w) /\ pc'[q][v] = "saved" => todo'[q][v] \subseteq files'
           ThisOK == pc'[r][w] = "saved" => todo'[r][w] \subseteq files'
<1>0. tile \in TileRows /\ tile' \in TileRows
  BY WorkRows DEF TypeOK, TileRows
<1>1. ASSUME files \subseteq files' PROVE OthersOK
  <2>1. PICK l \in Labels, S \in SUBSET Tiles : Moved(r, w, l, S)
    BY WorkIsSteady DEF Steady
  <2> QED BY <1>1, <2>1 DEF FilesOK, Moved
<1>2. ASSUME OthersOK, ThisOK, SettledHasFile' PROVE FilesOK'
  BY <1>2 DEF FilesOK
<1>3. ASSUME UNCHANGED <<tile, files>>, \E l \in Labels \ {"saved"}, S \in SUBSET Tiles : Moved(r, w, l, S)
      PROVE  FilesOK'
  <2>1. SettledHasFile'
    BY <1>3 DEF SettledHasFile, Settled, FilesOK
  <2>2. ThisOK
    BY <1>3 DEF Moved
  <2> QED BY <1>1, <1>2, <1>3, <2>1, <2>2
<1>4. ASSUME NEW t \in Tiles, UNCHANGED files, tile' = [tile EXCEPT ![t] = tile'[t]],
             tile'[t] \in {"downloaded", "skipped"} => t \in files,
             \E l \in Labels \ {"saved"}, S \in SUBSET Tiles : Moved(r, w, l, S)
      PROVE  FilesOK'
  <2>1. SettledHasFile'
    BY <1>0, <1>4 DEF SettledHasFile, Settled, FilesOK, TileRows
  <2>2. ThisOK
    BY <1>4 DEF Moved
  <2> QED BY <1>1, <1>2, <1>4, <2>1, <2>2
<1> HIDE DEF OthersOK, ThisOK
<1>5. todo[r][w] \in SUBSET Tiles /\ {} \in SUBSET Tiles /\ (\A t \in Tiles : {t} \in SUBSET Tiles)
  BY DEF TypeOK
<1> USE DEF Labels
<1>6. CASE Stop(r, w)
  BY <1>3, <1>5, <1>6, StopEffect DEF Stop, dbVars
<1>7. ASSUME NEW t \in run[r].queue, Take(r, w, t) PROVE FilesOK'
  <2>1. t \in Tiles
    BY <1>7, TakeEffect
  <2>2. CASE t \in files /\ tile' = [tile EXCEPT ![t] = "skipped"] /\ Moved(r, w, "count", {t})
    <3>1. tile' = [tile EXCEPT ![t] = tile'[t]]
      BY <1>0, <2>1, <2>2 DEF TileRows
    <3> QED BY <1>4, <1>5, <1>7, <2>1, <2>2, <3>1 DEF Take
  <2>3. CASE MarkInProgress(t) /\ Moved(r, w, "get", {t})
    <3>1. tile' = [tile EXCEPT ![t] = tile'[t]] /\ tile'[t] = "in_progress"
      BY <1>0, <2>1, <2>3 DEF TileRows, MarkInProgress
    <3> QED BY <1>4, <1>5, <1>7, <2>1, <2>3, <3>1 DEF Take
  <2> QED BY <1>7, <2>2, <2>3, TakeEffect
<1>8. CASE Fetch(r, w)
  <2>1. PICK B \in SUBSET Queued : Moved(r, w, IF B = {} THEN "empty" ELSE "mark", B)
    BY <1>8, FetchEffect
  <2>2. B \in SUBSET Tiles
    BY DEF Queued
  <2> QED BY <1>3, <1>8, <2>1, <2>2 DEF Fetch, dbVars
<1>9. CASE AddBatch(r, w)
  BY <1>3, <1>5, <1>9, AddBatchEffect DEF AddBatch, dbVars
<1>10. CASE SelectFailed(r, w)
  <2>1. Retryable \in SUBSET Tiles
    BY DEF Retryable
  <2> QED BY <1>3, <1>10, <2>1, SelectEffect DEF SelectFailed, dbVars
<1>11. CASE Requeued(r, w)
  BY <1>3, <1>5, <1>11, RequeuedEffect DEF Requeued, dbVars
<1>12. CASE Dry(r, w)
  BY <1>3, <1>5, <1>12, DryEffect DEF Dry, dbVars
<1>13. ASSUME NEW t \in todo[r][w], MarkTile(r, w, t) PROVE FilesOK'
  <2>1. t \in Tiles /\ Moved(r, w, "mark", todo[r][w] \ {t}) /\ UNCHANGED files
    BY <1>13, TileEffect DEF MarkTile
  <2>2. tile' = [tile EXCEPT ![t] = tile'[t]] /\ tile'[t] = "in_progress"
    BY <1>0, <1>13, <2>1 DEF TileRows, MarkTile, MarkInProgress
  <2>3. todo[r][w] \ {t} \in SUBSET Tiles
    BY <1>5
  <2> QED BY <1>4, <2>1, <2>2, <2>3
<1>14. ASSUME NEW t \in todo[r][w], RequeueTile(r, w, t) PROVE FilesOK'
  <2>1. t \in Tiles /\ Moved(r, w, "requeue", todo[r][w] \ {t}) /\ UNCHANGED files
    BY <1>14, TileEffect DEF RequeueTile
  <2>2. tile' = [tile EXCEPT ![t] = tile'[t]] /\ tile'[t] = "queued"
    BY <1>0, <1>14, <2>1 DEF TileRows, RequeueTile
  <2>3. todo[r][w] \ {t} \in SUBSET Tiles
    BY <1>5
  <2> QED BY <1>4, <2>1, <2>2, <2>3
<1>15. ASSUME NEW t \in todo[r][w], Download(r, w, t) PROVE FilesOK'
  <2>1. Moved(r, w, "saved", {t}) /\ files' = files \union {t} /\ tile' = tile
    BY <1>15, TileEffect DEF Download
  <2>2. SettledHasFile'
    BY <2>1 DEF SettledHasFile, Settled, FilesOK
  <2>3. ThisOK
    BY <2>1 DEF Moved, ThisOK
  <2> QED BY <1>1, <1>2, <2>1, <2>2, <2>3
<1>16. ASSUME NEW t \in todo[r][w], Fail(r, w, t) PROVE FilesOK'
  BY <1>3, <1>5, <1>16, TileEffect DEF Fail, dbVars
<1>17. ASSUME NEW t \in todo[r][w], MarkDownloaded(r, w, t) PROVE FilesOK'
  <2>1. t \in Tiles /\ Moved(r, w, "count", {t}) /\ UNCHANGED files /\ t \in files
    BY <1>17, TileEffect DEF MarkDownloaded, FilesOK
  <2>2. tile' = [tile EXCEPT ![t] = tile'[t]]
    BY <1>0, <1>17, <2>1 DEF TileRows, MarkDownloaded
  <2> QED BY <1>4, <1>5, <2>1, <2>2
<1>18. ASSUME NEW t \in todo[r][w], IncrementJobProgress(r, w, t) PROVE FilesOK'
  BY <1>3, <1>5, <1>18, TileEffect DEF IncrementJobProgress
<1>19. ASSUME NEW t \in todo[r][w], MarkFailed(r, w, t) PROVE FilesOK'
  <2>1. t \in Tiles /\ Moved(r, w, "next", {}) /\ UNCHANGED files
    BY <1>19, TileEffect DEF MarkFailed
  <2>2. tile' = [tile EXCEPT ![t] = tile'[t]] /\ tile'[t] = "failed"
    BY <1>0, <1>19, <2>1 DEF TileRows, MarkFailed
  <2> QED BY <1>4, <1>5, <2>1, <2>2
<1> QED BY <1>6, <1>7, <1>8, <1>9, <1>10, <1>11, <1>12, <1>13, <1>14, <1>15, <1>16, <1>17,
           <1>18, <1>19 DEF Work, Process

LEMMA NextFiles == TypeOK /\ FilesOK /\ [Next]_vars => FilesOK'
<1> SUFFICES ASSUME TypeOK, FilesOK, [Next]_vars PROVE FilesOK'
  OBVIOUS
<1> USE DEF FilesOK, SettledHasFile, Settled
<1>1. CASE CreateJob \/ Show \/ Pause \/ Resume \/ Cancel \/ RecoverSelect \/ RecoverStatus \/ UNCHANGED vars
  BY <1>1 DEF CreateJob, Show, Resume, Pause, Cancel, RecoverSelect, RecoverStatus, vars, dbVars, runVars
<1>2. CASE EnqueueTiles \/ ResumeReset \/ RecoverReset
  BY <1>2 DEF EnqueueTiles, ResumeReset, RecoverReset, ResetInProgress, runVars
<1>3. CASE JobStarted \/ ResumeStart \/ RecoverStart
  <2>1. StartProcessing /\ UNCHANGED <<tile, files>>
    BY <1>3 DEF JobStarted, ResumeStart, RecoverStart, dbVars
  <2>2. CASE UNCHANGED runVars
    BY <2>1, <2>2 DEF runVars
  <2>3. CASE ~UNCHANGED runVars
    <3>1. PICK r \in Runner : pc' = [pc EXCEPT ![r] = [w \in Worker |-> "next"]] /\ UNCHANGED todo
      BY <2>1, <2>3 DEF StartProcessing
    <3>2. \A q \in Runner, v \in Worker : pc'[q][v] = "saved" => pc[q][v] = "saved"
      BY <3>1 DEF TypeOK
    <3> QED BY <2>1, <3>1, <3>2
  <2> QED BY <2>2, <2>3
<1>4. ASSUME NEW r \in Runner, Finish(r) \/ OnComplete(r) PROVE FilesOK'
  BY <1>4 DEF Finish, OnComplete, dbVars
<1>5. CASE Crash
  BY <1>5 DEF Crash, dbVars
<1>6. ASSUME NEW r \in Runner, NEW w \in Worker, Work(r, w) PROVE FilesOK'
  BY <1>6, WorkFiles
<1> QED BY <1>1, <1>2, <1>3, <1>4, <1>5, <1>6 DEF Next, Service, User

----------------------------------------------------------------------------
(* The runners of the job.                                                   *)

\* Runner r is new, and the others stay.
Started(r) ==
  /\ active' = r /\ Becomes(r, Fresh) /\ UNCHANGED todo
  /\ \A w \in Worker : pc'[r][w] = "next"
  /\ \A q \in Runner \ {r}, w \in Worker : pc'[q][w] = pc[q][w]

LEMMA StartEffect ==
  ASSUME TypeOK, StartProcessing
  PROVE  \/ active /= 0 /\ UNCHANGED runVars
         \/ active = 0 /\ \E r \in Runner : run[r].phase = "gone" /\ Started(r)
<1>1. CASE ~(active /= 0 /\ UNCHANGED runVars)
  <2>1. PICK r \in Runner : /\ run[r].phase = "gone" /\ active' = r
                            /\ run' = [run EXCEPT ![r] = Fresh] /\ UNCHANGED todo
                            /\ pc' = [pc EXCEPT ![r] = [w \in Worker |-> "next"]]
    BY <1>1 DEF StartProcessing
  <2>2. Becomes(r, Fresh)
    BY <2>1, FreshRuns, ExceptBecomes
  <2>3. /\ \A w \in Worker : pc'[r][w] = "next"
        /\ \A q \in Runner \ {r}, w \in Worker : pc'[q][w] = pc[q][w]
    BY <2>1 DEF TypeOK
  <2> QED BY <1>1, <2>1, <2>2, <2>3 DEF Started, StartProcessing
<1> QED BY <1>1

\* A runner that is started while none works.
LEMMA StartWorking ==
  ASSUME TypeOK, NEW r \in Runner, Started(r), Working = {}
  PROVE  Working' = {r} /\ run'[r] = Fresh /\ \A q \in Runner \ {r} : run'[q] = run[q]
<1>1. run'[r] = Fresh /\ \A q \in Runner \ {r} : run'[q] = run[q]
  BY DEF Started, Becomes
<1> QED BY <1>1, FreshRuns DEF Working

\* What Pause and Cancel do to the active runner.
LEMMA FlagEffect ==
  ASSUME TypeOK, Pause \/ Cancel
  PROVE  /\ run' \in [Runner -> Runs] /\ Working' = Working
         /\ \A q \in Runner :
              /\ run'[q].phase = run[q].phase
              /\ run'[q].isDone = run[q].isDone /\ run'[q].fetching = run[q].fetching
              /\ run'[q].batch = run[q].batch /\ run'[q].queue = run[q].queue
              /\ q /= active \/ Cancel => run'[q].paused = run[q].paused
              /\ q /= active \/ Pause => run'[q].cancelled = run[q].cancelled
              /\ run[q].paused => run'[q].paused
              /\ run[q].cancelled => run'[q].cancelled
              /\ Cancel /\ q = active => run'[q].cancelled
<1>0. status' = "paused" <=> Pause
  BY DEF Pause, Cancel
<1>1. CASE active = 0
  <2>1. run' = run
    BY <1>1 DEF Pause, Cancel
  <2> QED BY <1>1, <2>1 DEF Working, TypeOK, Runner
<1>2. CASE active /= 0
  <2>1. active \in Runner /\ run[active] \in Runs
    BY <1>2, Zenon DEF TypeOK
  <2> DEFINE P == [run[active] EXCEPT !.paused = TRUE]
             C == [run[active] EXCEPT !.cancelled = TRUE]
  <2>2. P \in Runs /\ C \in Runs
    BY <2>1, RunFields, Zenon
  <2>3. (Pause => run' = [run EXCEPT ![active] = P]) /\ (Cancel => run' = [run EXCEPT ![active] = C])
    BY <1>2 DEF Pause, Cancel
  <2>4. (Pause => Becomes(active, P)) /\ (Cancel => Becomes(active, C))
    BY <2>1, <2>2, <2>3, ExceptBecomes
  <2>5. /\ P.phase = run[active].phase /\ P.isDone = run[active].isDone
        /\ P.fetching = run[active].fetching /\ P.batch = run[active].batch
        /\ P.queue = run[active].queue /\ P.cancelled = run[active].cancelled /\ P.paused
    BY <2>1 DEF Runs
  <2>6. /\ C.phase = run[active].phase /\ C.isDone = run[active].isDone
        /\ C.fetching = run[active].fetching /\ C.batch = run[active].batch
        /\ C.queue = run[active].queue /\ C.paused = run[active].paused /\ C.cancelled
    BY <2>1 DEF Runs
  <2> HIDE DEF P, C
  <2>7. CASE Pause
    <3>1. ~Cancel
      BY <2>7 DEF Pause, Cancel
    <3> QED BY <2>1, <2>4, <2>5, <2>7, <3>1 DEF Becomes, Working
  <2>8. CASE Cancel
    <3>1. ~Pause
      BY <2>8 DEF Pause, Cancel
    <3> QED BY <2>1, <2>4, <2>6, <2>8, <3>1 DEF Becomes, Working
  <2> QED BY <2>7, <2>8
<1> QED BY <1>1, <1>2

\* A runner leaves, or completes the job.
LEMMA FinishEffect ==
  ASSUME TypeOK, NEW r \in Runner, Finish(r) \/ OnComplete(r)
  PROVE  \/ /\ Finish(r) /\ Completes(r) /\ UNCHANGED active /\ status' = "completed"
            /\ Becomes(r, [run[r] EXCEPT !.phase = "ending"]) /\ Working' = Working
         \/ /\ Finish(r) => ~Completes(r)
            /\ active' = 0 /\ Becomes(r, Gone) /\ UNCHANGED status /\ Working' = Working \ {r}
<1>1. run[r] \in Runs /\ [run[r] EXCEPT !.phase = "ending"] \in Runs
  BY RunFields, Zenon DEF TypeOK
<1>2. CASE Finish(r) /\ Completes(r)
  <2>1. /\ UNCHANGED active /\ status' = "completed" /\ run[r].phase = "working"
        /\ run' = [run EXCEPT ![r] = [run[r] EXCEPT !.phase = "ending"]]
    BY <1>2 DEF Finish
  <2>2. Becomes(r, [run[r] EXCEPT !.phase = "ending"])
    BY <1>1, <2>1, ExceptBecomes
  <2>3. Working' = Working
    BY <1>1, <2>1, <2>2 DEF Becomes, Working, Runs
  <2> QED BY <1>2, <2>1, <2>2, <2>3
<1>3. CASE ~(Finish(r) /\ Completes(r))
  <2>1. active' = 0 /\ run' = [run EXCEPT ![r] = Gone] /\ UNCHANGED status
    BY <1>3 DEF Finish, OnComplete, dbVars
  <2>2. Becomes(r, Gone)
    BY <2>1, ExceptBecomes, FreshRuns
  <2>3. Working' = Working \ {r}
    BY <2>2, FreshRuns DEF Becomes, Working
  <2> QED BY <1>3, <2>1, <2>2, <2>3
<1> QED BY <1>2, <1>3, Zenon

LEMMA CrashEffect ==
  ASSUME Crash
  PROVE  Working' = {} /\ \A q \in Runner : run'[q] = Gone /\ \A w \in Worker : pc'[q][w] = "done"
  BY FreshRuns DEF Crash, Working

\* The steps of the service and the user that touch no runner.
LEMMA RunnersStay ==
  ASSUME CreateJob \/ EnqueueTiles \/ Show \/ Resume \/ ResumeReset \/ RecoverSelect
         \/ RecoverReset \/ RecoverStatus \/ UNCHANGED vars
  PROVE  UNCHANGED <<active, run, pc, todo>> /\ Working' = Working
<1>1. UNCHANGED <<active, run, pc, todo>>
  BY DEF CreateJob, EnqueueTiles, Show, Resume, ResumeReset, RecoverSelect, RecoverReset,
         RecoverStatus, vars, runVars
<1> QED BY <1>1 DEF Working

LEMMA SteadyWorking ==
  ASSUME TypeOK, JobOK, NEW r \in Runner, NEW w \in Worker, Steady(r, w)
  PROVE  Working' = Working /\ run[r].phase = "working" /\ r \in Working
  BY DEF Steady, Working, JobOK

\* The history keeps what has happened.
LEMMA HistoryStays ==
  ASSUME [Next]_vars
  PROVE  (crossed => crossed') /\ (meddled => meddled')
<1>1. CASE CreateJob \/ EnqueueTiles \/ Show \/ Resume \/ Pause \/ RecoverSelect \/ RecoverStatus \/ Crash \/ UNCHANGED vars
  BY <1>1 DEF CreateJob, EnqueueTiles, Show, Resume, Pause, RecoverSelect, RecoverStatus, Crash, vars, history
<1>2. CASE JobStarted \/ ResumeStart \/ RecoverStart \/ ResumeReset \/ RecoverReset
  <2>1. UNCHANGED crossed
    BY <1>2 DEF JobStarted, ResumeStart, RecoverStart, ResumeReset, RecoverReset
  <2>2. Noted
    BY <1>2 DEF JobStarted, ResumeStart, RecoverStart, ResumeReset, RecoverReset
  <2> QED BY <2>1, <2>2, Zenon DEF Noted
<1>3. CASE Cancel
  BY <1>3 DEF Cancel
<1>4. ASSUME NEW r \in Runner, Finish(r) \/ OnComplete(r) PROVE UNCHANGED history
  BY <1>4 DEF Finish, OnComplete
<1>5. ASSUME NEW r \in Runner, NEW w \in Worker, Work(r, w) PROVE UNCHANGED history
  BY <1>5 DEF Work, Process, Stop, Take, Fetch, AddBatch, SelectFailed, Requeued, Dry, MarkTile,
              RequeueTile, Download, Fail, MarkDownloaded, IncrementJobProgress, MarkFailed
<1> QED BY <1>1, <1>2, <1>3, <1>4, <1>5 DEF Next, Service, User, history

----------------------------------------------------------------------------
(* What holds of a job always.                                               *)

LEMMA NextJob == TypeOK /\ JobOK /\ [Next]_vars => JobOK'
<1> SUFFICES ASSUME TypeOK, JobOK, [Next]_vars PROVE JobOK'
  OBVIOUS
<1>1. CASE CreateJob \/ EnqueueTiles \/ Show \/ Resume \/ ResumeReset \/ RecoverSelect
           \/ RecoverReset \/ RecoverStatus \/ UNCHANGED vars
  <2>1. UNCHANGED <<active, run, pc>> /\ Working' = Working
    BY <1>1, RunnersStay
  <2>2. /\ owned' = owned
        /\ \/ starting' = 1 /\ status = "none" /\ status' = "running" /\ resuming' = resuming
           \/ starting /= 0 /\ status' = status /\ resuming' = resuming
           \/ starting' = starting /\ status' = status /\ resuming' = resuming
           \/ /\ starting' = starting /\ status /= "none" /\ status' /= "none"
              /\ resuming' /= "no" => resuming /= "no" \/ owned
    <3>1. CASE CreateJob
      BY <1>1, <3>1 DEF CreateJob
    <3>2. CASE EnqueueTiles
      BY <3>2, PrefetchAssumption DEF EnqueueTiles
    <3>3. CASE Show \/ UNCHANGED vars \/ RecoverSelect \/ RecoverReset
      BY <3>3 DEF Show, vars, dbVars, uiVars, RecoverSelect, RecoverReset
    <3>4. CASE Resume \/ ResumeReset \/ RecoverStatus
      BY <3>4 DEF Resume, Tap, ResumeReset, RecoverStatus, JobOK
    <3> QED BY <1>1, <3>1, <3>2, <3>3, <3>4
  <2>3. status' = "none" => /\ status = "none" /\ tile' = tile
                            /\ recovery' \in {"due", "done"}
    <3>1. CASE CreateJob \/ EnqueueTiles \/ Resume \/ ResumeReset \/ RecoverReset \/ RecoverStatus
      <4>1. status' /= "none"
        BY <3>1, PrefetchAssumption DEF CreateJob, EnqueueTiles, Resume, ResumeReset, RecoverReset, RecoverStatus, JobOK
      <4> QED BY <4>1
    <3>2. CASE Show \/ RecoverSelect \/ UNCHANGED vars
      BY <3>2 DEF Show, RecoverSelect, vars, dbVars, uiVars, JobOK
    <3> QED BY <1>1, <3>1, <3>2
  <2>4. status' = "none" => starting' = 0
    BY <2>2, <2>3 DEF JobOK
  <2>5. \A r \in Runner : Halted(r)' = Halted(r)
    BY <2>1 DEF Halted
  <2>6. owned' \/ resuming' /= "no" => starting' = 0 /\ status' /= "none"
    BY <2>2 DEF JobOK
  <2> QED BY <2>1, <2>3, <2>4, <2>5, <2>6 DEF JobOK
<1>2. CASE JobStarted \/ ResumeStart \/ RecoverStart
  <2>1. /\ StartProcessing /\ UNCHANGED <<status, tile>> /\ status /= "none"
        /\ starting' \in {0, starting} /\ (resuming' /= "no" => resuming /= "no")
        /\ owned' /\ ~owned => starting' = 0
    BY <1>2, PrefetchAssumption DEF JobStarted, ResumeStart, RecoverStart, JobOK, dbVars
  <2>2. owned' \/ resuming' /= "no" => starting' = 0 /\ status' /= "none"
    BY <2>1 DEF JobOK
  <2>3. CASE active /= 0 /\ UNCHANGED runVars
    <3>1. Working' = Working /\ UNCHANGED <<active, run, pc>> /\ \A r \in Runner : Halted(r)' = Halted(r)
      BY <2>3 DEF runVars, Working, Halted
    <3> QED BY <2>1, <2>2, <3>1 DEF JobOK
  <2>4. ASSUME active = 0, NEW r \in Runner, run[r].phase = "gone", Started(r) PROVE JobOK'
    <3>1. /\ run'[r].phase = "working" /\ ~run'[r].cancelled /\ active' = r
          /\ \A q \in Runner \ {r} : run'[q] = run[q]
      BY <2>4, FreshRuns DEF Started, Becomes
    <3>2. active' \in Working'
      BY <3>1 DEF Working
    <3>3. /\ \A q \in Runner, w \in Worker : run'[q].phase /= "working" => pc'[q][w] = "done"
          /\ \A q \in Runner, w \in Worker : run'[q].phase = "working" /\ pc'[q][w] = "done" => Halted(q)'
      BY <2>4, <3>1 DEF Started, JobOK, Halted
    <3> QED BY <2>1, <2>2, <3>1, <3>2, <3>3 DEF JobOK
  <2> QED BY <2>1, <2>3, <2>4, StartEffect
<1>3. CASE Pause \/ Cancel
  <2>1. /\ Working' = Working
        /\ \A q \in Runner : run'[q].phase = run[q].phase /\ run'[q].isDone = run[q].isDone
        /\ \A q \in Runner : (run[q].paused => run'[q].paused) /\ (run[q].cancelled => run'[q].cancelled)
        /\ \A q \in Runner : Pause => run'[q].cancelled = run[q].cancelled
    BY <1>3, FlagEffect
  <2>2. /\ UNCHANGED <<starting, resuming, recovery, pc>> /\ owned
        /\ status' \in {"paused", "cancelled"} /\ (active' = 0 \/ (Pause /\ active' = active))
    BY <1>3 DEF Pause, Cancel, Tap
  <2>3. \A q \in Runner : Halted(q) => Halted(q)'
    BY <2>1 DEF Halted
  <2>4. active' /= 0 => active' \in Working' /\ ~run'[active'].cancelled
    BY <2>1, <2>2 DEF JobOK, Working
  <2> QED BY <2>1, <2>2, <2>3, <2>4 DEF JobOK
<1>4. ASSUME NEW r \in Runner, Finish(r) \/ OnComplete(r) PROVE JobOK'
  <2>1. /\ r \in Working /\ UNCHANGED <<starting, resuming, recovery, owned, pc, tile>>
        /\ \A w \in Worker : pc[r][w] = "done"
    BY <1>4 DEF Finish, OnComplete, uiVars, dbVars, Working, JobOK
  <2>2. run[r] \in Runs /\ status /= "none"
    BY <2>1 DEF TypeOK, JobOK
  <2>3. CASE /\ Completes(r) /\ UNCHANGED active /\ status' = "completed"
             /\ Becomes(r, [run[r] EXCEPT !.phase = "ending"]) /\ Working' = Working
    <3>1. /\ run'[r].phase = "ending" /\ run'[r].cancelled = run[r].cancelled
          /\ \A q \in Runner \ {r} : run'[q] = run[q]
      BY <2>2, <2>3 DEF Becomes, Runs
    <3>2. \A q \in Runner \ {r} : Halted(q)' = Halted(q)
      BY <3>1 DEF Halted
    <3>3. active' /= 0 => active' \in Working' /\ ~run'[active'].cancelled
      BY <2>3, <3>1 DEF JobOK, Working
    <3> QED BY <2>1, <2>2, <2>3, <3>1, <3>2, <3>3 DEF JobOK
  <2>4. CASE active' = 0 /\ Becomes(r, Gone) /\ UNCHANGED status /\ Working' = Working \ {r}
    <3>1. run'[r].phase = "gone" /\ \A q \in Runner \ {r} : run'[q] = run[q]
      BY <2>4, FreshRuns DEF Becomes
    <3>2. \A q \in Runner \ {r} : Halted(q)' = Halted(q)
      BY <3>1 DEF Halted
    <3> QED BY <2>1, <2>2, <2>4, <3>1, <3>2 DEF JobOK
  <2> QED BY <1>4, <2>3, <2>4, FinishEffect
<1>5. CASE Crash
  <2>1. /\ Working' = {} /\ active' = 0 /\ starting' = 0 /\ ~owned' /\ resuming' = "no"
        /\ recovery' = "due" /\ UNCHANGED <<status, tile>>
        /\ \A q \in Runner, w \in Worker : run'[q].phase = "gone" /\ pc'[q][w] = "done"
    BY <1>5, CrashEffect, FreshRuns DEF Crash, dbVars
  <2> QED BY <2>1 DEF JobOK
<1>6. ASSUME NEW r \in Runner, NEW w \in Worker, Work(r, w) PROVE JobOK'
  <2>1. Steady(r, w) /\ Working' = Working /\ run[r].phase = "working" /\ r \in Working
    BY <1>6, WorkIsSteady, SteadyWorking
  <2>2. \A q \in Runner : Halted(q) => Halted(q)'
    BY <2>1 DEF Halted, Steady
  <2>3. \A q \in Runner, v \in Worker : pc'[q][v] = pc[q][v] \/ (q = r /\ v = w)
    BY <2>1 DEF Steady, Moved
  <2>4. pc'[r][w] = "done" => Halted(r)
    BY <2>1 DEF Steady
  <2>5. \A q \in Runner : run'[q].phase = run[q].phase /\ run'[q].cancelled = run[q].cancelled
    BY <2>1 DEF Steady
  <2>6. UNCHANGED <<status, starting, resuming, recovery, owned, active>> /\ status /= "none"
    BY <2>1 DEF Steady, uiVars, JobOK
  <2>7. active' /= 0 => active' \in Working' /\ ~run'[active'].cancelled
    BY <2>1, <2>5, <2>6 DEF JobOK, Working
  <2>8. \A q \in Runner, v \in Worker : run'[q].phase /= "working" => pc'[q][v] = "done"
    BY <2>1, <2>3, <2>5 DEF JobOK
  <2>9. \A q \in Runner, v \in Worker : run'[q].phase = "working" /\ pc'[q][v] = "done" => Halted(q)'
    BY <2>2, <2>3, <2>4, <2>5 DEF JobOK
  <2> QED BY <2>1, <2>6, <2>7, <2>8, <2>9 DEF JobOK
<1> QED BY <1>1, <1>2, <1>3, <1>4, <1>5, <1>6 DEF Next, Service, User

\* A runner that works on leaves only when the job is complete.
LEMMA NextServe == TypeOK /\ JobOK /\ ServeOK /\ [Next]_vars => ServeOK'
<1> SUFFICES ASSUME TypeOK, JobOK, ServeOK, [Next]_vars,
                    status' = "running", starting' = 0, resuming' = "no", recovery' = "done"
             PROVE  stranded' \/ \E r \in Runner : Serving(r)'
  BY DEF ServeOK, Quiet
<1>1. ASSUME UNCHANGED <<status, starting, resuming, recovery, stranded>>,
             \A q \in Runner : Serving(q) => Serving(q)'
      PROVE  stranded' \/ \E r \in Runner : Serving(r)'
  BY <1>1 DEF ServeOK, Quiet
<1>2. CASE Show \/ UNCHANGED vars
  <2>1. UNCHANGED <<status, starting, resuming, recovery, stranded, run>>
    BY <1>2 DEF Show, vars, dbVars, uiVars, runVars, history
  <2> QED BY <1>1, <2>1 DEF Serving
<1>3. CASE CreateJob \/ EnqueueTiles \/ Resume \/ ResumeReset \/ RecoverReset \/ RecoverStatus
           \/ RecoverSelect \/ Pause \/ Cancel \/ Crash
  BY <1>3, PrefetchAssumption DEF CreateJob, EnqueueTiles, Resume, ResumeReset, RecoverReset, RecoverStatus,
              RecoverSelect, Pause, Cancel, Crash, dbVars
<1>4. CASE JobStarted \/ ResumeStart \/ RecoverStart
  <2>1. StartProcessing
    BY <1>4 DEF JobStarted, ResumeStart, RecoverStart
  <2>2. CASE active = 0
    <3>1. PICK r \in Runner : Started(r)
      BY <2>1, <2>2, StartEffect
    <3>2. Serving(r)'
      BY <3>1, FreshRuns DEF Started, Becomes, Serving
    <3> QED BY <3>2
  <2>3. CASE active /= 0
    <3>1. /\ stranded' = (run[active].paused \/ run[active].phase = "ending") /\ run' = run
      BY <2>1, <2>3 DEF StartProcessing, runVars
    <3>2. active \in Runner /\ run[active] \in Runs /\ run[active].phase /= "gone" /\ ~run[active].cancelled
      BY <2>3 DEF JobOK, Working, TypeOK
    <3>3. run[active].phase \in {"working", "ending"}
      BY <3>2 DEF Runs
    <3> QED BY <3>1, <3>2, <3>3 DEF Serving
  <2> QED BY <2>2, <2>3
<1>5. ASSUME NEW r \in Runner, Finish(r) \/ OnComplete(r)
      PROVE  stranded' \/ \E q \in Runner : Serving(q)'
  <2>1. UNCHANGED <<starting, resuming, recovery, stranded>> /\ run[r] \in Runs
    BY <1>5 DEF Finish, OnComplete, uiVars, history, TypeOK
  <2>2. /\ ~(Finish(r) /\ Completes(r)) /\ Becomes(r, Gone) /\ UNCHANGED status
    BY <1>5, FinishEffect
  <2>3. ~Serving(r)
    <3>1. CASE OnComplete(r)
      BY <3>1 DEF OnComplete, Serving
    <3>2. CASE Finish(r)
      <4>1. ~Completes(r) /\ run[r].phase = "working" /\ \A w \in Worker : pc[r][w] = "done"
        BY <2>2, <3>2 DEF Finish
      <4>2. Halted(r)
        BY <4>1, PrefetchAssumption DEF JobOK
      <4> QED BY <4>1, <4>2 DEF Completes, Halted, Serving
    <3> QED BY <1>5, <3>1, <3>2
  <2>4. \A q \in Runner \ {r} : run'[q] = run[q]
    BY <2>2 DEF Becomes
  <2> QED BY <1>1, <2>1, <2>2, <2>3, <2>4 DEF Serving
<1>6. ASSUME NEW r \in Runner, NEW w \in Worker, Work(r, w)
      PROVE  stranded' \/ \E q \in Runner : Serving(q)'
  <2>1. Steady(r, w)
    BY <1>6, WorkIsSteady
  <2>2. \A q \in Runner : Serving(q) => Serving(q)'
    BY <2>1 DEF Steady, Serving
  <2>3. UNCHANGED <<status, starting, resuming, recovery, stranded>>
    BY <2>1 DEF Steady, uiVars, history
  <2> QED BY <1>1, <2>2, <2>3
<1> QED BY <1>2, <1>3, <1>4, <1>5, <1>6 DEF Next, Service, User

----------------------------------------------------------------------------
(* A cancelled job, unless it was cancelled in the middle of a resumption.    *)

LEMMA NextCancel ==
  ASSUME TypeOK, JobOK, CancelOK, [Next]_vars
  PROVE  CancelOK' /\ (status = "cancelled" /\ ~crossed => status' = "cancelled")
<1> SUFFICES ASSUME ~crossed
             PROVE  (~crossed' => Alone') /\ (status = "cancelled" => status' = "cancelled")
  BY HistoryStays DEF CancelOK
<1>0. Alone
  BY DEF CancelOK
<1>1. CASE CreateJob \/ EnqueueTiles \/ Show \/ Resume \/ ResumeReset \/ RecoverSelect
           \/ RecoverReset \/ RecoverStatus \/ UNCHANGED vars
  <2>1. UNCHANGED <<active, run>> /\ Working' = Working
    BY <1>1, RunnersStay
  <2>2. status /= "cancelled" => status' /= "cancelled" /\ (Working /= {} => \A r \in Working : active = r)
    BY <1>0, <1>1 DEF Alone, CreateJob, EnqueueTiles, Show, Resume, ResumeReset, RecoverSelect,
              RecoverReset, RecoverStatus, vars, dbVars
  <2>3. status = "cancelled" => /\ UNCHANGED <<status, starting, owned, resuming>>
                                /\ recovery' \in {"due", "done"}
    BY <1>0, <1>1, PrefetchAssumption DEF Alone, CreateJob, EnqueueTiles, Show, Resume, Tap, ResumeReset, RecoverSelect,
              RecoverReset, RecoverStatus, vars, dbVars, uiVars
  <2> QED BY <1>0, <2>1, <2>2, <2>3 DEF Alone
<1>2. CASE JobStarted \/ ResumeStart \/ RecoverStart
  <2>1. StartProcessing /\ UNCHANGED status /\ status /= "cancelled"
    BY <1>0, <1>2, PrefetchAssumption DEF JobStarted, ResumeStart, RecoverStart, Alone, dbVars
  <2>2. CASE active /= 0 /\ UNCHANGED runVars
    <3>1. Working' = Working /\ UNCHANGED <<active, run>>
      BY <2>2 DEF runVars, Working
    <3> QED BY <1>0, <2>1, <3>1 DEF Alone
  <2>3. ASSUME active = 0, NEW r \in Runner, Started(r) PROVE Alone'
    <3>1. \A q \in Working : q = 0
      BY <1>0, <2>1, <2>3 DEF Alone
    <3>2. Working = {}
      BY <3>1 DEF Working, Runner
    <3>3. Working' = {r} /\ active' = r
      BY <2>3, <3>2, StartWorking DEF Started
    <3> QED BY <2>1, <3>3 DEF Alone
  <2> QED BY <2>1, <2>2, <2>3, StartEffect
<1>3. CASE Pause
  <2>1. /\ Working' = Working /\ \A q \in Runner : run[q].cancelled => run'[q].cancelled
    BY <1>3, FlagEffect
  <2>2. UNCHANGED active /\ owned /\ status' = "paused"
    BY <1>3 DEF Pause, Tap
  <2> QED BY <1>0, <2>1, <2>2 DEF Alone
<1>4. CASE Cancel
  <2>1. /\ Working' = Working
        /\ \A q \in Runner : run[q].cancelled \/ q = active => run'[q].cancelled
    BY <1>4, FlagEffect
  <2>2. /\ UNCHANGED <<starting, resuming, recovery>> /\ active' = 0 /\ owned /\ ~owned' /\ status' = "cancelled"
        /\ ~crossed' => resuming = "no" /\ recovery \in {"due", "done"}
    BY <1>4 DEF Cancel, Tap
  <2>3. starting = 0
    BY <2>2 DEF JobOK
  <2>4. \A q \in Working : run'[q].cancelled
    BY <1>0, <2>1, <2>2 DEF Alone, Working
  <2> QED BY <1>0, <2>1, <2>2, <2>3, <2>4 DEF Alone
<1>5. ASSUME NEW r \in Runner, Finish(r) \/ OnComplete(r)
      PROVE  Alone' /\ (status = "cancelled" => status' = "cancelled")
  <2>1. r \in Working /\ UNCHANGED <<starting, resuming, recovery, owned>>
    BY <1>5 DEF Finish, OnComplete, uiVars, Working
  <2>2. CASE /\ Completes(r) /\ UNCHANGED active /\ status' = "completed" /\ Working' = Working
    <3>1. ~run[r].cancelled
      BY <2>2 DEF Completes
    <3>2. status /= "cancelled" /\ \A q \in Working : active = q
      BY <1>0, <2>1, <3>1 DEF Alone
    <3> QED BY <1>0, <2>2, <3>2 DEF Alone
  <2>3. CASE active' = 0 /\ UNCHANGED status /\ Working' = Working \ {r}
    <3>1. Working' = {}
      BY <1>0, <2>1, <2>3 DEF Alone
    <3> QED BY <1>0, <2>1, <2>3, <3>1 DEF Alone
  <2> QED BY <1>5, <2>2, <2>3, FinishEffect
<1>6. CASE Crash
  <2>1. /\ Working' = {} /\ active' = 0 /\ starting' = 0 /\ ~owned' /\ resuming' = "no"
        /\ recovery' = "due" /\ UNCHANGED status
    BY <1>6, CrashEffect DEF Crash, dbVars
  <2> QED BY <2>1 DEF Alone
<1>7. ASSUME NEW r \in Runner, NEW w \in Worker, Work(r, w) PROVE Alone' /\ UNCHANGED status
  <2>1. Steady(r, w) /\ Working' = Working
    BY <1>7, WorkIsSteady, SteadyWorking
  <2>2. \A q \in Runner : run'[q].cancelled = run[q].cancelled
    BY <2>1 DEF Steady
  <2>3. UNCHANGED <<status, active, starting, owned, resuming, recovery>>
    BY <2>1 DEF Steady, uiVars
  <2>4. \A q \in Working : q \in Runner
    BY DEF Working
  <2> QED BY <1>0, <2>1, <2>2, <2>3, <2>4 DEF Alone
<1> QED BY <1>1, <1>2, <1>3, <1>4, <1>5, <1>6, <1>7 DEF Next, Service, User

----------------------------------------------------------------------------
(* Tiles are enqueued and reset, and runners started, while none works.        *)

LEMMA StartWhenIdle ==
  ASSUME TypeOK, JobOK, ~Meddling, JobStarted \/ ResumeStart \/ RecoverStart
  PROVE  /\ status /= "completed" /\ UNCHANGED dbVars /\ Working = {} /\ starting' \in {0, starting}
         /\ \E r \in Runner : Started(r) /\ Working' = {r} /\ run'[r] = Fresh
<1>1. /\ StartProcessing /\ status /= "completed" /\ UNCHANGED dbVars /\ Working = {}
      /\ starting' \in {0, starting}
  BY PrefetchAssumption DEF JobStarted, ResumeStart, RecoverStart, Meddling
<1>2. active = 0
  BY <1>1 DEF JobOK
<1>3. PICK r \in Runner : Started(r)
  BY <1>1, <1>2, StartEffect
<1>4. Working' = {r} /\ run'[r] = Fresh
  BY <1>1, <1>3, StartWorking
<1> QED BY <1>1, <1>3, <1>4

LEMMA ResetWhenIdle ==
  ASSUME ~meddled', ResumeReset \/ RecoverReset
  PROVE  /\ Working = {} /\ status /= "completed" /\ Working' = {} /\ status' = status
         /\ ResetInProgress /\ UNCHANGED <<tilesDone, starting, run, pc>>
<1>1. Working' = Working /\ UNCHANGED <<run, pc>>
  BY RunnersStay
<1>2. ~Meddling'
  BY DEF ResumeReset, RecoverReset, Noted
<1>3. /\ UNCHANGED <<status, tilesDone, starting>> /\ (resuming' = "start" \/ recovery' = "status")
      /\ ResetInProgress
  BY DEF ResumeReset, RecoverReset
<1> QED BY <1>1, <1>2, <1>3 DEF Meddling

LEMMA NextMeddling ==
  ASSUME TypeOK, JobOK, ~Meddling, ~meddled', [Next]_vars
  PROVE  ~Meddling'
<1>1. CASE CreateJob
  <2>1. Working' = {} /\ status' = "running"
    BY <1>1, RunnersStay DEF CreateJob, JobOK
  <2> QED BY <2>1 DEF Meddling
<1>2. CASE EnqueueTiles \/ Show \/ Resume \/ RecoverSelect \/ RecoverStatus \/ UNCHANGED vars
  <2>1. Working' = Working
    BY <1>2, RunnersStay
  <2>2. /\ status' \in {status, "running"} /\ (starting' /= 0 => starting /= 0)
        /\ resuming' = "start" => resuming = "start"
        /\ recovery' \in {"status", "start"} => recovery \in {"status", "start"}
    BY <1>2, PrefetchAssumption
    DEF EnqueueTiles, Show, Resume, RecoverSelect, RecoverStatus, vars, dbVars, uiVars
  <2> QED BY <2>1, <2>2 DEF Meddling
<1>3. CASE JobStarted \/ ResumeStart \/ RecoverStart \/ ResumeReset \/ RecoverReset
  BY <1>3 DEF JobStarted, ResumeStart, RecoverStart, ResumeReset, RecoverReset, Noted
<1>4. CASE Pause \/ Cancel
  <2>1. Working' = Working
    BY <1>4, FlagEffect
  <2>2. UNCHANGED <<starting, resuming, recovery>> /\ status' \in {"paused", "cancelled"}
    BY <1>4 DEF Pause, Cancel
  <2> QED BY <2>1, <2>2 DEF Meddling
<1>5. ASSUME NEW r \in Runner, Finish(r) \/ OnComplete(r) PROVE ~Meddling'
  BY <1>5 DEF Finish, OnComplete, uiVars, Working, Meddling
<1>6. CASE Crash
  BY <1>6 DEF Crash, Meddling
<1>7. ASSUME NEW r \in Runner, NEW w \in Worker, Work(r, w) PROVE ~Meddling'
  <2>1. Steady(r, w) /\ Working' = Working
    BY <1>7, WorkIsSteady, SteadyWorking
  <2> QED BY <2>1 DEF Steady, uiVars, Meddling
<1> QED BY <1>1, <1>2, <1>3, <1>4, <1>5, <1>6, <1>7 DEF Next, Service, User

----------------------------------------------------------------------------
(* Every tile in progress is someone's.                                      *)

\* What writing status x to the row of tile t does to the sets of tiles.
LEMMA RowMoves ==
  ASSUME TypeOK, NEW t \in Tiles, NEW x, tile' = [tile EXCEPT ![t] = x]
  PROVE  /\ InProgress' = IF x = "in_progress" THEN InProgress \union {t} ELSE InProgress \ {t}
         /\ Queued' = IF x = "queued" THEN Queued \union {t} ELSE Queued \ {t}
         /\ Failed' = IF x = "failed" THEN Failed \union {t} ELSE Failed \ {t}
         /\ Settled' = IF x \in {"downloaded", "skipped"} THEN Settled \union {t} ELSE Settled \ {t}
<1>1. tile \in TileRows
  BY DEF TypeOK, TileRows
<1> QED BY <1>1 DEF TileRows, InProgress, Queued, Failed, Settled

LEMMA RowsStay ==
  ASSUME UNCHANGED tile
  PROVE  /\ InProgress' = InProgress /\ Queued' = Queued /\ Failed' = Failed
         /\ Settled' = Settled
  BY DEF InProgress, Queued, Failed, Settled

LEMMA RowsApart ==
  /\ InProgress \intersect Queued = {} /\ InProgress \intersect Failed = {}
  /\ Queued \intersect Failed = {} /\ Settled \intersect (InProgress \union Queued \union Failed) = {}
  BY DEF InProgress, Queued, Failed, Settled

\* Nobody works on the tiles when no worker has moved and no row was written.
LEMMA HandsStay ==
  ASSUME NEW r \in Runner, UNCHANGED <<tile, pc, todo>>, FetchOK(r), HandOK(r),
         run'[r].isDone = run[r].isDone, run'[r].fetching = run[r].fetching,
         run'[r].batch = run[r].batch, run'[r].queue = run[r].queue
  PROVE  FetchOK(r)' /\ HandOK(r)'
<1>1. InProgress' = InProgress /\ Queued' = Queued /\ Failed' = Failed /\ Held(r)' = Held(r)
  BY RowsStay DEF Held
<1> QED BY <1>1 DEF FetchOK, HandOK

LEMMA StopHands ==
  ASSUME TypeOK, NEW r \in Runner, NEW w \in Worker, FetchOK(r), HandOK(r), Stop(r, w)
  PROVE  FetchOK(r)' /\ HandOK(r)'
<1>1. Moved(r, w, "done", {}) /\ run' = run /\ tile' = tile /\ pc[r][w] = "next"
  BY StopEffect DEF Stop, dbVars
<1>2. InProgress' = InProgress /\ Queued' = Queued /\ Failed' = Failed
  BY <1>1, RowsStay
<1>3. Held(r)' = Held(r)
  BY <1>1 DEF Held, Moved, Holding
<1>4. /\ \A v \in Worker \ {w} : pc'[r][v] = pc[r][v] /\ todo'[r][v] = todo[r][v]
      /\ pc'[r][w] = "done"
  BY <1>1 DEF Moved
<1>5. FetchOK(r)'
  BY <1>1, <1>2, <1>4 DEF FetchOK, Fetching
<1>6. \A v \in Worker : pc'[r][v] \in Holding => v /= w
  BY <1>4 DEF Holding
<1> QED BY <1>1, <1>2, <1>3, <1>4, <1>5, <1>6 DEF HandOK

LEMMA TakeHands ==
  ASSUME TypeOK, NEW r \in Runner, NEW w \in Worker, FetchOK(r), HandOK(r),
         NEW t \in run[r].queue, Take(r, w, t)
  PROVE  FetchOK(r)' /\ HandOK(r)'
<1>1. run[r] \in Runs /\ t \in Tiles /\ Becomes(r, [run[r] EXCEPT !.queue = @ \ {t}]) /\ pc[r][w] = "next"
  BY TakeEffect DEF TypeOK, Take
<1>2. /\ run'[r].queue = run[r].queue \ {t} /\ run'[r].batch = run[r].batch
      /\ run'[r].fetching = run[r].fetching /\ run'[r].isDone = run[r].isDone
  BY <1>1 DEF Becomes, Runs
<1>3. ~run[r].fetching /\ run[r].batch = {} /\ \A v \in Worker : pc[r][v] \notin Fetching
  BY DEF FetchOK
<1>4. t \in InProgress /\ t \notin Held(r)
  BY DEF HandOK
<1>5. CASE tile' = [tile EXCEPT ![t] = "skipped"] /\ Moved(r, w, "count", {t})
  <2>1. InProgress' = InProgress \ {t} /\ Queued' = Queued \ {t} /\ Failed' = Failed \ {t}
    BY <1>1, <1>5, RowMoves
  <2>2. Held(r)' = Held(r)
    BY <1>1, <1>5 DEF Held, Moved, Holding
  <2>3. \A v \in Worker : pc'[r][v] \notin Fetching
    BY <1>3, <1>5 DEF Moved, Fetching
  <2>4. FetchOK(r)'
    BY <1>2, <1>3, <2>1, <2>3 DEF FetchOK, Fetching
  <2>5. \A v \in Worker : pc'[r][v] \in Holding =>
          v /= w /\ pc[r][v] \in Holding /\ todo'[r][v] = todo[r][v] /\ todo[r][v] \subseteq Held(r)
    BY <1>5 DEF Moved, Holding, Held, TypeOK
  <2>6. \A v \in Worker : pc'[r][v] \in Holding => \E u \in InProgress' : todo'[r][v] = {u}
    BY <1>4, <2>1, <2>5 DEF HandOK
  <2>7. \A u, v \in Worker : pc'[r][u] \in Holding /\ pc'[r][v] \in Holding /\ u /= v
                               => todo'[r][u] \intersect todo'[r][v] = {}
    BY <2>5 DEF HandOK
  <2> QED BY <1>2, <1>3, <1>4, <2>1, <2>2, <2>3, <2>4, <2>6, <2>7 DEF HandOK, Fetching
<1>6. CASE MarkInProgress(t) /\ Moved(r, w, "get", {t})
  <2>0. tile' = [tile EXCEPT ![t] = "in_progress"]
    BY <1>6 DEF MarkInProgress
  <2>1. InProgress' = InProgress \union {t} /\ Queued' = Queued \ {t} /\ Failed' = Failed \ {t}
    BY <1>1, <2>0, RowMoves
  <2>2. Held(r)' = Held(r) \union {t}
    BY <1>1, <1>6 DEF Held, Moved, Holding
  <2>3. \A v \in Worker : pc'[r][v] \notin Fetching
    BY <1>3, <1>6 DEF Moved, Fetching
  <2>4. FetchOK(r)'
    BY <1>2, <1>3, <2>1, <2>3 DEF FetchOK, Fetching
  <2>5. \A v \in Worker \ {w} : pc'[r][v] = pc[r][v] /\ todo'[r][v] = todo[r][v]
    BY <1>6 DEF Moved
  <2>6. \A v \in Worker \ {w} : pc[r][v] \in Holding => t \notin todo[r][v]
    BY <1>1, <1>4 DEF Held
  <2>7. \A v \in Worker : pc'[r][v] \in Holding => \E u \in InProgress' : todo'[r][v] = {u}
    <3>1. todo'[r][w] = {t} /\ t \in InProgress'
      BY <1>4, <1>6, <2>1 DEF Moved
    <3>2. ASSUME NEW v \in Worker \ {w}, pc'[r][v] \in Holding PROVE \E u \in InProgress' : todo'[r][v] = {u}
      BY <2>1, <2>5, <3>2 DEF HandOK
    <3> QED BY <3>1, <3>2
  <2>8. \A u, v \in Worker : pc'[r][u] \in Holding /\ pc'[r][v] \in Holding /\ u /= v
                               => todo'[r][u] \intersect todo'[r][v] = {}
    BY <1>6, <2>5, <2>6 DEF HandOK, Moved
  <2> QED BY <1>2, <1>3, <1>4, <2>1, <2>2, <2>3, <2>4, <2>7, <2>8 DEF HandOK, Fetching
<1> QED BY <1>5, <1>6, TakeEffect

LEMMA FetchHands ==
  ASSUME TypeOK, NEW r \in Runner, NEW w \in Worker, FetchOK(r), HandOK(r), Fetch(r, w)
  PROVE  FetchOK(r)' /\ HandOK(r)'
<1>1. PICK B \in SUBSET Queued :
        /\ B = {} => Queued = {}
        /\ Becomes(r, [run[r] EXCEPT !.fetching = TRUE, !.batch = B])
        /\ Moved(r, w, IF B = {} THEN "empty" ELSE "mark", B)
  BY FetchEffect
<1>2. /\ run[r] \in Runs /\ pc[r][w] = "next" /\ run[r].queue = {} /\ ~run[r].fetching /\ ~run[r].isDone
      /\ tile' = tile
  BY DEF Fetch, Halted, TypeOK, dbVars
<1>3. /\ run'[r].queue = {} /\ run'[r].batch = B /\ run'[r].fetching /\ ~run'[r].isDone
  BY <1>1, <1>2 DEF Becomes, Runs
<1>4. InProgress' = InProgress /\ Queued' = Queued /\ Failed' = Failed
  BY <1>2, RowsStay
<1>5. run[r].batch = {} /\ \A v \in Worker : pc[r][v] \notin Fetching
  BY <1>2 DEF FetchOK
<1>6. /\ \A v \in Worker \ {w} : pc'[r][v] = pc[r][v] /\ todo'[r][v] = todo[r][v]
      /\ pc'[r][w] = (IF B = {} THEN "empty" ELSE "mark") /\ todo'[r][w] = B
  BY <1>1 DEF Moved
<1>7. Held(r)' = Held(r)
  BY <1>2, <1>6 DEF Held, Holding
<1>8. FetchOK(r)'
  BY <1>1, <1>3, <1>4, <1>5, <1>6 DEF FetchOK, Fetching
<1>9. Held(r) \subseteq InProgress
  BY DEF Held, HandOK
<1> QED BY <1>1, <1>2, <1>3, <1>4, <1>5, <1>6, <1>7, <1>8, <1>9, RowsApart DEF HandOK, Fetching, Holding

LEMMA AddBatchHands ==
  ASSUME TypeOK, NEW r \in Runner, NEW w \in Worker, FetchOK(r), HandOK(r), AddBatch(r, w)
  PROVE  FetchOK(r)' /\ HandOK(r)'
<1>1. /\ run[r] \in Runs /\ pc[r][w] = "mark" /\ todo[r][w] = {} /\ tile' = tile
      /\ Becomes(r, [run[r] EXCEPT !.queue = @ \union run[r].batch, !.batch = {}, !.fetching = FALSE])
      /\ Moved(r, w, "next", {})
  BY AddBatchEffect DEF AddBatch, TypeOK, dbVars
<1>2. /\ run'[r].queue = run[r].queue \union run[r].batch /\ run'[r].batch = {}
      /\ ~run'[r].fetching /\ run'[r].isDone = run[r].isDone
  BY <1>1 DEF Becomes, Runs
<1>3. InProgress' = InProgress /\ Queued' = Queued /\ Failed' = Failed
  BY <1>1, RowsStay
<1>4. /\ ~run[r].isDone /\ run[r].batch \subseteq InProgress
      /\ \A v \in Worker \ {w} : pc[r][v] \notin Fetching
  BY <1>1 DEF FetchOK, HandOK, Fetching
<1>5. /\ \A v \in Worker \ {w} : pc'[r][v] = pc[r][v] /\ todo'[r][v] = todo[r][v]
      /\ pc'[r][w] = "next" /\ todo'[r][w] = {}
  BY <1>1 DEF Moved
<1>6. Held(r)' = Held(r)
  BY <1>1, <1>5 DEF Held, Holding
<1>7. FetchOK(r)'
  BY <1>2, <1>3, <1>4, <1>5 DEF FetchOK, Fetching
<1> QED BY <1>2, <1>3, <1>4, <1>5, <1>6, <1>7 DEF HandOK, Fetching, Holding

LEMMA RefillHands ==
  ASSUME TypeOK, NEW r \in Runner, NEW w \in Worker, FetchOK(r), HandOK(r),
         SelectFailed(r, w) \/ Requeued(r, w) \/ Dry(r, w)
  PROVE  FetchOK(r)' /\ HandOK(r)'
<1>1. run[r] \in Runs /\ pc[r][w] \in {"empty", "requeue", "dry"} /\ tile' = tile
  BY DEF SelectFailed, Requeued, Dry, TypeOK, dbVars
<1>2. InProgress' = InProgress /\ Queued' = Queued /\ Failed' = Failed
  BY <1>1, RowsStay
<1>3. /\ run[r].fetching /\ run[r].batch = {} /\ run[r].queue = {} /\ ~run[r].isDone
      /\ \A v \in Worker \ {w} : pc[r][v] \notin Fetching
  BY <1>1 DEF FetchOK, Fetching
<1>4. ASSUME NEW l \in {"dry", "requeue", "next"}, NEW S \in SUBSET Failed, Moved(r, w, l, S),
             l = "dry" => Queued = {}, run'[r].batch = {}, run'[r].queue = {},
             run'[r].fetching <=> l /= "next", run'[r].isDone => Queued = {} /\ l = "next"
      PROVE  FetchOK(r)' /\ HandOK(r)'
  <2>1. /\ \A v \in Worker \ {w} : pc'[r][v] = pc[r][v] /\ todo'[r][v] = todo[r][v]
        /\ pc'[r][w] = l /\ todo'[r][w] = S
    BY <1>4 DEF Moved
  <2>2. Held(r)' = Held(r)
    BY <1>1, <2>1 DEF Held, Holding
  <2>3. FetchOK(r)'
    BY <1>2, <1>3, <1>4, <2>1 DEF FetchOK, Fetching
  <2> QED BY <1>2, <1>3, <1>4, <2>1, <2>2, <2>3 DEF HandOK, Fetching, Holding
<1>5. CASE SelectFailed(r, w)
  <2>1. Moved(r, w, IF Retryable = {} THEN "dry" ELSE "requeue", Retryable) /\ run' = run
    BY <1>5, SelectEffect DEF SelectFailed
  <2>2. Retryable \in SUBSET Failed /\ Queued = {}
    BY <1>5 DEF Retryable, Failed, SelectFailed, FetchOK
  <2> QED BY <1>3, <1>4, <2>1, <2>2
<1>6. CASE Requeued(r, w)
  <2>1. Becomes(r, [run[r] EXCEPT !.fetching = FALSE]) /\ Moved(r, w, "next", {})
    BY <1>6, RequeuedEffect
  <2>2. /\ run'[r].batch = {} /\ run'[r].queue = {} /\ ~run'[r].fetching /\ ~run'[r].isDone
    BY <1>1, <1>3, <2>1 DEF Becomes, Runs
  <2> QED BY <1>4, <2>1, <2>2
<1>7. CASE Dry(r, w)
  <2>1. Becomes(r, [run[r] EXCEPT !.isDone = TRUE, !.fetching = FALSE]) /\ Moved(r, w, "next", {})
    BY <1>7, DryEffect
  <2>2. /\ run'[r].batch = {} /\ run'[r].queue = {} /\ ~run'[r].fetching
    BY <1>1, <1>3, <2>1 DEF Becomes, Runs
  <2>3. Queued = {}
    BY <1>7 DEF Dry, FetchOK
  <2> QED BY <1>4, <2>1, <2>2, <2>3
<1> QED BY <1>5, <1>6, <1>7

LEMMA MarkHands ==
  ASSUME TypeOK, NEW r \in Runner, NEW w \in Worker, FetchOK(r), HandOK(r), NEW t \in todo[r][w],
         MarkTile(r, w, t)
  PROVE  FetchOK(r)' /\ HandOK(r)'
<1>1. /\ t \in Tiles /\ pc[r][w] = "mark" /\ run' = run
      /\ Moved(r, w, "mark", todo[r][w] \ {t}) /\ tile' = [tile EXCEPT ![t] = "in_progress"]
  BY TileEffect DEF MarkTile, MarkInProgress
<1>2. /\ InProgress' = InProgress \union {t} /\ Queued' = Queued \ {t} /\ Failed' = Failed \ {t}
  BY <1>1, RowMoves
<1>3. /\ run[r].fetching /\ run[r].queue = {} /\ ~run[r].isDone
      /\ \A v \in Worker \ {w} : pc[r][v] \notin Fetching
  BY <1>1 DEF FetchOK, Fetching
<1>4. /\ \A v \in Worker \ {w} : pc'[r][v] = pc[r][v] /\ todo'[r][v] = todo[r][v]
      /\ pc'[r][w] = "mark" /\ todo'[r][w] = todo[r][w] \ {t}
  BY <1>1 DEF Moved
<1>5. Held(r)' = Held(r)
  BY <1>1, <1>4 DEF Held, Holding
<1>6. FetchOK(r)'
  BY <1>1, <1>2, <1>3, <1>4 DEF FetchOK, Fetching
<1>7. \A v \in Worker : pc'[r][v] \in Holding => v /= w
  BY <1>4 DEF Holding
<1> QED BY <1>1, <1>2, <1>3, <1>4, <1>5, <1>6, <1>7 DEF HandOK, Fetching

LEMMA RequeueHands ==
  ASSUME TypeOK, NEW r \in Runner, NEW w \in Worker, FetchOK(r), HandOK(r), NEW t \in todo[r][w],
         RequeueTile(r, w, t)
  PROVE  FetchOK(r)' /\ HandOK(r)'
<1>1. /\ t \in Tiles /\ pc[r][w] = "requeue" /\ run' = run
      /\ Moved(r, w, "requeue", todo[r][w] \ {t}) /\ tile' = [tile EXCEPT ![t] = "queued"]
  BY TileEffect DEF RequeueTile
<1>2. /\ InProgress' = InProgress \ {t} /\ Queued' = Queued \union {t} /\ Failed' = Failed \ {t}
  BY <1>1, RowMoves
<1>3. /\ run[r].fetching /\ run[r].queue = {} /\ ~run[r].isDone /\ run[r].batch = {}
      /\ \A v \in Worker \ {w} : pc[r][v] \notin Fetching
  BY <1>1 DEF FetchOK, Fetching
<1>4. /\ \A v \in Worker \ {w} : pc'[r][v] = pc[r][v] /\ todo'[r][v] = todo[r][v]
      /\ pc'[r][w] = "requeue" /\ todo'[r][w] = todo[r][w] \ {t}
  BY <1>1 DEF Moved
<1>5. Held(r)' = Held(r)
  BY <1>1, <1>4 DEF Held, Holding
<1>6. FetchOK(r)'
  BY <1>1, <1>2, <1>3, <1>4 DEF FetchOK, Fetching
<1>7. \A v \in Worker : pc'[r][v] \in Holding => v /= w
  BY <1>4 DEF Holding
<1>8. InProgress' = InProgress /\ todo[r][w] \ {t} \subseteq Failed'
  BY <1>1, <1>2, RowsApart DEF HandOK
<1> QED BY <1>1, <1>2, <1>3, <1>4, <1>5, <1>6, <1>7, <1>8 DEF HandOK, Fetching

\* _processTile gives its tile back with the row it writes.
LEMMA ProcessHands ==
  ASSUME TypeOK, NEW r \in Runner, NEW w \in Worker, FetchOK(r), HandOK(r), NEW t \in todo[r][w],
         Process(r, w, t)
  PROVE  FetchOK(r)' /\ HandOK(r)'
<1>0. t \in Tiles /\ run' = run /\ pc[r][w] \notin Fetching
  BY TileEffect DEF Process, Download, Fail, MarkDownloaded, IncrementJobProgress, MarkFailed, Fetching
<1>1. CASE Download(r, w, t) \/ Fail(r, w, t)
  <2>1. /\ pc[r][w] \in Holding /\ tile' = tile
        /\ \E l \in Holding : Moved(r, w, l, {t})
    BY <1>1, TileEffect DEF Download, Fail, Holding, dbVars
  <2>2. InProgress' = InProgress /\ Queued' = Queued /\ Failed' = Failed
    BY <2>1, RowsStay
  <2>3. /\ todo[r][w] = {t}
    BY <2>1 DEF HandOK
  <2>4. /\ \A v \in Worker \ {w} : pc'[r][v] = pc[r][v]
        /\ \A v \in Worker : todo'[r][v] = todo[r][v]
        /\ pc'[r][w] \in Holding
    BY <2>1, <2>3 DEF Moved
  <2>5. Held(r)' = Held(r)
    BY <2>1, <2>4 DEF Held
  <2>6. \A v \in Worker : (pc'[r][v] \in Holding <=> pc[r][v] \in Holding)
    BY <2>1, <2>4
  <2>7. \A v \in Worker : pc'[r][v] \in Fetching => pc'[r][v] = pc[r][v]
    BY <2>4 DEF Holding, Fetching
  <2>8. FetchOK(r)'
    BY <1>0, <2>2, <2>7 DEF FetchOK, Fetching
  <2> QED BY <1>0, <2>2, <2>4, <2>5, <2>6, <2>7, <2>8 DEF HandOK, Fetching
<1>2. CASE IncrementJobProgress(r, w, t)
  <2>1. pc[r][w] = "count" /\ tile' = tile /\ Moved(r, w, "next", {})
    BY <1>2, TileEffect DEF IncrementJobProgress
  <2>2. InProgress' = InProgress /\ Queued' = Queued /\ Failed' = Failed
    BY <2>1, RowsStay
  <2>3. Held(r)' = Held(r)
    BY <2>1 DEF Held, Moved, Holding
  <2>4. /\ \A v \in Worker \ {w} : pc'[r][v] = pc[r][v] /\ todo'[r][v] = todo[r][v]
        /\ pc'[r][w] = "next"
    BY <2>1 DEF Moved
  <2>5. FetchOK(r)'
    BY <1>0, <2>2, <2>4 DEF FetchOK, Fetching
  <2>6. \A v \in Worker : pc'[r][v] \in Holding => v /= w
    BY <2>4 DEF Holding
  <2> QED BY <1>0, <2>2, <2>3, <2>4, <2>5, <2>6 DEF HandOK
<1>3. CASE MarkDownloaded(r, w, t) \/ MarkFailed(r, w, t)
  <2>1. /\ pc[r][w] \in Holding
        /\ \E x \in {"downloaded", "failed"} : tile' = [tile EXCEPT ![t] = x]
        /\ \E l \in {"count", "next"}, S \in {{t}, {}} : Moved(r, w, l, S)
    BY <1>3, TileEffect DEF MarkDownloaded, MarkFailed, Holding
  <2>2. /\ InProgress' = InProgress \ {t} /\ Queued' = Queued \ {t} /\ Failed \ {t} \subseteq Failed'
    BY <1>0, <2>1, RowMoves
  <2>3. todo[r][w] = {t} /\ t \in InProgress /\ t \in Held(r)
    BY <1>0, <2>1 DEF HandOK, Held
  <2>4. Queued' = Queued /\ Failed \subseteq Failed' /\ t \notin run[r].batch \union run[r].queue
    BY <2>2, <2>3, RowsApart DEF HandOK
  <2>5. /\ \A v \in Worker \ {w} : pc'[r][v] = pc[r][v] /\ todo'[r][v] = todo[r][v]
        /\ pc'[r][w] \in {"count", "next"}
    BY <2>1 DEF Moved
  <2>6. \A v \in Worker \ {w} : pc[r][v] \in Holding => t \notin todo[r][v]
    BY <2>1, <2>3 DEF HandOK
  <2>7. Held(r)' = Held(r) \ {t}
    BY <2>3, <2>5, <2>6 DEF Held, Holding
  <2>8. FetchOK(r)'
    BY <1>0, <2>4, <2>5 DEF FetchOK, Fetching
  <2>9. \A v \in Worker : pc'[r][v] \in Holding => v /= w
    BY <2>5 DEF Holding
  <2>10. \A v \in Worker : pc'[r][v] \in Holding => \E u \in InProgress' : todo'[r][v] = {u}
    BY <2>2, <2>5, <2>6, <2>9 DEF HandOK
  <2> QED BY <1>0, <2>2, <2>3, <2>4, <2>5, <2>6, <2>7, <2>8, <2>9, <2>10 DEF HandOK
<1> QED BY <1>1, <1>2, <1>3 DEF Process

LEMMA WorkHands ==
  ASSUME TypeOK, NEW r \in Runner, NEW w \in Worker, FetchOK(r), HandOK(r), Work(r, w)
  PROVE  FetchOK(r)' /\ HandOK(r)'
  BY StopHands, TakeHands, FetchHands, AddBatchHands, RefillHands, MarkHands, RequeueHands,
     ProcessHands DEF Work
----------------------------------------------------------------------------
(* Nothing is counted twice.                                                 *)

LEMMA FiniteSets ==
  /\ IsFiniteSet(Settled) /\ Cardinality(Settled) \in Nat
  /\ IsFiniteSet(Counting) /\ Cardinality(Counting) \in Nat
<1>1. Settled \subseteq Tiles /\ Counting \subseteq Runner \X Worker
  BY DEF Settled, Counting
<1>2. IsFiniteSet(Runner)
  BY PrefetchAssumption, FS_Interval DEF Runner
<1>3. IsFiniteSet(Runner \X Worker)
  BY <1>2, PrefetchAssumption, FS_Product
<1> QED BY <1>1, <1>3, PrefetchAssumption, FS_Subset, FS_CardinalityType

\* A worker starts to count its tile, does, or does something else.
LEMMA CountingMoves ==
  ASSUME NEW r \in Runner, NEW w \in Worker, NEW l \in Labels, NEW S \in SUBSET Tiles,
         Moved(r, w, l, S)
  PROVE  Counting' = IF l = "count" THEN Counting \union {<<r, w>>} ELSE Counting \ {<<r, w>>}
<1>1. \A q \in Runner, v \in Worker : <<q, v>> /= <<r, w>> => pc'[q][v] = pc[q][v]
  BY DEF Moved
<1>2. pc'[r][w] = l
  BY DEF Moved
<1> QED BY <1>1, <1>2 DEF Counting

LEMMA ProgressStays ==
  ASSUME ProgressOK, UNCHANGED tilesDone, Counting' = Counting, Settled' = Settled
  PROVE  ProgressOK'
  BY DEF ProgressOK

LEMMA WorkProgress ==
  ASSUME TypeOK, NEW r \in Runner, NEW w \in Worker, HandOK(r), ProgressOK,
         Work(r, w)
  PROVE  ProgressOK'
<1>0. tilesDone \in Nat
  BY DEF TypeOK
\* A tile is settled, and its worker is about to count it.
<1>1. ASSUME NEW t \in Tiles, t \in InProgress, NEW x \in {"downloaded", "skipped"},
             tile' = [tile EXCEPT ![t] = x], UNCHANGED tilesDone,
             pc[r][w] /= "count", Moved(r, w, "count", {t})
      PROVE  ProgressOK'
  <2>1. Settled' = Settled \union {t} /\ t \notin Settled
    BY <1>1, RowMoves, RowsApart
  <2>2. Counting' = Counting \union {<<r, w>>} /\ <<r, w>> \notin Counting
    BY <1>1, CountingMoves DEF Counting, Labels
  <2>3. Cardinality(Settled') = Cardinality(Settled) + 1
    BY <2>1, FiniteSets, FS_AddElement
  <2>4. Cardinality(Counting') = Cardinality(Counting) + 1
    BY <2>2, FiniteSets, FS_AddElement
  <2> QED BY <1>0, <1>1, <2>3, <2>4, FiniteSets DEF ProgressOK
\* Any other row is written, or none.
<1>2. ASSUME Settled' = Settled, UNCHANGED tilesDone, pc[r][w] /= "count",
             \E l \in Labels \ {"count"}, S \in SUBSET Tiles : Moved(r, w, l, S)
      PROVE  ProgressOK'
  <2>1. Counting' = Counting
    BY <1>2, CountingMoves DEF Counting
  <2> QED BY <1>2, <2>1, ProgressStays
<1>3. ASSUME UNCHANGED <<tile, tilesDone>>, pc[r][w] /= "count", pc'[r][w] /= "count"
      PROVE  ProgressOK'
  <2>1. PICK l \in Labels, S \in SUBSET Tiles : Moved(r, w, l, S)
    BY WorkIsSteady DEF Steady
  <2>2. l /= "count"
    BY <1>3, <2>1 DEF Moved
  <2> QED BY <1>2, <1>3, <2>1, <2>2, RowsStay
<1>4. ASSUME NEW t \in Tiles \ Settled, NEW x, x \notin {"downloaded", "skipped"},
             tile' = [tile EXCEPT ![t] = x], UNCHANGED tilesDone,
             pc[r][w] /= "count", pc'[r][w] /= "count"
      PROVE  ProgressOK'
  <2>1. PICK l \in Labels, S \in SUBSET Tiles : Moved(r, w, l, S)
    BY WorkIsSteady DEF Steady
  <2>2. l /= "count"
    BY <1>4, <2>1 DEF Moved
  <2>3. Settled' = Settled \ {t}
    BY <1>4, RowMoves
  <2>4. Settled' = Settled
    BY <1>4, <2>3
  <2> QED BY <1>2, <1>4, <2>1, <2>2, <2>4
<1>5. ASSUME NEW t \in run[r].queue, Take(r, w, t) PROVE ProgressOK'
  <2>1. t \in InProgress /\ t \in Tiles /\ t \notin Settled /\ UNCHANGED tilesDone /\ pc[r][w] = "next"
    BY <1>5, RowsApart, TakeEffect DEF HandOK, Take
  <2>2. CASE tile' = [tile EXCEPT ![t] = "skipped"] /\ Moved(r, w, "count", {t})
    BY <1>1, <2>1, <2>2
  <2>3. CASE MarkInProgress(t) /\ Moved(r, w, "get", {t})
    BY <1>4, <2>1, <2>3 DEF MarkInProgress, Moved
  <2> QED BY <1>5, <2>2, <2>3, TakeEffect
<1>6. CASE Stop(r, w) \/ Fetch(r, w) \/ AddBatch(r, w) \/ SelectFailed(r, w) \/ Requeued(r, w) \/ Dry(r, w)
  <2>1. UNCHANGED <<tile, tilesDone>> /\ pc[r][w] /= "count"
    BY <1>6, SMTT(30) DEF Stop, Fetch, AddBatch, SelectFailed, Requeued, Dry, dbVars
  <2>2. pc'[r][w] /= "count"
    BY <1>6, StopEffect, FetchEffect, AddBatchEffect, SelectEffect, RequeuedEffect, DryEffect, ZenonT(40) DEF Moved
  <2> QED BY <1>3, <2>1, <2>2
<1>7. ASSUME NEW t \in todo[r][w], MarkTile(r, w, t) PROVE ProgressOK'
  <2>1. /\ t \in Tiles \ Settled /\ tile' = [tile EXCEPT ![t] = "in_progress"]
        /\ UNCHANGED tilesDone /\ pc[r][w] = "mark" /\ pc'[r][w] = "mark"
    <3>1. PICK S \in SUBSET Tiles : Moved(r, w, "mark", S)
      BY <1>7, TileEffect
    <3>2. pc[r][w] = "mark" /\ pc'[r][w] = "mark"
      BY <1>7, <3>1 DEF MarkTile, Moved
    <3>3. tile' = [tile EXCEPT ![t] = "in_progress"] /\ UNCHANGED tilesDone
      BY <1>7 DEF MarkTile, MarkInProgress
    <3>4. t \in Queued \union InProgress
      BY <1>7, <3>2 DEF HandOK
    <3>5. t \in Tiles \ Settled
      BY <1>7, <3>4, TileEffect, RowsApart, Zenon
    <3> QED BY <3>2, <3>3, <3>5
  <2> QED BY <1>4, <2>1
<1>8. ASSUME NEW t \in todo[r][w], RequeueTile(r, w, t) PROVE ProgressOK'
  <2>1. /\ t \in Tiles \ Settled /\ tile' = [tile EXCEPT ![t] = "queued"]
        /\ UNCHANGED tilesDone /\ pc[r][w] = "requeue" /\ pc'[r][w] = "requeue"
    BY <1>8, TileEffect, RowsApart DEF RequeueTile, HandOK, Moved
  <2> QED BY <1>4, <2>1
<1>9. ASSUME NEW t \in todo[r][w], Download(r, w, t) \/ Fail(r, w, t) PROVE ProgressOK'
  <2>1. UNCHANGED <<tile, tilesDone>> /\ pc[r][w] = "get" /\ pc'[r][w] \in {"saved", "failed"}
    BY <1>9, TileEffect DEF Download, Fail, dbVars, Moved
  <2> QED BY <1>3, <2>1
<1>10. ASSUME NEW t \in todo[r][w], MarkDownloaded(r, w, t) PROVE ProgressOK'
  <2>1. /\ t \in InProgress /\ t \in Tiles /\ tile' = [tile EXCEPT ![t] = "downloaded"]
        /\ UNCHANGED tilesDone /\ pc[r][w] = "saved" /\ Moved(r, w, "count", {t})
    BY <1>10, TileEffect DEF MarkDownloaded, HandOK, Holding
  <2> QED BY <1>1, <2>1
<1>11. ASSUME NEW t \in todo[r][w], MarkFailed(r, w, t) PROVE ProgressOK'
  <2>1. /\ t \in Tiles /\ tile' = [tile EXCEPT ![t] = "failed"]
        /\ UNCHANGED tilesDone /\ pc[r][w] = "failed" /\ Moved(r, w, "next", {})
    BY <1>11, TileEffect DEF MarkFailed
  <2>2. t \in InProgress
    BY <2>1 DEF HandOK, Holding
  <2>3. t \notin Settled /\ pc'[r][w] = "next"
    BY <2>1, <2>2, RowsApart DEF Moved
  <2> QED BY <1>4, <2>1, <2>3
\* The tile is counted.
<1>12. ASSUME NEW t \in todo[r][w], IncrementJobProgress(r, w, t) PROVE ProgressOK'
  <2>1. /\ tilesDone' = tilesDone + 1 /\ tile' = tile /\ pc[r][w] = "count"
        /\ Moved(r, w, "next", {})
    BY <1>12, TileEffect DEF IncrementJobProgress
  <2>2. Counting' = Counting \ {<<r, w>>} /\ <<r, w>> \in Counting
    BY <2>1, CountingMoves DEF Counting, Labels
  <2>3. Cardinality(Counting') = Cardinality(Counting) - 1
    BY <2>2, FiniteSets, FS_RemoveElement
  <2> QED BY <1>0, <2>1, <2>3, FiniteSets, RowsStay DEF ProgressOK
<1> QED BY <1>5, <1>6, <1>7, <1>8, <1>9, <1>10, <1>11, <1>12 DEF Work, Process

----------------------------------------------------------------------------
(* The whole invariant.                                                      *)

\* A step outside the workers, seen from the tiles: the runner that works has
\* what it had, or is new and finds no tile in progress, or there is none.
LEMMA OtherHands ==
  ASSUME TypeOK, JobOK, Tidy, ~meddled', [Next]_vars,
         \A r \in Runner, w \in Worker : ~Work(r, w)
  PROVE  /\ \A r \in Working' : FetchOK(r)' /\ HandOK(r)'
         /\ \A r, q \in Working' : r = q
         /\ Settled' = Settled /\ tilesDone' = tilesDone /\ Counting' \subseteq Counting
<1> USE DEF Tidy
<1>1. CASE CreateJob \/ Show \/ RecoverSelect \/ RecoverStatus \/ Resume \/ UNCHANGED vars
  <2>1. UNCHANGED <<tile, tilesDone, run, pc, todo>> /\ Working' = Working
    BY <1>1, RunnersStay DEF CreateJob, Show, RecoverSelect, RecoverStatus, Resume, vars, dbVars
  <2> QED BY <2>1, HandsStay, RowsStay DEF Working, Counting
<1>2. CASE EnqueueTiles \/ ResumeReset \/ RecoverReset
  <2>1. Working' = {} /\ UNCHANGED <<tilesDone, run, pc>>
    <3>1. CASE EnqueueTiles
      BY <3>1, RunnersStay, PrefetchAssumption DEF EnqueueTiles, Meddling
    <3>2. CASE ResumeReset \/ RecoverReset
      BY <3>2, ResetWhenIdle
    <3> QED BY <1>2, <3>1, <3>2
  <2>2. Settled' = Settled
    <3>1. CASE EnqueueTiles
      BY <3>1, PrefetchAssumption DEF EnqueueTiles, Settled
    <3>2. CASE ResumeReset \/ RecoverReset
      BY <3>2 DEF ResumeReset, RecoverReset, ResetInProgress, Settled
    <3> QED BY <1>2, <3>1, <3>2
  <2> QED BY <2>1, <2>2 DEF Counting
<1>3. CASE JobStarted \/ ResumeStart \/ RecoverStart
  <2>1. PICK r \in Runner : Started(r) /\ Working' = {r} /\ run'[r] = Fresh
    BY <1>3, StartWhenIdle
  <2>2. UNCHANGED dbVars
    BY <1>3, StartWhenIdle
  <2>3. InProgress = {}
    BY <1>3, PrefetchAssumption DEF JobStarted, ResumeStart, RecoverStart, InProgress
  <2>4. InProgress' = {} /\ Settled' = Settled
    BY <2>2, <2>3, RowsStay DEF dbVars
  <2>5. \A w \in Worker : pc'[r][w] = "next"
    BY <2>1 DEF Started
  <2>6. Held(r)' = {}
    BY <2>5 DEF Held, Holding
  <2>7. FetchOK(r)' /\ HandOK(r)'
    BY <2>1, <2>4, <2>5, <2>6, FreshRuns DEF FetchOK, HandOK, Fetching, Holding
  <2>8. Counting' \subseteq Counting
    BY <2>1 DEF Started, Counting
  <2> QED BY <2>1, <2>2, <2>4, <2>7, <2>8 DEF dbVars
<1>4. CASE Pause \/ Cancel
  <2>1. UNCHANGED <<tile, tilesDone, pc, todo>> /\ Working' = Working
    BY <1>4, FlagEffect DEF Pause, Cancel
  <2> QED BY <1>4, <2>1, FlagEffect, HandsStay, RowsStay DEF Working, Counting
<1>5. ASSUME NEW r \in Runner, Finish(r) \/ OnComplete(r)
      PROVE  /\ \A q \in Working' : FetchOK(q)' /\ HandOK(q)'
             /\ \A p, q \in Working' : p = q
             /\ Settled' = Settled /\ tilesDone' = tilesDone /\ Counting' \subseteq Counting
  <2>1. UNCHANGED <<tile, tilesDone, pc, todo>> /\ r \in Working
    BY <1>5 DEF Finish, OnComplete, dbVars, Working
  <2>2. Settled' = Settled /\ Counting' = Counting
    BY <2>1, RowsStay DEF Counting
  <2>3. CASE Becomes(r, [run[r] EXCEPT !.phase = "ending"]) /\ Working' = Working
    <3>1. /\ run'[r].isDone = run[r].isDone /\ run'[r].fetching = run[r].fetching
          /\ run'[r].batch = run[r].batch /\ run'[r].queue = run[r].queue
      BY <2>3 DEF Becomes, Runs, TypeOK
    <3>2. \A q \in Working' : q = r
      BY <2>1, <2>3
    <3> QED BY <2>1, <2>2, <3>1, <3>2, HandsStay
  <2>4. CASE Working' = Working \ {r}
    <3>1. Working' = {}
      BY <2>1, <2>4
    <3> QED BY <2>1, <2>2, <3>1
  <2> QED BY <1>5, <2>3, <2>4, FinishEffect
<1>6. CASE Crash
  <2>1. Working' = {} /\ \A q \in Runner, w \in Worker : pc'[q][w] = "done"
    BY <1>6, CrashEffect
  <2>2. Counting' = {}
    BY <2>1 DEF Counting
  <2>3. UNCHANGED <<tile, tilesDone>>
    BY <1>6 DEF Crash, dbVars
  <2> QED BY <2>1, <2>2, <2>3, RowsStay
<1> QED BY <1>1, <1>2, <1>3, <1>4, <1>5, <1>6 DEF Next, Service, User

\* A job becomes completed when its runner has nothing left.
LEMMA NextSettled ==
  ASSUME TypeOK, JobOK, Tidy, ~meddled', [Next]_vars
  PROVE  /\ status' = "completed" => Queued' = {} /\ InProgress' = {}
         /\ \A r \in Working' : run'[r].phase = "working" => status' /= "completed"
<1> DEFINE Goal == /\ status' = "completed" => Queued' = {} /\ InProgress' = {}
                   /\ \A r \in Working' : run'[r].phase = "working" => status' /= "completed"
<1> USE DEF Tidy
<1>1. ASSUME UNCHANGED tile, status' = "completed" => status = "completed",
             \A r \in Working' : r \in Working /\ run'[r].phase = run[r].phase PROVE Goal
  BY <1>1, RowsStay
<1>2. ASSUME status' /= "completed" PROVE Goal
  BY <1>2
<1>3. CASE CreateJob \/ Show \/ RecoverSelect \/ RecoverStatus \/ Resume \/ UNCHANGED vars
  <2>1. UNCHANGED <<tile, run>> /\ Working' = Working /\ status' \in {status, "running"}
    BY <1>3, RunnersStay DEF CreateJob, Show, RecoverSelect, RecoverStatus, Resume, vars, dbVars
  <2> QED BY <1>1, <2>1
<1>4. CASE Pause \/ Cancel
  BY <1>2, <1>4 DEF Pause, Cancel
<1>5. CASE Crash
  <2>1. UNCHANGED <<tile, status>> /\ Working' = {}
    BY <1>5, CrashEffect DEF Crash, dbVars
  <2> QED BY <1>1, <2>1
<1>6. CASE JobStarted \/ ResumeStart \/ RecoverStart
  BY <1>2, <1>6, StartWhenIdle DEF dbVars
<1>7. CASE ResumeReset \/ RecoverReset
  BY <1>2, <1>7, ResetWhenIdle
<1>8. CASE EnqueueTiles
  BY <1>2, <1>8, PrefetchAssumption DEF EnqueueTiles, Meddling
<1>9. ASSUME NEW r \in Runner, Finish(r) \/ OnComplete(r) PROVE Goal
  <2>1. UNCHANGED tile /\ r \in Working
    BY <1>9 DEF Finish, OnComplete, dbVars, Working
  <2>2. CASE /\ Finish(r) /\ Completes(r)
             /\ Becomes(r, [run[r] EXCEPT !.phase = "ending"]) /\ Working' = Working
    <3>1. run[r].isDone /\ \A w \in Worker : pc[r][w] = "done"
      BY <2>2 DEF Finish, Completes
    <3>2. Queued = {} /\ run[r].queue = {} /\ run[r].batch = {} /\ Held(r) = {}
      BY <2>1, <3>1 DEF FetchOK, TypeOK, Runs, Held, Holding
    <3>3. InProgress = {}
      BY <2>1, <3>2 DEF HandOK
    <3>4. run'[r].phase = "ending" /\ \A q \in Working' : q = r
      BY <2>1, <2>2 DEF Becomes, TypeOK, Runs
    <3> QED BY <2>1, <3>2, <3>3, <3>4, RowsStay
  <2>3. CASE UNCHANGED status /\ Becomes(r, Gone) /\ Working' = Working \ {r}
    <3>1. \A q \in Working' : q \in Working /\ run'[q] = run[q]
      BY <2>3 DEF Becomes, Working
    <3> QED BY <1>1, <2>1, <2>3, <3>1
  <2> QED BY <1>9, <2>2, <2>3, FinishEffect
<1>10. ASSUME NEW r \in Runner, NEW w \in Worker, Work(r, w) PROVE Goal
  <2>1. r \in Working /\ run[r].phase = "working" /\ UNCHANGED status
    BY <1>10, WorkIsSteady, SteadyWorking DEF Steady
  <2> QED BY <1>2, <2>1
<1> QED BY <1>3, <1>4, <1>5, <1>6, <1>7, <1>8, <1>9, <1>10 DEF Next, Service, User

\* What a runner that is about to be started will find.
LEMMA NextIdle ==
  ASSUME TypeOK, JobOK, Tidy, ~meddled', [Next]_vars
  PROVE  /\ starting' /= 0 => \A t \in Tiles : tile'[t] \in {"none", "queued"}
         /\ resuming' = "start" \/ recovery' \in {"status", "start"} => InProgress' = {}
<1> DEFINE Goal == /\ starting' /= 0 => \A t \in Tiles : tile'[t] \in {"none", "queued"}
                   /\ resuming' = "start" \/ recovery' \in {"status", "start"} => InProgress' = {}
<1> USE DEF Tidy
<1>1. CASE CreateJob
  <2>1. (\A t \in Tiles : tile[t] = "none") /\ tile' = tile
    BY <1>1 DEF CreateJob, JobOK
  <2> QED BY <2>1 DEF InProgress
<1>2. CASE EnqueueTiles
  <2>1. \A t \in Tiles : tile'[t] \in {"none", "queued"}
    BY <1>2, PrefetchAssumption DEF EnqueueTiles
  <2> QED BY <2>1 DEF InProgress
<1>3. CASE ResumeReset \/ RecoverReset
  <2>1. ResetInProgress /\ starting' = starting
    BY <1>3, ResetWhenIdle
  <2>2. InProgress' = {} /\ (starting' /= 0 => \A t \in Tiles : tile'[t] \in {"none", "queued"})
    BY <2>1 DEF ResetInProgress, InProgress
  <2> QED BY <2>2
<1>4. CASE Show \/ RecoverSelect \/ RecoverStatus \/ Resume \/ Pause \/ Cancel \/ Crash \/ UNCHANGED vars
  <2>1. UNCHANGED tile /\ InProgress' = InProgress
    BY <1>4, RowsStay
    DEF Show, RecoverSelect, RecoverStatus, Resume, Pause, Cancel, Crash, vars, dbVars
  <2>2. /\ starting' /= 0 => starting /= 0
        /\ resuming' = "start" => resuming = "start"
        /\ recovery' \in {"status", "start"} => recovery \in {"status", "start"}
    BY <1>4
    DEF Show, RecoverSelect, RecoverStatus, Resume, Pause, Cancel, Crash, vars, dbVars, uiVars
  <2> QED BY <2>1, <2>2
<1>5. CASE JobStarted \/ ResumeStart \/ RecoverStart
  <2>1. UNCHANGED dbVars /\ starting' \in {0, starting}
    BY <1>5, StartWhenIdle
  <2>2. InProgress = {}
    BY <1>5, PrefetchAssumption DEF JobStarted, ResumeStart, RecoverStart, InProgress
  <2> QED BY <2>1, <2>2, RowsStay DEF dbVars
<1>6. ASSUME NEW r \in Runner, Finish(r) \/ OnComplete(r) PROVE Goal
  <2>1. UNCHANGED <<tile, starting, resuming, recovery>>
    BY <1>6 DEF Finish, OnComplete, dbVars, uiVars
  <2> QED BY <2>1, RowsStay
<1>7. ASSUME NEW r \in Runner, NEW w \in Worker, Work(r, w) PROVE Goal
  <2>1. r \in Working /\ UNCHANGED <<starting, resuming, recovery>>
    BY <1>7, WorkIsSteady, SteadyWorking DEF Steady, uiVars
  <2> QED BY <2>1 DEF Meddling
<1> QED BY <1>1, <1>2, <1>3, <1>4, <1>5, <1>6, <1>7 DEF Next, Service, User

LEMMA NextTiles == TypeOK /\ JobOK /\ TileOK /\ [Next]_vars => TileOK'
<1> SUFFICES ASSUME TypeOK, JobOK, TileOK, [Next]_vars, ~meddled' PROVE Tidy'
  BY DEF TileOK
<1>0. Tidy
  BY HistoryStays DEF TileOK
<1>1. ~Meddling'
  BY <1>0, NextMeddling DEF Tidy
<1>2. /\ starting' /= 0 => \A t \in Tiles : tile'[t] \in {"none", "queued"}
      /\ resuming' = "start" \/ recovery' \in {"status", "start"} => InProgress' = {}
  BY <1>0, NextIdle
<1>3. /\ status' = "completed" => Queued' = {} /\ InProgress' = {}
      /\ \A r \in Working' : run'[r].phase = "working" => status' /= "completed"
  BY <1>0, NextSettled
<1>4. /\ \A r \in Working' : FetchOK(r)' /\ HandOK(r)'
      /\ \A r, q \in Working' : r = q
      /\ ProgressOK'
  <2>1. CASE \A r \in Runner, w \in Worker : ~Work(r, w)
    <3>1. /\ \A r \in Working' : FetchOK(r)' /\ HandOK(r)'
          /\ \A r, q \in Working' : r = q
          /\ Settled' = Settled /\ tilesDone' = tilesDone /\ Counting' \subseteq Counting
      BY <1>0, <2>1, OtherHands
    <3>2. /\ Cardinality(Counting') \in Nat /\ Cardinality(Counting') <= Cardinality(Counting)
          /\ Cardinality(Counting) \in Nat
      BY <3>1, FiniteSets, FS_Subset, FS_CardinalityType
    <3>3. tilesDone \in Nat /\ Cardinality(Settled) \in Nat
      BY FiniteSets DEF TypeOK
    <3>4. ProgressOK'
      BY <1>0, <3>1, <3>2, <3>3 DEF Tidy, ProgressOK
    <3> QED BY <3>1, <3>4
  <2>2. ASSUME NEW r \in Runner, NEW w \in Worker, Work(r, w)
        PROVE  /\ \A q \in Working' : FetchOK(q)' /\ HandOK(q)'
               /\ \A p, q \in Working' : p = q
               /\ ProgressOK'
    <3>1. Working' = Working /\ r \in Working
      BY <2>2, WorkIsSteady, SteadyWorking
    <3>2. FetchOK(r) /\ HandOK(r) /\ (\A q \in Working' : q = r) /\ ProgressOK
      BY <1>0, <3>1 DEF Tidy
    <3> QED BY <2>2, <3>2, WorkHands, WorkProgress
  <2> QED BY <2>1, <2>2
<1> QED BY <1>1, <1>2, <1>3, <1>4 DEF Tidy

LEMMA InitInv == Init => IInv
<1> SUFFICES ASSUME Init PROVE IInv
  OBVIOUS
<1>1. \A r \in Runner : run[r].phase = "gone" /\ \A w \in Worker : pc[r][w] = "done"
  BY FreshRuns DEF Init
<1>2. Working = {} /\ Settled = {} /\ Counting = {}
  BY <1>1 DEF Init, Working, Settled, Counting
<1>3. FilesOK
  BY <1>1, <1>2 DEF FilesOK, SettledHasFile
<1>4. JobOK /\ ServeOK /\ Alone
  BY <1>1, <1>2 DEF Init, JobOK, ServeOK, Alone, Quiet
<1>5. ProgressOK
  BY <1>2, FS_EmptySet DEF Init, ProgressOK
<1>6. Tidy
  BY <1>2, <1>5 DEF Init, Tidy, Meddling
<1> QED BY <1>3, <1>4, <1>6, InitType DEF IInv, CancelOK, TileOK

LEMMA NextInv == IInv /\ [Next]_vars => IInv'
  BY NextType, NextFiles, NextJob, NextServe, NextCancel, NextTiles DEF IInv

LEMMA Invariance == Spec => []IInv
  BY InitInv, NextInv, PTL DEF Spec

----------------------------------------------------------------------------

\* The types of the tables, the runners and the workers hold throughout.
THEOREM TypeCorrect == Spec => []TypeOK
  BY InitType, NextType, PTL DEF Spec

\* What the tables call available offline is on disk, whatever the user taps and
\* whenever, and whenever the process dies.
THEOREM FilesBehindTables == Spec => []SettledHasFile
<1>1. IInv => SettledHasFile
  BY DEF IInv, FilesOK
<1> QED BY <1>1, Invariance, PTL

\* A cancelled job stays cancelled (TilesRepository.cancelJob), whatever its workers,
\* who have not left yet, still do, and when they leave, unless it was cancelled between
\* two statements of a resumption or of the recovery.
THEOREM CancelStays == Spec => CancelIsFinal
<1>1. IInv /\ [Next]_vars => [status = "cancelled" /\ ~crossed => status' = "cancelled"]_vars
  BY NextCancel DEF IInv
<1> QED BY <1>1, Invariance, PTL DEF Spec, CancelIsFinal

\* A running job has a runner, or is about to get one, for every order of taps, recoveries
\* and process deaths, unless the last start found a runner that was about to leave.
THEOREM JobsAreServed == Spec => []RunningHasRunner
<1>1. IInv => RunningHasRunner
  BY DEF IInv, ServeOK, RunningHasRunner, Serving, Working
<1> QED BY <1>1, Invariance, PTL

\* A completed job has seen to every tile it enqueued, while nobody was meddled with: a
\* runner that finds nothing queued completes the job only when the other workers are
\* through with theirs.
THEOREM CompletionIsComplete == Spec => []CompletedIsSettled
<1>1. IInv => CompletedIsSettled
  BY DEF IInv, TileOK, Tidy, CompletedIsSettled, Queued, InProgress
<1> QED BY <1>1, Invariance, PTL

\* No tile is counted twice, for however often the process dies between the row and the
\* counter, and however often the tile is reset, retried and taken again, unless it is
\* reset in the hands of a runner that still works.
THEOREM ProgressIsTrue == Spec => []ProgressNotOverstated
<1>1. IInv => ProgressNotOverstated
  BY DEF IInv, TileOK, Tidy, ProgressNotOverstated, ProgressOK
<1> QED BY <1>1, Invariance, PTL
=============================================================================
