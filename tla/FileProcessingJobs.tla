--------------------------- MODULE FileProcessingJobs ---------------------------
(***************************************************************************)
(* The file processing jobs of one ACP: FileProcessingJobsService keeps    *)
(* their rows in the database and, in memory, a runner and a ReplaySubject *)
(* per job; the file page starts a job, follows its event stream and falls *)
(* back to polling the row.                                                *)
(*                                                                         *)
(* A job's work (synchronising the index, validating, zipping) appears by  *)
(* its phases.  Saving the row and emitting its snapshot is one step, as   *)
(* is the final save with the stream's completion: no event of another     *)
(* connection is handled between them.                                     *)
(***************************************************************************)
EXTENDS Naturals, Sequences, FiniteSets

CONSTANTS
    Managers,       \* file pages that start and follow jobs
    Jobs,           \* job ids; bound: each is used once
    Kinds,          \* of "archive", "upload" and "overwrite": the jobs started
    NoJob,          \* no row, no snapshot, no job
    Reading,        \* a read of the row is under way
    Faults          \* of "restart" and "database": what may go wrong

ASSUME KindsAssumption == Kinds \subseteq {"archive", "upload", "overwrite"}
ASSUME FaultsAssumption == Faults \subseteq {"restart", "database"}

\* The phases a job reports, by kind; "overwrite" is an upload with runCleanup.
PhasesOf(kind) ==
    CASE kind = "archive" -> <<"zip-files">>
      [] kind = "upload" -> <<"sync-index", "validate-files", "validate-semantic">>
      [] kind = "overwrite" -> <<"sync-index", "validate-files", "validate-semantic",
                                 "cleanup-overwrite">>

Phases == {"queued", "completed", "failed"}
            \cup UNION {{PhasesOf(k)[i] : i \in DOMAIN PhasesOf(k)} : k \in Kinds}

Active == {"pending", "running"}
Final == {"completed", "failed"}

Row == [kind : Kinds, status : Active \cup Final, phase : Phases,
        archive : BOOLEAN]

\* A job's stream: not created, open, or ended by complete() or error(); last is
\* the snapshot it replays; boot is bootstrapStream's read under way.
Stream == [state : {"none", "open", "completed", "errored"},
           last : Row \cup {NoJob}, boot : Row \cup {NoJob, Reading}]

ASSUME NoJobAssumption ==
    NoJob \notin Row \cup Jobs /\ Reading \notin Row /\ NoJob # Reading

NoStream == [state |-> "none", last |-> NoJob, boot |-> NoJob]

PagePCs == {"idle", "checked", "refused", "created", "streaming", "polling",
            "succeeded", "rejected"}

Page == [pc : PagePCs, kind : Kinds \cup {"none"}, job : Jobs \cup {NoJob}]

IdlePage == [pc |-> "idle", kind |-> "none", job |-> NoJob]

VARIABLES
    row,        \* acp_file_processing_jobs
    runner,     \* runningJobs: each job's runner and the phases it has begun
    stream,     \* streams
    page,       \* each manager's page
    archives    \* the jobs with a ZIP file on disk

vars == <<row, runner, stream, page, archives>>

\* runJob has not begun, waits for its row, or has begun phases.
NotRunning == <<"none">>
Fetching == <<"fetch">>
Runs(j) == runner[j] # NotRunning
Begun(j) == Len(runner[j]) - 1
Working(j) == Runs(j) /\ runner[j] # Fetching

TypeOK ==
    /\ row \in [Jobs -> Row \cup {NoJob}]
    /\ runner \in [Jobs -> Seq({"none", "fetch", "run"} \cup Phases)]
    /\ stream \in [Jobs -> Stream]
    /\ page \in [Managers -> Page]
    /\ archives \subseteq Jobs

Init ==
    /\ row = [j \in Jobs |-> NoJob]
    /\ runner = [j \in Jobs |-> NotRunning]
    /\ stream = [j \in Jobs |-> NoStream]
    /\ page = [m \in Managers |-> IdlePage]
    /\ archives = {}

-----------------------------------------------------------------------------
(* Streams. *)

\* ensureStream: a new stream starts with a read of the row.
Ensured(s) ==
    IF s.state = "none" THEN [s EXCEPT !.state = "open", !.boot = Reading] ELSE s

\* next(snapshot): an ended stream ignores it.
Emitted(s, r) ==
    LET e == Ensured(s)
    IN  IF e.state = "open" THEN [e EXCEPT !.last = r] ELSE e

\* Mutant: complete(), then next(snapshot), which is ignored.
CompletedFirst(s, r) ==
    LET e == Ensured(s)
    IN  IF e.state = "open" THEN [e EXCEPT !.state = "completed"] ELSE e

\* next(snapshot), then complete().
Completed(s, r) ==
    LET e == Emitted(s, r)
    IN  IF e.state = "open" THEN [e EXCEPT !.state = "completed"] ELSE e

\* persist: the row is saved and its snapshot emitted.
Persist(j, r) ==
    /\ row' = [row EXCEPT ![j] = r]
    /\ stream' = [stream EXCEPT ![j] = Emitted(@, r)]

\* The last persist of a run and the end of the stream.
PersistFinal(j, r) ==
    /\ row' = [row EXCEPT ![j] = r]
    /\ stream' = [stream EXCEPT ![j] = Completed(@, r)]
    /\ runner' = [runner EXCEPT ![j] = NotRunning]

BootRead(j) ==
    /\ stream[j].boot = Reading
    /\ stream' = [stream EXCEPT ![j].boot = row[j]]
    /\ UNCHANGED <<row, runner, page, archives>>

\* What was read is emitted, whatever has been emitted since.
BootEmit(j) ==
    /\ stream[j].boot \in Row
    /\ LET s == stream[j]
           e == IF s.boot.status \in Final THEN Completed(s, s.boot)
                ELSE Emitted(s, s.boot)
       IN  stream' = [stream EXCEPT ![j] = [e EXCEPT !.boot = NoJob]]
    /\ UNCHANGED <<row, runner, page, archives>>

BootFail(j) ==
    /\ "database" \in Faults
    /\ stream[j].boot = Reading
    /\ stream' = [stream EXCEPT ![j].boot = NoJob,
                    ![j].state = IF @ = "open" THEN "errored" ELSE @]
    /\ UNCHANGED <<row, runner, page, archives>>

-----------------------------------------------------------------------------
(* Creating a job. *)

ActiveJobs == {j \in Jobs : row[j] # NoJob /\ row[j].status \in Active}

\* ensureNoActiveJob reads the rows, without a lock.
CheckNoActiveJob(m) ==
    /\ page[m].pc = "idle"
    /\ \E kind \in Kinds :
         page' = [page EXCEPT ![m] =
           [pc |-> IF ActiveJobs = {} THEN "checked" ELSE "refused",
            kind |-> kind, job |-> NoJob]]
    /\ UNCHANGED <<row, runner, stream, archives>>

Create(m) ==
    /\ page[m].pc = "checked"
    /\ \E j \in Jobs :
         LET r == [kind |-> page[m].kind, status |-> "pending", phase |-> "queued",
                   archive |-> FALSE]
         IN  /\ row[j] = NoJob
             /\ Persist(j, r)
             /\ runner' = [runner EXCEPT ![j] = Fetching]
             /\ page' = [page EXCEPT ![m].pc = "created", ![m].job = j]
    /\ UNCHANGED archives

\* The files named are not all there, or the page is done with an outcome.
Forget(m) ==
    /\ page[m].pc \in {"checked", "refused", "succeeded", "rejected"}
    /\ page' = [page EXCEPT ![m] = IdlePage]
    /\ UNCHANGED <<row, runner, stream, archives>>

-----------------------------------------------------------------------------
(* Running a job. *)

Start(j) ==
    /\ runner[j] = Fetching
    /\ Persist(j, [row[j] EXCEPT !.status = "running"])
    /\ runner' = [runner EXCEPT ![j] = <<"run">>]
    /\ UNCHANGED <<page, archives>>

\* reporter.startPhase; progress within a phase is left out.
StartPhase(j) ==
    /\ Working(j)
    /\ Begun(j) < Len(PhasesOf(row[j].kind))
    /\ LET phase == PhasesOf(row[j].kind)[Begun(j) + 1]
       IN  /\ Persist(j, [row[j] EXCEPT !.phase = phase])
           /\ runner' = [runner EXCEPT ![j] = Append(@, phase)]
    /\ UNCHANGED <<page, archives>>

\* The ZIP file is written before the row says so.
WriteArchive(j) ==
    /\ Working(j)
    /\ row[j].kind = "archive"
    /\ row[j].phase = "zip-files"
    /\ j \notin archives
    /\ archives' = archives \cup {j}
    /\ UNCHANGED <<row, runner, stream, page>>

Outcome(j, status) ==
    [row[j] EXCEPT !.status = status, !.phase = status,
                   !.archive = (status = "completed" /\ row[j].kind = "archive")]

\* Mutant: nothing waits for the ZIP file.
CompleteBeforeArchive(j) ==
    /\ Working(j)
    /\ Begun(j) = Len(PhasesOf(row[j].kind))
    /\ PersistFinal(j, Outcome(j, "completed"))
    /\ UNCHANGED <<page, archives>>

\* Mutant: the run goes on after its outcome is saved.
CompleteAndGoOn(j) ==
    /\ Working(j)
    /\ Begun(j) = Len(PhasesOf(row[j].kind))
    /\ row[j].kind = "archive" => j \in archives
    /\ Persist(j, Outcome(j, "completed"))
    /\ UNCHANGED <<runner, page, archives>>

Complete(j) ==
    /\ Working(j)
    /\ Begun(j) = Len(PhasesOf(row[j].kind))
    /\ row[j].kind = "archive" => j \in archives
    /\ PersistFinal(j, Outcome(j, "completed"))
    /\ UNCHANGED <<page, archives>>

\* The work can throw at any step, the first save if the database fails.
MayFail(j) == Working(j) \/ (runner[j] = Fetching /\ "database" \in Faults)

\* Mutant: the stream is left open.
FailSilently(j) ==
    /\ MayFail(j)
    /\ row' = [row EXCEPT ![j] = Outcome(j, "failed")]
    /\ runner' = [runner EXCEPT ![j] = NotRunning]
    /\ UNCHANGED <<stream, page, archives>>

\* Mutant: the failure is emitted and not saved.
FailUnsaved(j) ==
    /\ MayFail(j)
    /\ stream' = [stream EXCEPT ![j] = Completed(@, Outcome(j, "failed"))]
    /\ runner' = [runner EXCEPT ![j] = NotRunning]
    /\ UNCHANGED <<row, page, archives>>

Fail(j) ==
    /\ MayFail(j)
    /\ PersistFinal(j, Outcome(j, "failed"))
    /\ UNCHANGED <<page, archives>>

\* Saving the failure fails too: the stream errs and the row stays active.
LoseOutcome(j) ==
    /\ "database" \in Faults
    /\ Runs(j)
    /\ runner' = [runner EXCEPT ![j] = NotRunning]
    /\ stream' = [stream EXCEPT ![j].state = IF @ = "open" THEN "errored" ELSE @]
    /\ UNCHANGED <<row, page, archives>>

-----------------------------------------------------------------------------
(* Following a job. *)

\* GET events: ensureJobExists, then streamJob.
Subscribe(m) ==
    /\ page[m].pc = "created"
    /\ stream' = [stream EXCEPT ![page[m].job] = Ensured(@)]
    /\ page' = [page EXCEPT ![m].pc = "streaming"]
    /\ UNCHANGED <<row, runner, archives>>

\* The page learns r; a final status settles it.
Learn(m, r) ==
    page' = [page EXCEPT ![m].pc =
               CASE r.status = "completed" -> "succeeded"
                 [] r.status = "failed" -> "rejected"
                 [] OTHER -> @]

Receive(m) ==
    /\ page[m].pc = "streaming"
    /\ stream[page[m].job].last \in Row
    /\ Learn(m, stream[page[m].job].last)
    /\ UNCHANGED <<row, runner, stream, archives>>

\* onerror: the page polls.
LeaveStream(m) ==
    /\ page[m].pc = "streaming"
    /\ page' = [page EXCEPT ![m].pc = "polling"]
    /\ UNCHANGED <<row, runner, stream, archives>>

\* The stream has ended, or the connection breaks.
StreamEnds(m) == LeaveStream(m) /\ stream[page[m].job].state # "open"
Disconnect(m) == LeaveStream(m)

Poll(m) ==
    /\ page[m].pc = "polling"
    /\ Learn(m, row[page[m].job])
    /\ UNCHANGED <<row, runner, stream, archives>>

\* The backend restarts: runners, streams and requests are gone, rows stay; pages
\* with a request under way get an error, others notice nothing or poll.
Restart ==
    /\ "restart" \in Faults
    /\ runner' = [j \in Jobs |-> NotRunning]
    /\ stream' = [j \in Jobs |-> NoStream]
    /\ \E cut \in SUBSET {m \in Managers : page[m].pc \in {"created", "streaming",
                                                         "polling"}} :
         page' = [m \in Managers |->
                    CASE page[m].pc = "checked" \/ m \in cut -> IdlePage
                      [] page[m].pc = "streaming" /\ m \notin cut
                           -> [page[m] EXCEPT !.pc = "polling"]
                      [] OTHER -> page[m]]
    /\ UNCHANGED <<row, archives>>

-----------------------------------------------------------------------------

Run(j) ==
    \/ Start(j) \/ StartPhase(j) \/ WriteArchive(j) \/ Complete(j) \/ Fail(j)

Follow(m) == Subscribe(m) \/ Receive(m) \/ StreamEnds(m) \/ Poll(m)

Next ==
    \/ \E j \in Jobs : Run(j) \/ LoseOutcome(j) \/ BootRead(j) \/ BootEmit(j)
                         \/ BootFail(j)
    \/ \E m \in Managers : \/ CheckNoActiveJob(m) \/ Create(m) \/ Forget(m)
                            \/ Follow(m) \/ Disconnect(m)
    \/ Restart

Spec == Init /\ [][Next]_vars

\* The event loop runs every promise that can go on, an open connection delivers
\* what the stream emits, and a page without one polls every second.
Fairness ==
    /\ \A j \in Jobs : WF_vars(Run(j)) /\ WF_vars(BootRead(j)) /\ WF_vars(BootEmit(j))
    /\ \A m \in Managers : WF_vars(Follow(m))

FairSpec == Spec /\ Fairness

-----------------------------------------------------------------------------
(* Properties. *)

\* A completed stream's last snapshot, which late subscribers get, is the outcome
\* in the row, although a slow bootstrap read may have emitted older ones.
EndedStreamsTell ==
    \A j \in Jobs : stream[j].state = "completed" =>
        /\ stream[j].last = row[j]
        /\ row[j].status \in Final

\* What a page has been told is what happened, however it heard of it, and a
\* successful download job has its ZIP file.
PagesTellTheOutcome ==
    \A m \in Managers :
      /\ page[m].pc = "succeeded" =>
           /\ row[page[m].job].status = "completed"
           /\ page[m].kind = "archive" => page[m].job \in archives
      /\ page[m].pc = "rejected" => row[page[m].job].status = "failed"

\* An outcome is final: no late progress report or second run touches the row.
OutcomeIsFinal ==
    [][\A j \in Jobs :
          row[j] # NoJob /\ row[j].status \in Final => row'[j] = row[j]]_vars

\* A row that says a job is under way which nothing runs any more.
Orphaned(j) == row[j] # NoJob /\ row[j].status \in Active /\ ~Runs(j)

\* Whoever has started a job learns how it ended, unless a restart broke the page's
\* request off or the run was lost with its outcome.
PagesLearnTheOutcome ==
    \A m \in Managers :
      page[m].pc = "created" ~>
        \/ page[m].pc \in {"succeeded", "rejected", "idle"}
        \/ page[m].job \in Jobs /\ Orphaned(page[m].job)

=============================================================================
