----------------------- MODULE FileProcessingJobsProofs -----------------------
(***************************************************************************)
(* Proofs about FileProcessingJobs: what streams and pages tell of a job   *)
(* is what its row says, and an outcome is final.                          *)
(*                                                                         *)
(* The inductive invariant relates a job's row to its runner (only an      *)
(* active job runs), to what its stream replays and to what a bootstrap    *)
(* read still holds (an outcome once read is the row's), and a page to the *)
(* row of the job it follows.                                              *)
(***************************************************************************)
EXTENDS FileProcessingJobs, TLAPS

\* r is a row with an outcome.
Ended(r) == r \in Row /\ r.status \in Final

JobFits(j) ==
    /\ Len(runner[j]) >= 1
    /\ Runs(j) => row[j] # NoJob /\ row[j].status \in Active
    /\ row[j] = NoJob => stream[j] = NoStream
    /\ Ended(stream[j].boot) => row[j] = stream[j].boot
    /\ Ended(stream[j].last) => row[j] = stream[j].last
    /\ stream[j].state = "completed" => Ended(row[j]) /\ stream[j].last = row[j]
    /\ row[j] # NoJob /\ row[j].status = "completed" /\ row[j].kind = "archive"
         => j \in archives

HasJob == {"created", "streaming", "polling", "succeeded", "rejected"}

PageFits(m) ==
    /\ page[m].pc = "checked" => page[m].kind \in Kinds
    /\ page[m].pc \in HasJob => /\ page[m].job \in Jobs
                                /\ row[page[m].job] # NoJob
                                /\ row[page[m].job].kind = page[m].kind
    /\ page[m].pc = "succeeded" => row[page[m].job].status = "completed"
    /\ page[m].pc = "rejected" => row[page[m].job].status = "failed"

Inv ==
    /\ TypeOK
    /\ \A j \in Jobs : JobFits(j)
    /\ \A m \in Managers : PageFits(m)

-----------------------------------------------------------------------------
(* Rows, phases and streams. *)

LEMMA PhasesType ==
    ASSUME NEW kind \in Kinds
    PROVE  /\ Len(PhasesOf(kind)) \in Nat
           /\ \A i \in 1..Len(PhasesOf(kind)) : PhasesOf(kind)[i] \in Phases
<1>1. DOMAIN PhasesOf(kind) = 1..Len(PhasesOf(kind)) /\ Len(PhasesOf(kind)) \in Nat
  <2>1. CASE kind = "archive"
    BY <2>1 DEF PhasesOf
  <2>2. CASE kind = "upload"
    BY <2>2 DEF PhasesOf
  <2>3. CASE kind = "overwrite"
    BY <2>3 DEF PhasesOf
  <2> QED BY <2>1, <2>2, <2>3, KindsAssumption
<1>2. \A i \in DOMAIN PhasesOf(kind) : PhasesOf(kind)[i] \in Phases
  BY DEF Phases
<1> QED BY <1>1, <1>2

\* What a row may become: the phases and statuses that are saved.
LEMMA RowType ==
    ASSUME NEW r \in Row
    PROVE  /\ r # NoJob /\ r # Reading
           /\ \A phase \in Phases : [r EXCEPT !.phase = phase] \in Row
           /\ [r EXCEPT !.status = "running"] \in Row
           /\ \A status \in Final, a \in BOOLEAN :
                [r EXCEPT !.status = status, !.phase = status, !.archive = a] \in Row
  BY NoJobAssumption DEF Row, Final, Active, Phases

LEMMA NoStreamType == NoStream \in Stream /\ ~Ended(NoJob) /\ ~Ended(Reading)
  BY NoJobAssumption DEF NoStream, Stream, Ended

\* A stream that is given a snapshot: an ended one ignores it.
LEMMA EmittedType ==
    ASSUME NEW s \in Stream, NEW r \in Row
    PROVE  /\ Emitted(s, r) \in Stream
           /\ Emitted(s, r).boot \in {s.boot, Reading}
           /\ s.state \in {"none", "open"} => Emitted(s, r).state = "open" /\ Emitted(s, r).last = r
           /\ s.state \notin {"none", "open"} => Emitted(s, r) = s
  BY DEF Emitted, Ensured, Stream

LEMMA CompletedType ==
    ASSUME NEW s \in Stream, NEW r \in Row
    PROVE  /\ Completed(s, r) \in Stream
           /\ Completed(s, r).boot \in {s.boot, Reading}
           /\ s.state \in {"none", "open"}
                => Completed(s, r).state = "completed" /\ Completed(s, r).last = r
           /\ s.state \notin {"none", "open"} => Completed(s, r) = s
<1> DEFINE e == Emitted(s, r)
<1>1. /\ e \in Stream /\ e.boot \in {s.boot, Reading}
      /\ s.state \in {"none", "open"} => e.state = "open" /\ e.last = r
      /\ s.state \notin {"none", "open"} => e = s
  BY EmittedType
<1>2. Completed(s, r) = IF e.state = "open" THEN [e EXCEPT !.state = "completed"] ELSE e
  BY DEF Completed
<1> HIDE DEF e
<1> QED BY <1>1, <1>2 DEF Stream

-----------------------------------------------------------------------------
(* What a step leaves alone. *)

LEMMA OtherJobs ==
    ASSUME Inv, NEW k \in Jobs,
           row'[k] = row[k], runner'[k] = runner[k], stream'[k] = stream[k],
           archives \subseteq archives'
    PROVE  JobFits(k)'
  BY DEF Inv, JobFits, Runs, Ended

\* Rows are kept, or go on under their kind until they have an outcome.
RowsGoOn ==
    \A k \in Jobs : row[k] # NoJob => /\ row'[k] # NoJob
                                      /\ row'[k].kind = row[k].kind
                                      /\ row[k].status \in Final => row'[k] = row[k]

LEMMA OtherPages ==
    ASSUME Inv, NEW m \in Managers, page'[m] = page[m], RowsGoOn
    PROVE  PageFits(m)'
<1>1. PageFits(m) /\ page[m].job \in Jobs \cup {NoJob}
  BY DEF Inv, TypeOK, Page
<1>2. page[m].pc \in HasJob =>
        /\ row'[page[m].job] # NoJob
        /\ row'[page[m].job].kind = row[page[m].job].kind
        /\ row[page[m].job].status \in Final => row'[page[m].job] = row[page[m].job]
  BY <1>1 DEF PageFits, RowsGoOn
<1> QED BY <1>1, <1>2 DEF PageFits, HasJob, Final

\* The row of an active job is saved and a snapshot goes to its stream; what the
\* three savings of a run have in common.
Saves(j, r) ==
    /\ r \in Row
    /\ row[j] # NoJob => row[j].status \in Active /\ r.kind = row[j].kind
    /\ row' = [row EXCEPT ![j] = r]

LEMMA SavedRow ==
    ASSUME Inv, NEW j \in Jobs, NEW r, Saves(j, r)
    PROVE  /\ row' \in [Jobs -> Row \cup {NoJob}]
           /\ row'[j] = r
           /\ \A k \in Jobs : k # j => row'[k] = row[k]
           /\ RowsGoOn
<1>1. row \in [Jobs -> Row \cup {NoJob}] /\ r \in Row /\ r # NoJob
  BY RowType DEF Inv, TypeOK, Saves
<1> QED BY <1>1 DEF Saves, RowsGoOn, Active, Final

\* An active row has no outcome in its stream yet.
LEMMA ActiveStream ==
    ASSUME Inv, NEW j \in Jobs, row[j] # NoJob => row[j].status \in Active
    PROVE  /\ stream[j] \in Stream
           /\ stream[j].state # "completed"
           /\ ~Ended(stream[j].boot) /\ ~Ended(stream[j].last)
<1>1. row[j] \in Row \cup {NoJob} /\ stream[j] \in Stream /\ JobFits(j)
  BY DEF Inv, TypeOK
<1>2. ~Ended(row[j])
  BY <1>1, NoStreamType DEF Ended, Active, Final
<1> QED BY <1>1, <1>2 DEF JobFits

LEMMA PersistKeeps ==
    ASSUME Inv, NEW j \in Jobs, NEW r \in Row,
           Saves(j, r), r.status \in Active, Persist(j, r),
           NEW q \in Seq({"none", "fetch", "run"} \cup Phases),
           Len(q) >= 1, runner' = [runner EXCEPT ![j] = q],
           UNCHANGED archives
    PROVE  /\ row' \in [Jobs -> Row \cup {NoJob}]
           /\ runner' \in [Jobs -> Seq({"none", "fetch", "run"} \cup Phases)]
           /\ stream' \in [Jobs -> Stream]
           /\ \A k \in Jobs : JobFits(k)'
<1>1. /\ row' \in [Jobs -> Row \cup {NoJob}] /\ row'[j] = r
      /\ \A k \in Jobs : k # j => row'[k] = row[k]
  BY SavedRow
<1>2. /\ stream[j] \in Stream /\ stream[j].state # "completed"
      /\ ~Ended(stream[j].boot) /\ ~Ended(stream[j].last)
  BY ActiveStream DEF Saves
<1>3. /\ stream \in [Jobs -> Stream]
      /\ runner \in [Jobs -> Seq({"none", "fetch", "run"} \cup Phases)]
  BY DEF Inv, TypeOK
<1>4. stream' = [stream EXCEPT ![j] = Emitted(stream[j], r)]
  BY DEF Persist
<1>5. /\ Emitted(stream[j], r) \in Stream
      /\ ~Ended(Emitted(stream[j], r).boot)
      /\ Emitted(stream[j], r).state # "completed"
      /\ ~Ended(Emitted(stream[j], r).last)
  <2>1. ~Ended(r)
    BY DEF Ended, Active, Final
  <2> QED BY <1>2, <2>1, EmittedType, NoStreamType DEF Stream
<1>6. /\ stream' \in [Jobs -> Stream] /\ stream'[j] = Emitted(stream[j], r)
      /\ \A k \in Jobs : k # j => stream'[k] = stream[k]
  BY <1>3, <1>4, <1>5
<1>7. /\ runner' \in [Jobs -> Seq({"none", "fetch", "run"} \cup Phases)] /\ runner'[j] = q
      /\ \A k \in Jobs : k # j => runner'[k] = runner[k]
  BY <1>3
<1>8. JobFits(j)'
  <2>1. r # NoJob /\ r.status # "completed"
    BY RowType DEF Active
  <2> QED BY <1>1, <1>5, <1>6, <1>7, <2>1 DEF JobFits, Runs, Ended
<1>9. \A k \in Jobs : JobFits(k)'
  BY <1>1, <1>6, <1>7, <1>8, OtherJobs
<1> QED BY <1>1, <1>6, <1>7, <1>9

LEMMA PersistFinalKeeps ==
    ASSUME Inv, NEW j \in Jobs, NEW r \in Row,
           Saves(j, r), row[j] # NoJob, r.status \in Final, PersistFinal(j, r),
           r.status = "completed" /\ r.kind = "archive" => j \in archives,
           UNCHANGED archives
    PROVE  /\ row' \in [Jobs -> Row \cup {NoJob}]
           /\ runner' \in [Jobs -> Seq({"none", "fetch", "run"} \cup Phases)]
           /\ stream' \in [Jobs -> Stream]
           /\ \A k \in Jobs : JobFits(k)'
<1>1. /\ row' \in [Jobs -> Row \cup {NoJob}] /\ row'[j] = r
      /\ \A k \in Jobs : k # j => row'[k] = row[k]
  BY SavedRow
<1>2. /\ stream[j] \in Stream /\ stream[j].state # "completed"
      /\ ~Ended(stream[j].boot) /\ ~Ended(stream[j].last)
  BY ActiveStream DEF Saves
<1>3. /\ stream \in [Jobs -> Stream]
      /\ runner \in [Jobs -> Seq({"none", "fetch", "run"} \cup Phases)]
  BY DEF Inv, TypeOK
<1>4. stream' = [stream EXCEPT ![j] = Completed(stream[j], r)]
  BY DEF PersistFinal
<1>5. /\ Completed(stream[j], r) \in Stream
      /\ ~Ended(Completed(stream[j], r).boot)
      /\ Completed(stream[j], r).state = "completed" => Completed(stream[j], r).last = r
      /\ Ended(Completed(stream[j], r).last) => Completed(stream[j], r).last = r
  BY <1>2, CompletedType, NoStreamType DEF Stream
<1>6. /\ stream' \in [Jobs -> Stream] /\ stream'[j] = Completed(stream[j], r)
      /\ \A k \in Jobs : k # j => stream'[k] = stream[k]
  BY <1>3, <1>4, <1>5
<1>7. /\ runner' \in [Jobs -> Seq({"none", "fetch", "run"} \cup Phases)]
      /\ runner'[j] = NotRunning
      /\ \A k \in Jobs : k # j => runner'[k] = runner[k]
  <2>1. NotRunning \in Seq({"none", "fetch", "run"} \cup Phases)
    BY DEF NotRunning
  <2> QED BY <1>3, <2>1 DEF PersistFinal
<1>8. JobFits(j)'
  <2>1. r # NoJob /\ Ended(r) /\ Len(NotRunning) = 1
    BY RowType DEF Ended, NotRunning
  <2> QED BY <1>1, <1>5, <1>6, <1>7, <2>1 DEF JobFits, Runs, Ended
<1>9. \A k \in Jobs : JobFits(k)'
  BY <1>1, <1>6, <1>7, <1>8, OtherJobs
<1> QED BY <1>1, <1>6, <1>7, <1>9

-----------------------------------------------------------------------------
(* The steps of a run. *)

LEMMA RunKeeps ==
    ASSUME Inv, NEW j \in Jobs, Run(j)
    PROVE  Inv' /\ RowsGoOn
<1> USE DEF Inv
<1>1. /\ row \in [Jobs -> Row \cup {NoJob}] /\ page \in [Managers -> Page]
      /\ runner \in [Jobs -> Seq({"none", "fetch", "run"} \cup Phases)]
      /\ stream \in [Jobs -> Stream] /\ archives \subseteq Jobs
      /\ JobFits(j)
  BY DEF TypeOK
<1>2. Runs(j) => row[j] \in Row /\ row[j].status \in Active
  BY <1>1 DEF JobFits
<1>3. runner[j] = Fetching \/ Working(j) => Runs(j)
  BY DEF Runs, Working, Fetching, NotRunning
<1>4. ASSUME UNCHANGED page, RowsGoOn PROVE \A m \in Managers : PageFits(m)'
  BY <1>4, OtherPages
<1>5. CASE Start(j)
  <2> DEFINE r == [row[j] EXCEPT !.status = "running"]
  <2>1. /\ r \in Row /\ r.status \in Active /\ r.kind = row[j].kind
    BY <1>2, <1>3, <1>5, RowType DEF Start, Row, Active
  <2>2. /\ Persist(j, r) /\ Saves(j, r)
    BY <1>2, <1>3, <1>5, <2>1 DEF Start, Persist, Saves
  <2>3. <<"run">> \in Seq({"none", "fetch", "run"} \cup Phases) /\ Len(<<"run">>) >= 1
    OBVIOUS
  <2>4. runner' = [runner EXCEPT ![j] = <<"run">>] /\ UNCHANGED <<page, archives>>
    BY <1>5 DEF Start
  <2> HIDE DEF r
  <2>5. /\ row' \in [Jobs -> Row \cup {NoJob}]
        /\ runner' \in [Jobs -> Seq({"none", "fetch", "run"} \cup Phases)]
        /\ stream' \in [Jobs -> Stream]
        /\ \A k \in Jobs : JobFits(k)'
    BY <2>1, <2>2, <2>3, <2>4, PersistKeeps
  <2>6. RowsGoOn
    BY <2>2, SavedRow
  <2> QED BY <1>1, <1>4, <2>4, <2>5, <2>6 DEF TypeOK
<1>6. CASE StartPhase(j)
  <2> DEFINE phase == PhasesOf(row[j].kind)[Begun(j) + 1]
             r == [row[j] EXCEPT !.phase = phase]
             q == Append(runner[j], phase)
  <2>1. row[j] \in Row /\ row[j].status \in Active /\ row[j].kind \in Kinds
    BY <1>2, <1>3, <1>6 DEF StartPhase, Row
  <2>2. Begun(j) + 1 \in 1..Len(PhasesOf(row[j].kind))
    <3>1. Len(PhasesOf(row[j].kind)) \in Nat
      BY <2>1, PhasesType
    <3>2. Len(runner[j]) \in Nat /\ Len(runner[j]) >= 1
      BY <1>1 DEF JobFits
    <3> QED BY <1>6, <3>1, <3>2 DEF StartPhase, Begun
  <2>3. phase \in Phases
    BY <2>1, <2>2, PhasesType
  <2>4. r \in Row /\ r.status \in Active /\ r.kind = row[j].kind
    <3> HIDE DEF phase
    <3> QED BY <2>1, <2>3, RowType DEF Row
  <2>5. /\ Persist(j, r) /\ runner' = [runner EXCEPT ![j] = q]
        /\ UNCHANGED <<page, archives>>
    BY <1>6 DEF StartPhase
  <2>6. q \in Seq({"none", "fetch", "run"} \cup Phases) /\ Len(q) >= 1
    <3> HIDE DEF phase
    <3> QED BY <1>1, <2>3
  <2> HIDE DEF r, q, phase
  <2>7. Saves(j, r)
    BY <2>1, <2>4, <2>5 DEF Saves, Persist
  <2>8. /\ row' \in [Jobs -> Row \cup {NoJob}]
        /\ runner' \in [Jobs -> Seq({"none", "fetch", "run"} \cup Phases)]
        /\ stream' \in [Jobs -> Stream]
        /\ \A k \in Jobs : JobFits(k)'
    BY <2>4, <2>5, <2>6, <2>7, PersistKeeps
  <2>9. RowsGoOn
    BY <2>7, SavedRow
  <2> QED BY <1>1, <1>4, <2>5, <2>8, <2>9 DEF TypeOK
<1>7. CASE WriteArchive(j)
  <2>1. UNCHANGED <<row, runner, stream, page>> /\ archives' = archives \cup {j}
    BY <1>7 DEF WriteArchive
  <2>2. RowsGoOn
    BY <2>1 DEF RowsGoOn
  <2>3. \A k \in Jobs : JobFits(k)'
    BY <2>1, OtherJobs
  <2> QED BY <1>1, <1>4, <2>1, <2>2, <2>3 DEF TypeOK
<1>8. ASSUME NEW status \in Final, Runs(j), PersistFinal(j, Outcome(j, status)),
             status = "completed" /\ row[j].kind = "archive" => j \in archives,
             UNCHANGED <<page, archives>>
      PROVE  Inv' /\ RowsGoOn
  <2> DEFINE r == Outcome(j, status)
  <2>1. row[j] \in Row /\ row[j] # NoJob /\ row[j].status \in Active
    BY <1>2, <1>8, RowType
  <2>2. r \in Row /\ r.status = status /\ r.kind = row[j].kind
    <3>1. (status = "completed" /\ row[j].kind = "archive") \in BOOLEAN
      OBVIOUS
    <3> QED BY <2>1, <3>1, RowType DEF Outcome, Row
  <2> HIDE DEF r
  <2>3. PersistFinal(j, r)
    BY <1>8 DEF r
  <2>4. Saves(j, r)
    BY <2>1, <2>2, <2>3 DEF Saves, PersistFinal
  <2>5. /\ row' \in [Jobs -> Row \cup {NoJob}]
        /\ runner' \in [Jobs -> Seq({"none", "fetch", "run"} \cup Phases)]
        /\ stream' \in [Jobs -> Stream]
        /\ \A k \in Jobs : JobFits(k)'
    BY <1>8, <2>1, <2>2, <2>3, <2>4, PersistFinalKeeps
  <2>6. RowsGoOn
    BY <2>4, SavedRow
  <2> QED BY <1>1, <1>4, <1>8, <2>5, <2>6 DEF TypeOK
<1>9. CASE Complete(j)
  BY <1>3, <1>8, <1>9 DEF Complete, Final
<1>10. CASE Fail(j)
  BY <1>3, <1>8, <1>10 DEF Fail, MayFail, Final
<1> QED BY <1>5, <1>6, <1>7, <1>9, <1>10 DEF Run

\* A run whose outcome is lost, and the reads behind a stream.
LEMMA StreamKeeps ==
    ASSUME Inv, NEW j \in Jobs,
           LoseOutcome(j) \/ BootRead(j) \/ BootEmit(j) \/ BootFail(j)
    PROVE  Inv' /\ RowsGoOn
<1> USE DEF Inv
<1>1. /\ row \in [Jobs -> Row \cup {NoJob}]
      /\ runner \in [Jobs -> Seq({"none", "fetch", "run"} \cup Phases)]
      /\ stream \in [Jobs -> Stream] /\ row[j] \in Row \cup {NoJob}
      /\ stream[j] \in Stream /\ JobFits(j)
  BY DEF TypeOK
<1>2. UNCHANGED <<row, page, archives>> /\ RowsGoOn
  BY DEF LoseOutcome, BootRead, BootEmit, BootFail, RowsGoOn
<1>3. \A m \in Managers : PageFits(m)'
  BY <1>2, OtherPages
<1>4. ASSUME NEW s \in Stream, stream' = [stream EXCEPT ![j] = s],
             UNCHANGED runner, row[j] # NoJob,
             Ended(s.boot) => row[j] = s.boot,
             Ended(s.last) => row[j] = s.last,
             s.state = "completed" => Ended(row[j]) /\ s.last = row[j]
      PROVE  Inv'
  <2>1. /\ stream' \in [Jobs -> Stream] /\ stream'[j] = s
        /\ \A k \in Jobs : k # j => stream'[k] = stream[k]
    BY <1>1, <1>4
  <2>2. JobFits(j)'
    BY <1>1, <1>2, <1>4, <2>1 DEF JobFits, Runs, Ended
  <2>3. \A k \in Jobs : JobFits(k)'
    BY <1>2, <1>4, <2>1, <2>2, OtherJobs
  <2> QED BY <1>2, <1>3, <1>4, <2>1, <2>3 DEF TypeOK
<1>5. CASE BootRead(j)
  <2> DEFINE s == [stream[j] EXCEPT !.boot = row[j]]
  <2>1. row[j] # NoJob
    BY <1>1, <1>5, NoJobAssumption DEF BootRead, JobFits, NoStream
  <2>2. s \in Stream /\ s.boot = row[j] /\ s.last = stream[j].last /\ s.state = stream[j].state
    BY <1>1 DEF Stream
  <2>3. stream' = [stream EXCEPT ![j] = s] /\ UNCHANGED runner
    BY <1>5 DEF BootRead
  <2> HIDE DEF s
  <2> QED BY <1>1, <1>2, <1>4, <2>1, <2>2, <2>3 DEF JobFits
<1>6. CASE BootEmit(j)
  <2> DEFINE b == stream[j].boot
             e == IF b.status \in Final THEN Completed(stream[j], b) ELSE Emitted(stream[j], b)
             s == [e EXCEPT !.boot = NoJob]
  <2>1. b \in Row /\ row[j] # NoJob
    BY <1>1, <1>6, NoJobAssumption DEF BootEmit, JobFits, NoStream
  <2>2. /\ e \in Stream
        /\ Ended(e.last) => row[j] = e.last
        /\ e.state = "completed" => Ended(row[j]) /\ e.last = row[j]
    <3>1. CASE b.status \in Final
      <4>1. Ended(b) /\ row[j] = b
        BY <1>1, <2>1, <3>1 DEF Ended, JobFits
      <4>2. e = Completed(stream[j], b)
        BY <3>1
      <4> HIDE DEF e
      <4> QED BY <1>1, <2>1, <4>1, <4>2, CompletedType DEF JobFits
    <3>2. CASE b.status \notin Final
      <4>1. ~Ended(b)
        BY <3>2 DEF Ended
      <4>2. e = Emitted(stream[j], b)
        BY <3>2
      <4> HIDE DEF e
      <4> QED BY <1>1, <2>1, <4>1, <4>2, EmittedType DEF JobFits
    <3> QED BY <3>1, <3>2
  <2>3. stream' = [stream EXCEPT ![j] = s] /\ UNCHANGED runner
    BY <1>6 DEF BootEmit
  <2>4. s \in Stream /\ s.boot = NoJob /\ s.last = e.last /\ s.state = e.state
    <3> HIDE DEF e
    <3> QED BY <2>2 DEF Stream
  <2> HIDE DEF s, e
  <2> QED BY <1>2, <1>4, <2>1, <2>2, <2>3, <2>4, NoStreamType
<1>7. CASE BootFail(j)
  <2> DEFINE s == [stream[j] EXCEPT !.boot = NoJob,
                                    !.state = IF @ = "open" THEN "errored" ELSE @]
  <2>1. row[j] # NoJob
    BY <1>1, <1>7, NoJobAssumption DEF BootFail, JobFits, NoStream
  <2>2. /\ s \in Stream /\ s.boot = NoJob /\ s.last = stream[j].last
        /\ s.state = "completed" => stream[j].state = "completed"
    BY <1>1 DEF Stream
  <2>3. stream' = [stream EXCEPT ![j] = s] /\ UNCHANGED runner
    BY <1>1, <1>7 DEF BootFail
  <2> HIDE DEF s
  <2> QED BY <1>1, <1>2, <1>4, <2>1, <2>2, <2>3, NoStreamType DEF JobFits
<1>8. CASE LoseOutcome(j)
  <2> DEFINE s == [stream[j] EXCEPT !.state = IF @ = "open" THEN "errored" ELSE @]
  <2>1. /\ s \in Stream /\ s.boot = stream[j].boot /\ s.last = stream[j].last
        /\ s.state = "completed" => stream[j].state = "completed"
    BY <1>1 DEF Stream
  <2>2. /\ stream' = [stream EXCEPT ![j] = s]
        /\ runner' = [runner EXCEPT ![j] = NotRunning]
    BY <1>8 DEF LoseOutcome
  <2>3. row[j] # NoJob
    BY <1>1, <1>8 DEF LoseOutcome, JobFits
  <2>4. NotRunning \in Seq({"none", "fetch", "run"} \cup Phases) /\ Len(NotRunning) = 1
    BY DEF NotRunning
  <2> HIDE DEF s
  <2>5. /\ stream' \in [Jobs -> Stream] /\ stream'[j] = s
        /\ runner' \in [Jobs -> Seq({"none", "fetch", "run"} \cup Phases)]
        /\ runner'[j] = NotRunning
        /\ \A k \in Jobs : k # j => stream'[k] = stream[k] /\ runner'[k] = runner[k]
    BY <1>1, <2>1, <2>2, <2>4
  <2>6. JobFits(j)'
    <3>1. s.boot = stream[j].boot /\ s.last = stream[j].last /\ JobFits(j)
      BY <1>1, <2>1
    <3>2. Len(runner'[j]) >= 1 /\ ~Runs(j)'
      <4>1. runner'[j] = NotRunning
        BY <2>5
      <4> HIDE DEF Inv
      <4> QED BY <2>4, <4>1 DEF Runs
    <3> QED BY <1>2, <2>1, <2>3, <2>5, <3>1, <3>2 DEF JobFits, Ended
  <2>7. \A k \in Jobs : JobFits(k)'
    BY <1>2, <2>5, <2>6, OtherJobs
  <2> QED BY <1>2, <1>3, <2>5, <2>7 DEF TypeOK
<1> QED BY <1>5, <1>6, <1>7, <1>8

-----------------------------------------------------------------------------
(* The steps of the pages. *)

\* A page's step that touches neither rows nor runners.
LEMMA PageStep ==
    ASSUME Inv, NEW m \in Managers, NEW p \in Page,
           page' = [page EXCEPT ![m] = p], UNCHANGED <<row, runner, stream, archives>>,
           p.pc = "checked" => p.kind \in Kinds,
           p.pc \in HasJob => /\ p.job \in Jobs
                              /\ row[p.job] # NoJob
                              /\ row[p.job].kind = p.kind,
           p.pc = "succeeded" => row[p.job].status = "completed",
           p.pc = "rejected" => row[p.job].status = "failed"
    PROVE  Inv' /\ RowsGoOn
<1>1. page' \in [Managers -> Page] /\ page'[m] = p /\ (\A n \in Managers : n # m => page'[n] = page[n])
  BY DEF Inv, TypeOK
<1>2. RowsGoOn
  BY DEF RowsGoOn
<1>3. PageFits(m)'
  BY <1>1 DEF PageFits
<1>4. \A n \in Managers : PageFits(n)'
  BY <1>1, <1>2, <1>3, OtherPages
<1>5. \A j \in Jobs : JobFits(j)'
  BY OtherJobs
<1> QED BY <1>1, <1>2, <1>4, <1>5 DEF Inv, TypeOK

\* A page that follows a job learns a row: the job's own, or an earlier state of it.
LEMMA LearnKeeps ==
    ASSUME Inv, NEW m \in Managers, page[m].pc \in {"streaming", "polling"},
           NEW r \in Row, Ended(r) => row[page[m].job] = r,
           Learn(m, r), UNCHANGED <<row, runner, stream, archives>>
    PROVE  Inv' /\ RowsGoOn
<1> DEFINE p == [page[m] EXCEPT !.pc = CASE r.status = "completed" -> "succeeded"
                                         [] r.status = "failed" -> "rejected"
                                         [] OTHER -> @]
<1>1. page[m] \in Page /\ PageFits(m) /\ page \in [Managers -> Page]
  BY DEF Inv, TypeOK
<1>2. page' = [page EXCEPT ![m] = p]
  BY <1>1 DEF Learn
<1>3. /\ p \in Page /\ p.kind = page[m].kind /\ p.job = page[m].job
      /\ \/ p.pc = page[m].pc
         \/ p.pc = "succeeded" /\ r.status = "completed"
         \/ p.pc = "rejected" /\ r.status = "failed"
  <2>1. CASE r.status = "completed"
    BY <1>1, <2>1 DEF Page, PagePCs
  <2>2. CASE r.status = "failed"
    BY <1>1, <2>2 DEF Page, PagePCs
  <2>3. CASE r.status # "completed" /\ r.status # "failed"
    BY <1>1, <2>3 DEF Page, PagePCs
  <2> QED BY <2>1, <2>2, <2>3
<1>4. page[m].job \in Jobs /\ row[page[m].job] # NoJob /\ row[page[m].job].kind = page[m].kind
  BY <1>1 DEF PageFits, HasJob
<1>5. r.status \in {"completed", "failed"} => row[page[m].job].status = r.status
  BY DEF Ended, Final
<1> HIDE DEF p
<1> QED BY <1>2, <1>3, <1>4, <1>5, PageStep

LEMMA CreateKeeps ==
    ASSUME Inv, NEW m \in Managers, Create(m)
    PROVE  Inv' /\ RowsGoOn
<1> DEFINE r == [kind |-> page[m].kind, status |-> "pending", phase |-> "queued",
                 archive |-> FALSE]
<1>1. PICK j \in Jobs : /\ row[j] = NoJob /\ Persist(j, r)
                        /\ runner' = [runner EXCEPT ![j] = Fetching]
                        /\ page' = [page EXCEPT ![m].pc = "created", ![m].job = j]
  BY DEF Create
<1>2. page[m].pc = "checked" /\ page[m].kind \in Kinds /\ UNCHANGED archives
  BY DEF Create, Inv, PageFits
<1>3. r \in Row /\ r.status \in Active /\ r.kind = page[m].kind
  BY <1>2 DEF Row, Active, Phases
<1> HIDE DEF r
<1>4. Saves(j, r)
  BY <1>1, <1>3 DEF Saves, Persist
<1>5. Fetching \in Seq({"none", "fetch", "run"} \cup Phases) /\ Len(Fetching) >= 1
  BY DEF Fetching
<1>6. /\ row' \in [Jobs -> Row \cup {NoJob}]
      /\ runner' \in [Jobs -> Seq({"none", "fetch", "run"} \cup Phases)]
      /\ stream' \in [Jobs -> Stream]
      /\ \A k \in Jobs : JobFits(k)'
  BY <1>1, <1>2, <1>3, <1>4, <1>5, PersistKeeps
<1>7. RowsGoOn /\ row'[j] = r
  BY <1>4, SavedRow
<1>8. /\ page' \in [Managers -> Page]
      /\ page'[m].pc = "created" /\ page'[m].job = j /\ page'[m].kind = page[m].kind
      /\ \A n \in Managers : n # m => page'[n] = page[n]
  BY <1>1 DEF Inv, TypeOK, Page, PagePCs
<1>9. PageFits(m)'
  <2>1. r # NoJob
    BY <1>3, RowType
  <2> QED BY <1>3, <1>7, <1>8, <2>1 DEF PageFits
<1>10. \A n \in Managers : PageFits(n)'
  BY <1>7, <1>8, <1>9, OtherPages
<1> QED BY <1>2, <1>6, <1>7, <1>8, <1>10 DEF Inv, TypeOK

LEMMA SubscribeKeeps ==
    ASSUME Inv, NEW m \in Managers, Subscribe(m)
    PROVE  Inv' /\ RowsGoOn
<1>0. PICK j \in Jobs : j = page[m].job
  BY DEF Inv, PageFits, Subscribe, HasJob
<1> DEFINE s == Ensured(stream[j])
<1>1. /\ page \in [Managers -> Page] /\ stream \in [Jobs -> Stream] /\ PageFits(m)
      /\ page[m].pc = "created" /\ UNCHANGED <<row, runner, archives>>
      /\ stream' = [stream EXCEPT ![j] = s]
      /\ page' = [page EXCEPT ![m].pc = "streaming"]
  BY <1>0 DEF Inv, TypeOK, Subscribe
<1>2. row[j] # NoJob /\ row[j].kind = page[m].kind
  BY <1>0, <1>1 DEF PageFits, HasJob
<1>3. JobFits(j) /\ stream[j] \in Stream
  BY <1>1, <1>2 DEF Inv
<1>4. /\ s \in Stream /\ s.last = stream[j].last
      /\ s.boot \in {stream[j].boot, Reading}
      /\ s.state = "completed" => stream[j].state = "completed"
  BY <1>3 DEF Ensured, Stream
<1> HIDE DEF s
<1>5. /\ stream' \in [Jobs -> Stream] /\ stream'[j] = s
      /\ \A k \in Jobs : k # j => stream'[k] = stream[k]
  BY <1>1, <1>2, <1>4
<1>6. /\ page' \in [Managers -> Page]
      /\ page'[m].pc = "streaming" /\ page'[m].job = j /\ page'[m].kind = page[m].kind
      /\ \A n \in Managers : n # m => page'[n] = page[n]
  BY <1>0, <1>1 DEF Page, PagePCs
<1>7. JobFits(j)'
  <2>1. Ended(s.boot) => s.boot = stream[j].boot
    BY <1>4, NoStreamType
  <2> QED BY <1>1, <1>2, <1>3, <1>4, <1>5, <2>1 DEF JobFits, Runs, Ended
<1>8. \A k \in Jobs : JobFits(k)'
  BY <1>1, <1>5, <1>7, OtherJobs
<1>9. RowsGoOn
  BY <1>1 DEF RowsGoOn
<1>10. PageFits(m)'
  BY <1>1, <1>2, <1>6 DEF PageFits
<1>11. \A n \in Managers : PageFits(n)'
  BY <1>6, <1>9, <1>10, OtherPages
<1> QED BY <1>1, <1>5, <1>6, <1>8, <1>9, <1>11 DEF Inv, TypeOK

LEMMA PagesKeep ==
    ASSUME Inv, NEW m \in Managers,
           CheckNoActiveJob(m) \/ Create(m) \/ Forget(m) \/ Follow(m) \/ Disconnect(m)
    PROVE  Inv' /\ RowsGoOn
<1>1. /\ page \in [Managers -> Page] /\ page[m] \in Page /\ PageFits(m)
      /\ row \in [Jobs -> Row \cup {NoJob}] /\ stream \in [Jobs -> Stream]
  BY DEF Inv, TypeOK
<1>2. page[m].pc \in HasJob =>
        /\ page[m].job \in Jobs /\ row[page[m].job] \in Row
        /\ row[page[m].job] # NoJob /\ row[page[m].job].kind = page[m].kind
        /\ JobFits(page[m].job)
  BY <1>1 DEF PageFits, Inv
<1>3. CASE CheckNoActiveJob(m)
  <2>1. PICK kind \in Kinds :
          page' = [page EXCEPT ![m] = [pc |-> IF ActiveJobs = {} THEN "checked" ELSE "refused",
                                       kind |-> kind, job |-> NoJob]]
    BY <1>3 DEF CheckNoActiveJob
  <2> DEFINE p == [pc |-> IF ActiveJobs = {} THEN "checked" ELSE "refused",
                   kind |-> kind, job |-> NoJob]
  <2>2. p \in Page /\ p.kind \in Kinds /\ p.pc \notin HasJob
        /\ p.pc # "succeeded" /\ p.pc # "rejected"
    BY DEF Page, PagePCs, HasJob
  <2>3. page' = [page EXCEPT ![m] = p] /\ UNCHANGED <<row, runner, stream, archives>>
    BY <1>3, <2>1 DEF CheckNoActiveJob
  <2> HIDE DEF p
  <2> QED BY <2>2, <2>3, PageStep
<1>4. CASE Forget(m)
  <2>1. IdlePage \in Page /\ IdlePage.pc = "idle"
    BY DEF IdlePage, Page, PagePCs
  <2>2. page' = [page EXCEPT ![m] = IdlePage] /\ UNCHANGED <<row, runner, stream, archives>>
    BY <1>4 DEF Forget
  <2> QED BY <2>1, <2>2, PageStep DEF HasJob
<1>5. CASE Receive(m)
  <2> DEFINE r == stream[page[m].job].last
  <2>1. page[m].pc = "streaming" /\ r \in Row /\ Learn(m, r)
        /\ UNCHANGED <<row, runner, stream, archives>>
    BY <1>5 DEF Receive
  <2>2. Ended(r) => row[page[m].job] = r
    BY <1>2, <2>1 DEF HasJob, JobFits
  <2> HIDE DEF r
  <2> QED BY <2>1, <2>2, LearnKeeps
<1>6. CASE Poll(m)
  <2> DEFINE r == row[page[m].job]
  <2>1. page[m].pc = "polling" /\ r \in Row /\ Learn(m, r)
        /\ UNCHANGED <<row, runner, stream, archives>>
    BY <1>2, <1>6 DEF Poll, HasJob
  <2> QED BY <2>1, LearnKeeps
<1>7. CASE LeaveStream(m)
  <2> DEFINE p == [page[m] EXCEPT !.pc = "polling"]
  <2>1. page[m].pc = "streaming" /\ page' = [page EXCEPT ![m] = p]
        /\ UNCHANGED <<row, runner, stream, archives>>
    BY <1>7 DEF LeaveStream
  <2>2. p \in Page /\ p.pc = "polling" /\ p.kind = page[m].kind /\ p.job = page[m].job
    BY <1>1 DEF Page, PagePCs
  <2> HIDE DEF p
  <2> QED BY <1>2, <2>1, <2>2, PageStep DEF HasJob
<1> QED BY <1>3, <1>4, <1>5, <1>6, <1>7, CreateKeeps, SubscribeKeeps
        DEF Follow, StreamEnds, Disconnect

-----------------------------------------------------------------------------
(* Restarts, and the invariant. *)

LEMMA RestartKeeps ==
    ASSUME Inv, Restart
    PROVE  Inv' /\ RowsGoOn
<1>1. PICK cut \in SUBSET Managers :
         page' = [m \in Managers |->
                    CASE page[m].pc = "checked" \/ m \in cut -> IdlePage
                      [] page[m].pc = "streaming" /\ m \notin cut
                           -> [page[m] EXCEPT !.pc = "polling"]
                      [] OTHER -> page[m]]
  BY DEF Restart
<1>2. /\ runner' = [j \in Jobs |-> NotRunning] /\ stream' = [j \in Jobs |-> NoStream]
      /\ UNCHANGED <<row, archives>>
  BY DEF Restart
<1>3. /\ row \in [Jobs -> Row \cup {NoJob}] /\ page \in [Managers -> Page]
      /\ archives \subseteq Jobs
  BY DEF Inv, TypeOK
<1>4. RowsGoOn
  BY <1>2 DEF RowsGoOn
<1>5. ASSUME NEW j \in Jobs PROVE JobFits(j)'
  <2>1. JobFits(j)
    BY DEF Inv
  <2>2. runner'[j] = NotRunning /\ stream'[j] = NoStream
    BY <1>2
  <2>3. /\ Len(NotRunning) = 1
        /\ NoStream.boot = NoJob /\ NoStream.last = NoJob /\ NoStream.state = "none"
    BY DEF NotRunning, NoStream
  <2>4. Len(runner'[j]) >= 1 /\ ~Runs(j)'
    BY <2>2, <2>3 DEF Runs
  <2> QED BY <1>2, <2>1, <2>2, <2>3, <2>4, NoStreamType DEF JobFits, Ended
<1>6. /\ runner' \in [Jobs -> Seq({"none", "fetch", "run"} \cup Phases)]
      /\ stream' \in [Jobs -> Stream]
  <2>1. NotRunning \in Seq({"none", "fetch", "run"} \cup Phases)
    BY DEF NotRunning
  <2> QED BY <1>2, <2>1, NoStreamType
<1>7. ASSUME NEW m \in Managers PROVE page'[m] \in Page /\ PageFits(m)'
  <2>1. page[m] \in Page /\ PageFits(m)
    BY <1>3 DEF Inv
  <2>2. CASE page'[m] = IdlePage
    BY <2>2 DEF IdlePage, Page, PagePCs, PageFits, HasJob
  <2>3. CASE page'[m] = [page[m] EXCEPT !.pc = "polling"] /\ page[m].pc = "streaming"
    <3>1. /\ page'[m] \in Page /\ page'[m].pc = "polling"
          /\ page'[m].job = page[m].job /\ page'[m].kind = page[m].kind
      BY <2>1, <2>3 DEF Page, PagePCs
    <3> QED BY <1>2, <2>1, <2>3, <3>1 DEF PageFits, HasJob
  <2>4. CASE page'[m] = page[m]
    BY <1>4, <2>1, <2>4, OtherPages
  <2> QED BY <1>1, <2>2, <2>3, <2>4
<1>8. page' \in [Managers -> Page]
  BY <1>1, <1>7
<1> QED BY <1>2, <1>3, <1>4, <1>5, <1>6, <1>7, <1>8 DEF Inv, TypeOK

LEMMA StepKeeps ==
    ASSUME Inv, [Next]_vars
    PROVE  Inv' /\ RowsGoOn
<1>1. CASE UNCHANGED vars
  <2>1. RowsGoOn
    BY <1>1 DEF vars, RowsGoOn
  <2>2. \A j \in Jobs : JobFits(j)'
    BY <1>1, OtherJobs DEF vars
  <2>3. \A m \in Managers : PageFits(m)'
    BY <1>1, <2>1, OtherPages DEF vars
  <2> QED BY <1>1, <2>1, <2>2, <2>3 DEF vars, Inv, TypeOK
<1>2. CASE Next
  BY <1>2, RunKeeps, StreamKeeps, PagesKeep, RestartKeeps DEF Next
<1> QED BY <1>1, <1>2

LEMMA InitHolds ==
    ASSUME Init
    PROVE  Inv
<1>1. TypeOK
  <2>1. NotRunning \in Seq({"none", "fetch", "run"} \cup Phases)
    BY DEF NotRunning
  <2>2. IdlePage \in Page
    BY DEF IdlePage, Page, PagePCs
  <2> QED BY <2>1, <2>2, NoStreamType DEF Init, TypeOK
<1>2. ASSUME NEW j \in Jobs PROVE JobFits(j)
  <2>1. row[j] = NoJob /\ runner[j] = NotRunning /\ stream[j] = NoStream
    BY DEF Init
  <2>2. /\ Len(NotRunning) = 1
        /\ NoStream.boot = NoJob /\ NoStream.last = NoJob /\ NoStream.state = "none"
    BY DEF NotRunning, NoStream
  <2>3. Len(runner[j]) >= 1 /\ ~Runs(j)
    BY <2>1, <2>2 DEF Runs
  <2> QED BY <2>1, <2>2, <2>3, NoStreamType DEF JobFits
<1>3. \A m \in Managers : PageFits(m)
  BY DEF Init, IdlePage, PageFits, HasJob
<1> QED BY <1>1, <1>2, <1>3 DEF Inv

LEMMA Invariance == Spec => []Inv
<1>1. Inv /\ [Next]_vars => Inv'
  BY StepKeeps
<1> QED BY <1>1, InitHolds, PTL DEF Spec

-----------------------------------------------------------------------------
(* The theorems. *)

\* Rows, runners, streams and pages have their types, whatever fails or restarts.
THEOREM TypeCorrect == Spec => []TypeOK
<1>1. Inv => TypeOK
  BY DEF Inv
<1> QED BY <1>1, Invariance, PTL

\* A stream that has completed replays the outcome in the row, although the
\* bootstrap read of streamJob emits whatever it read, however late.
THEOREM StreamsTellTheOutcome == Spec => []EndedStreamsTell
<1>1. Inv => EndedStreamsTell
  BY DEF Inv, JobFits, Ended, EndedStreamsTell
<1> QED BY <1>1, Invariance, PTL

\* A page that reports success or failure reports what the row says, and a
\* download that succeeded has its ZIP file.
THEOREM PagesAreRight == Spec => []PagesTellTheOutcome
<1>1. ASSUME Inv, NEW m \in Managers, page[m].pc \in {"succeeded", "rejected"}
      PROVE  /\ page[m].pc = "succeeded" =>
                  /\ row[page[m].job].status = "completed"
                  /\ page[m].kind = "archive" => page[m].job \in archives
             /\ page[m].pc = "rejected" => row[page[m].job].status = "failed"
  <2>1. PageFits(m) /\ page[m].job \in Jobs
    BY <1>1 DEF Inv, PageFits, HasJob
  <2>2. JobFits(page[m].job)
    BY <1>1, <2>1 DEF Inv
  <2> QED BY <1>1, <2>1, <2>2 DEF PageFits, HasJob, JobFits
<1>2. Inv => PagesTellTheOutcome
  BY <1>1 DEF PagesTellTheOutcome
<1> QED BY <1>2, Invariance, PTL

\* No late progress report, second run, lost save or restart touches a row that
\* has an outcome.
THEOREM OutcomesAreFinal == Spec => OutcomeIsFinal
<1>1. Inv /\ [Next]_vars =>
        [\A j \in Jobs :
           row[j] # NoJob /\ row[j].status \in Final => row'[j] = row[j]]_vars
  BY StepKeeps DEF RowsGoOn
<1> QED BY <1>1, Invariance, PTL DEF Spec, OutcomeIsFinal

=============================================================================
