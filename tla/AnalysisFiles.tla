---------------------------- MODULE AnalysisFiles ----------------------------
(***************************************************************************)
(* The uploaded files of one incident and the analysis runs that name      *)
(* them: UploadService over a FileStorage and a database, and              *)
(* AnalysisRunService.                                                     *)
(*                                                                         *)
(* A file is a row of uploaded_files and a blob under a key derived from   *)
(* the row's id.  The database takes part in the request's transaction and *)
(* the storage does not: an upload saves its blobs one by one before its   *)
(* rows are committed, a deletion removes the blob between the flush and   *)
(* the commit of the DELETE, and only an exception raised within           *)
(* upload_incident_files removes blobs again.                              *)
(*                                                                         *)
(* Nothing in the repository executes a queued run, so runs are queued or  *)
(* cancelled here.                                                         *)
(***************************************************************************)
EXTENDS Naturals, Sequences, FiniteSets, SequencesExt

CONSTANTS
    Workers,     \* the concurrent requests
    Contents,    \* masked texts that pass validation, told apart by checksum
    Invalid,     \* stands for the uploads that validation refuses
    Files,       \* the ids that uuid4 draws
    NoFile,
    MaxBatch,    \* max_files_per_upload
    MaxRuns,     \* bound: analysis runs of the incident
    Faults       \* what may go wrong outside the handlers' own exceptions

ASSUME InvalidAssumption == Invalid \notin Contents
ASSUME NoFileAssumption == NoFile \notin Files
ASSUME MaxBatchAssumption == MaxBatch \in Nat \ {0}
ASSUME MaxRunsAssumption == MaxRuns \in Nat
ASSUME FaultsAssumption == Faults \subseteq {"crash", "unlink"}

VARIABLES
    closed,    \* the incident is closed or ignored
    files,     \* the committed rows of uploaded_files: checksum by id
    blobs,     \* the ids whose blob is in the storage
    runs,      \* the committed rows of analysis_runs, in commit order
    timeline,  \* the committed events about files and runs
    unlinked,  \* history: the files whose deletion has reached the storage
    cut,       \* history: the files of requests that a fault has cut off
    overlapped, \* history: two requests have been in flight at a time
    req        \* what each request in flight has read and done

vars == <<closed, files, blobs, runs, timeline, unlinked, cut, overlapped, req>>
history == <<unlinked, cut>>
tables == <<closed, files, runs, timeline>>

Stored == DOMAIN files

(* status: a member of AnalysisRunStatus; files: input_summary.file_ids.   *)
Run == [status: {"queued", "failed"}, files: SUBSET Files]

InProgress == {"preprocessing", "classifying", "retrieving", "reasoning"}
Cancellable == {"queued", "preprocessing"}

(* uploaded: the file_ids of each file_uploaded event; deleted: how many   *)
(* file_deleted events name a file; queued: how many analysis_queued       *)
(* events there are.                                                       *)
Timeline == [uploaded: SUBSET SUBSET Files, deleted: [Files -> Nat], queued: Nat]

-----------------------------------------------------------------------------
(* A request.  todo: the files of the batch not yet processed; saved: the  *)
(* records added to the session, whose blobs are saved; file and chosen:   *)
(* the path argument and the file_ids argument; run: the loaded run.       *)

Op == {"idle", "upload", "delete", "deletable", "unlinked", "start", "cancel"}

NoRequest == [op |-> "idle", todo |-> << >>, saved |-> << >>,
              file |-> NoFile, chosen |-> {}, run |-> 0]

Idle(w) == req[w].op = "idle"
Receive(w, r) ==
    /\ Idle(w)
    /\ req' = [req EXCEPT ![w] = r]
    /\ overlapped' = (overlapped \/ \E v \in Workers : ~Idle(v))
Finish(w) == req' = [req EXCEPT ![w] = NoRequest]

Saved(w) == DOMAIN req[w].saved

(* An id that no file has or had.                                          *)
Unused(f) ==
    /\ f \notin Stored \cup blobs \cup unlinked \cup UNION timeline.uploaded
    /\ \A w \in Workers : f \notin Saved(w)

With(rows, f, row) == [x \in DOMAIN rows \cup {f} |-> IF x = f THEN row ELSE rows[x]]
Union(rows, more) ==
    [x \in DOMAIN rows \cup DOMAIN more |->
        IF x \in DOMAIN more THEN more[x] ELSE rows[x]]

-----------------------------------------------------------------------------
Init ==
    /\ closed = FALSE
    /\ files = << >>
    /\ blobs = {}
    /\ runs = << >>
    /\ timeline = [uploaded |-> {}, deleted |-> [f \in Files |-> 0], queued |-> 0]
    /\ unlinked = {}
    /\ cut = {}
    /\ overlapped = FALSE
    /\ req = [w \in Workers |-> NoRequest]

(* Closing, ignoring and reopening the incident: module Incident.          *)
ChangeStatus ==
    /\ closed' = ~closed
    /\ UNCHANGED <<files, blobs, runs, timeline, history, req, overlapped>>

(* upload_incident_files.                                                  *)
LoadUpload(w, batch) ==
    /\ Receive(w, [NoRequest EXCEPT !.op = "upload", !.todo = batch])
    /\ UNCHANGED <<tables, blobs, history>>

(* The SELECT for a duplicate sees committed rows alone: the session does  *)
(* not flush the records of the batch before it (autoflush=False).         *)
Duplicate(content) == \E f \in Stored : files[f] = content

(* Faulty variant: no check for duplicates.                                *)
ProcessOne_Unchecked(w, f) ==
    LET r == req[w]
    IN  /\ r.op = "upload" /\ r.todo # << >>
        /\ Head(r.todo) # Invalid
        /\ Unused(f)
        /\ blobs' = blobs \cup {f}
        /\ req' = [req EXCEPT ![w] = [r EXCEPT
                      !.todo = Tail(r.todo),
                      !.saved = With(r.saved, f, Head(r.todo))]]
        /\ UNCHANGED <<tables, history, overlapped>>

(* _process_one: the SELECT for a duplicate, then the blob is saved.       *)
ProcessOne(w, f) ==
    LET r == req[w]
    IN  /\ r.op = "upload" /\ r.todo # << >>
        /\ Head(r.todo) # Invalid
        /\ ~Duplicate(Head(r.todo))
        /\ Unused(f)
        /\ blobs' = blobs \cup {f}
        /\ req' = [req EXCEPT ![w] = [r EXCEPT
                      !.todo = Tail(r.todo),
                      !.saved = With(r.saved, f, Head(r.todo))]]
        /\ UNCHANGED <<tables, history, overlapped>>

(* Faulty variants: the blobs of the files before the refused one are kept; *)
(* the exception is not raised again, so the request commits.              *)
RejectUpload_NoCleanup(w) ==
    /\ req[w].op = "upload"
    /\ req[w].todo # << >> =>
          Head(req[w].todo) = Invalid \/ Duplicate(Head(req[w].todo))
    /\ Finish(w)
    /\ UNCHANGED <<tables, blobs, history, overlapped>>

RejectUpload_Swallowed(w) ==
    LET r == req[w]
    IN  /\ r.op = "upload"
        /\ r.todo # << >> => Head(r.todo) = Invalid \/ Duplicate(Head(r.todo))
        /\ blobs' = blobs \ Saved(w)
        /\ files' = Union(files, r.saved)
        /\ timeline' = [timeline EXCEPT !.uploaded = @ \cup {Saved(w)}]
        /\ Finish(w)
        /\ UNCHANGED <<closed, runs, history, overlapped>>

(* The exception path: a file is refused, or the flush fails.  The blobs   *)
(* saved so far are deleted one by one; one that cannot be deleted stays   *)
(* and the loop goes on.                                                   *)
RejectUpload(w) ==
    /\ req[w].op = "upload"
    /\ req[w].todo # << >> =>
          Head(req[w].todo) = Invalid \/ Duplicate(Head(req[w].todo))
    /\ \E kept \in SUBSET Saved(w) :
          /\ kept # {} => "unlink" \in Faults
          /\ blobs' = blobs \ (Saved(w) \ kept)
          /\ cut' = cut \cup kept
    /\ Finish(w)
    /\ UNCHANGED <<tables, unlinked, overlapped>>

CommitUpload(w) ==
    LET r == req[w]
    IN  /\ r.op = "upload" /\ r.todo = << >>
        /\ files' = Union(files, r.saved)
        /\ timeline' = [timeline EXCEPT !.uploaded = @ \cup {Saved(w)}]
        /\ Finish(w)
        /\ UNCHANGED <<closed, blobs, runs, history, overlapped>>

-----------------------------------------------------------------------------
(* delete_file: the row is SELECTed ...                                    *)
SelectFile(w, f) ==
    /\ f \in Stored
    /\ Receive(w, [NoRequest EXCEPT !.op = "delete", !.file = f])
    /\ UNCHANGED <<tables, blobs, history>>

(* Faulty variant: only runs that are not over protect their files.        *)
Deletable_QueuedOnly(f) ==
    \A i \in DOMAIN runs : runs[i].status = "queued" => f \notin runs[i].files

(* ... _assert_deletable SELECTs the runs of the incident ...              *)
Deletable(f) ==
    \A i \in DOMAIN runs :
        /\ f \notin runs[i].files
        /\ runs[i].status \notin InProgress

CheckDeletable(w) ==
    /\ req[w].op = "delete"
    /\ req' = [req EXCEPT ![w] = IF Deletable(req[w].file)
                                 THEN [req[w] EXCEPT !.op = "deletable"]
                                 ELSE NoRequest]
    /\ UNCHANGED <<tables, blobs, history, overlapped>>

(* ... the flush of the DELETE waits while another deletion has the row    *)
(* locked; then the blob, if there is one, is removed ...                  *)
RowLocked(f) == \E w \in Workers : req[w].op = "unlinked" /\ req[w].file = f

(* Faulty variant: a blob that is not there is retried.                    *)
Unlink_RetriesMissing(w) ==
    /\ req[w].op = "deletable"
    /\ req[w].file \in blobs
    /\ ~(req[w].file \in Stored /\ RowLocked(req[w].file))
    /\ blobs' = blobs \ {req[w].file}
    /\ unlinked' = unlinked \cup {req[w].file}
    /\ req' = [req EXCEPT ![w] = [req[w] EXCEPT !.op = "unlinked"]]
    /\ UNCHANGED <<tables, cut, overlapped>>

Unlink(w) ==
    /\ req[w].op = "deletable"
    /\ ~(req[w].file \in Stored /\ RowLocked(req[w].file))
    /\ blobs' = blobs \ {req[w].file}
    /\ unlinked' = unlinked \cup {req[w].file}
    /\ req' = [req EXCEPT ![w] = [req[w] EXCEPT !.op = "unlinked"]]
    /\ UNCHANGED <<tables, cut, overlapped>>

(* Faulty variants: no event for the deletion; the row is left.            *)
CommitDelete_Silent(w) ==
    LET f == req[w].file
    IN  /\ req[w].op = "unlinked"
        /\ files' = [x \in Stored \ {f} |-> files[x]]
        /\ Finish(w)
        /\ UNCHANGED <<closed, blobs, runs, timeline, history, overlapped>>

CommitDelete_KeepsRow(w) ==
    LET f == req[w].file
        count == timeline.deleted[f] + 1
    IN  /\ req[w].op = "unlinked"
        /\ timeline' = [timeline EXCEPT !.deleted =
                           [x \in Files |-> IF x = f THEN count
                                            ELSE timeline.deleted[x]]]
        /\ Finish(w)
        /\ UNCHANGED <<closed, files, blobs, runs, history, overlapped>>

(* ... and the DELETE and the event are committed.  A DELETE that matches  *)
(* no row any more is not an error.                                        *)
CommitDelete(w) ==
    LET f == req[w].file
        count == timeline.deleted[f] + 1
    IN  /\ req[w].op = "unlinked"
        /\ files' = [x \in Stored \ {f} |-> files[x]]
        /\ timeline' = [timeline EXCEPT !.deleted =
                           [x \in Files |-> IF x = f THEN count
                                            ELSE timeline.deleted[x]]]
        /\ Finish(w)
        /\ UNCHANGED <<closed, blobs, runs, history, overlapped>>

-----------------------------------------------------------------------------
(* start_analysis, and reanalyse which calls it: the incident and the      *)
(* files are SELECTed; every file is stored with validation_status valid.  *)
LoadStart(w, chosen) ==
    /\ ~closed
    /\ chosen \subseteq Stored
    /\ Receive(w, [NoRequest EXCEPT !.op = "start", !.chosen = chosen])
    /\ UNCHANGED <<tables, blobs, history>>

(* The incident's latest_analysis_run_id is the last run from here on.     *)
CommitStart(w) ==
    /\ req[w].op = "start"
    /\ Len(runs) < MaxRuns
    /\ runs' = Append(runs, [status |-> "queued", files |-> req[w].chosen])
    /\ timeline' = [timeline EXCEPT !.queued = @ + 1]
    /\ Finish(w)
    /\ UNCHANGED <<closed, files, blobs, history, overlapped>>

LoadCancel(w, i) ==
    /\ runs[i].status \in Cancellable
    /\ Receive(w, [NoRequest EXCEPT !.op = "cancel", !.run = i])
    /\ UNCHANGED <<tables, blobs, history>>

(* Faulty variant: a status that AnalysisRunStatus does not have.          *)
CommitCancel_Cancelled(w) ==
    /\ req[w].op = "cancel"
    /\ runs' = [runs EXCEPT ![req[w].run] =
                   [runs[req[w].run] EXCEPT !.status = "cancelled"]]
    /\ Finish(w)
    /\ UNCHANGED <<closed, files, blobs, timeline, history, overlapped>>

(* A cancelled run keeps its input_summary, and no event is recorded.      *)
CommitCancel(w) ==
    /\ req[w].op = "cancel"
    /\ runs' = [runs EXCEPT ![req[w].run] =
                   [runs[req[w].run] EXCEPT !.status = "failed"]]
    /\ Finish(w)
    /\ UNCHANGED <<closed, files, blobs, timeline, history, overlapped>>

-----------------------------------------------------------------------------
(* An exception before anything but the database was touched.              *)
Rollback(w) ==
    /\ req[w].op \in {"delete", "deletable", "start", "cancel"}
    /\ Finish(w)
    /\ UNCHANGED <<tables, blobs, history, overlapped>>

(* The process stops, the client's disconnection cancels the request, or   *)
(* the commit fails once the handler has returned: none of them is seen by *)
(* the except clause of upload_incident_files.                             *)
Abandon(w) ==
    /\ "crash" \in Faults
    /\ req[w].op \in {"upload", "unlinked"}
    /\ cut' = cut \cup (IF req[w].op = "upload" THEN Saved(w) ELSE {req[w].file})
    /\ Finish(w)
    /\ UNCHANGED <<tables, blobs, unlinked, overlapped>>

(* The steps of a handler that was called and meets no failure.            *)
Step(w) ==
    \/ \E f \in Files : ProcessOne(w, f)
    \/ RejectUpload(w) \/ CommitUpload(w)
    \/ CheckDeletable(w) \/ Unlink(w) \/ CommitDelete(w)
    \/ CommitStart(w) \/ CommitCancel(w)

Batches == SeqOf(Contents \cup {Invalid}, MaxBatch) \ {<< >>}

Next ==
    \/ ChangeStatus
    \/ \E w \in Workers :
          \/ Step(w)
          \/ Rollback(w)
          \/ Abandon(w)
          \/ \E batch \in Batches : LoadUpload(w, batch)
          \/ \E f \in Files : SelectFile(w, f)
          \/ \E chosen \in SUBSET Files : LoadStart(w, chosen)
          \/ \E i \in DOMAIN runs : LoadCancel(w, i)

Spec == Init /\ [][Next]_vars

(* The event loop runs every handler on, and the database queues those     *)
(* that wait for a row lock: a waiter gets it although later requests take *)
(* it and are cut off again and again.                                     *)
FairSpec == Spec /\ \A w \in Workers : WF_vars(Step(w)) /\ SF_vars(Unlink(w))

-----------------------------------------------------------------------------
(* Type invariant.  saved and files are keyed by the ids drawn so far.     *)
Request == [op: Op, todo: Seq(Contents \cup {Invalid}),
            saved: UNION {[ids -> Contents] : ids \in SUBSET Files},
            file: Files \cup {NoFile}, chosen: SUBSET Files, run: Nat]

TypeOK ==
    /\ closed \in BOOLEAN
    /\ Stored \subseteq Files
    /\ files \in [Stored -> Contents]
    /\ blobs \subseteq Files
    /\ runs \in Seq(Run)
    /\ timeline \in Timeline
    /\ unlinked \subseteq Files
    /\ cut \subseteq Files
    /\ overlapped \in BOOLEAN
    /\ req \in [Workers -> Request]

(* upload_incident_files saves before it inserts and delete_file unlinks   *)
(* last: a file whose deletion never reached the storage has its blob,     *)
(* also after crashes.                                                     *)
FilesHaveBlobs == Stored \ unlinked \subseteq blobs

(* The except clause of upload_incident_files: a blob belongs to a row, to *)
(* an upload in flight, or to a request that a fault has cut off.          *)
NoOrphanBlobs ==
    blobs \subseteq Stored \cup cut \cup UNION {Saved(w) : w \in Workers}

(* delete_file: a row without its blob is about to be deleted, unless a    *)
(* fault has cut its deletion off.                                         *)
NoDanglingRows ==
    \A f \in Stored \ (blobs \cup cut) : RowLocked(f)

(* _record_event in upload_incident_files and delete_file: the timeline    *)
(* accounts for every file, those that were deleted included.              *)
TimelineAccountsForFiles ==
    Stored = {f \in UNION timeline.uploaded : timeline.deleted[f] = 0}

(* delete_file: unless requests have overlapped, a deletion is recorded    *)
(* once.                                                                   *)
DeletedOnce == ~overlapped => \A f \in Files : timeline.deleted[f] <= 1

(* _validate_analysis_file_ids and _assert_deletable, "File cannot be      *)
(* deleted after analysis has started": unless requests have overlapped,   *)
(* the files of a run, a cancelled one included, are there.                *)
AnalysedFilesAreKept ==
    ~overlapped => \A i \in DOMAIN runs : runs[i].files \subseteq Stored

(* DuplicateFileError, "A file with the same content already exists for    *)
(* this incident": two files with the same content were uploaded in one    *)
(* batch (_process_one does not see the records of its own batch), unless  *)
(* requests have overlapped.                                               *)
DuplicatesShareABatch ==
    ~overlapped =>
        \A f, g \in Stored : files[f] = files[g] =>
            \E batch \in timeline.uploaded : {f, g} \subseteq batch

(* delete_file: a deletion that waits for another's row lock ends.         *)
DeletionsEnd ==
    \A w \in Workers : req[w].op \in {"delete", "deletable", "unlinked"} ~> Idle(w)
=============================================================================
