------------------------ MODULE AnalysisFiles_proofs ------------------------
(***************************************************************************)
(* Proofs about AnalysisFiles, for any number of requests, files and runs  *)
(* and for any set of faults.  Whatever overlaps and is cut off: rows,     *)
(* blobs and timeline agree as far as the handlers can make them.  While   *)
(* no two requests have overlapped: a deletion is recorded once, the files *)
(* of a run are kept, and a duplicate comes from the same batch.           *)
(***************************************************************************)
EXTENDS AnalysisFiles, TLAPS

-----------------------------------------------------------------------------
(* The files that were ever committed.                                     *)
Uploaded == UNION timeline.uploaded

(* What a request holds.  The ids that an upload has drawn are new to the  *)
(* tables, and their blobs are in the storage.                             *)
RequestOK(r) ==
    /\ r.op # "upload" => DOMAIN r.saved = {}
    /\ DOMAIN r.saved \subseteq blobs \ Uploaded
    /\ r.op \in {"delete", "deletable", "unlinked"} => r.file \in Uploaded
    /\ r.op = "unlinked" => r.file \in unlinked
    /\ r.op = "cancel" => r.run \in DOMAIN runs

RequestsOK ==
    /\ req \in [Workers -> Request]
    /\ \A w \in Workers : RequestOK(req[w])
    /\ \A v, w \in Workers : v # w => Saved(v) \cap Saved(w) = {}

TablesOK ==
    /\ closed \in BOOLEAN
    /\ Stored \subseteq Files
    /\ files \in [Stored -> Contents]
    /\ blobs \subseteq Files
    /\ runs \in Seq(Run)
    /\ timeline \in Timeline
    /\ cut \subseteq Files
    /\ overlapped \in BOOLEAN
    /\ unlinked \subseteq Uploaded \ blobs
    /\ \A f \in Files : timeline.deleted[f] # 0 => f \in Uploaded

IInv ==
    /\ TablesOK
    /\ RequestsOK
    /\ FilesHaveBlobs
    /\ NoOrphanBlobs
    /\ NoDanglingRows
    /\ TimelineAccountsForFiles

-----------------------------------------------------------------------------
SavedSet == UNION {[ids -> Contents] : ids \in SUBSET Files}

LEMMA SavedType ==
    \A s : s \in SavedSet <=> DOMAIN s \subseteq Files /\ s \in [DOMAIN s -> Contents]
BY DEF SavedSet

LEMMA RequestType ==
    ASSUME NEW r \in Request
    PROVE  /\ DOMAIN r.saved \subseteq Files /\ r.saved \in [DOMAIN r.saved -> Contents]
           /\ r.op \in Op /\ r.todo \in Seq(Contents \cup {Invalid})
           /\ r.chosen \subseteq Files /\ r.run \in Nat
BY SavedType DEF Request, SavedSet

LEMMA NoRequestType ==
    /\ NoRequest \in Request
    /\ NoRequest.op = "idle" /\ DOMAIN NoRequest.saved = {}
    /\ NoRequest.todo = << >>
<1>1. << >> \in SavedSet /\ DOMAIN << >> = {}
  <2>1. DOMAIN << >> = {} /\ << >> \in [{} -> Contents]
    OBVIOUS
  <2> QED
    BY <2>1 DEF SavedSet
<1>2. << >> \in Seq(Contents \cup {Invalid})
  OBVIOUS
<1> QED
  BY <1>1, <1>2 DEF NoRequest, Request, Op, SavedSet

LEMMA WithType ==
    ASSUME NEW s \in SavedSet, NEW f \in Files, NEW c \in Contents
    PROVE  LET t == With(s, f, c)
           IN  /\ t \in SavedSet /\ DOMAIN t = DOMAIN s \cup {f} /\ t[f] = c
               /\ \A x \in DOMAIN s \ {f} : t[x] = s[x]
<1> DEFINE t == With(s, f, c)
<1>1. DOMAIN s \subseteq Files /\ s \in [DOMAIN s -> Contents]
  BY SavedType
<1>2. /\ DOMAIN t = DOMAIN s \cup {f} /\ t[f] = c
      /\ \A x \in DOMAIN s \ {f} : t[x] = s[x]
  BY DEF With
<1>3. t \in [DOMAIN s \cup {f} -> Contents]
  BY <1>1 DEF With
<1>4. t \in SavedSet
  BY <1>1, <1>2, <1>3, SavedType
<1> QED
  BY <1>2, <1>4

LEMMA UploadedType == TablesOK => Uploaded \subseteq Files /\ Stored \subseteq Files
BY DEF TablesOK, Uploaded, Timeline

LEMMA StoredUploaded == TimelineAccountsForFiles => Stored \subseteq Uploaded
BY DEF TimelineAccountsForFiles, Uploaded

(* A batch of files, as the handler receives it.                           *)
LEMMA BatchType == Batches \subseteq Seq(Contents \cup {Invalid})
<1> SUFFICES ASSUME NEW b \in Batches PROVE b \in Seq(Contents \cup {Invalid})
  OBVIOUS
<1>1. PICK m \in 0..MaxBatch : b \in [1..m -> Contents \cup {Invalid}]
  BY DEF Batches, SeqOf
<1>2. m \in Nat
  BY MaxBatchAssumption
<1> QED
  BY <1>1, <1>2

-----------------------------------------------------------------------------
(* The other requests stay as they are: nothing is taken from them.        *)
LEMMA RequestKept ==
    ASSUME NEW CONSTANT r, RequestOK(r),
           Uploaded \subseteq Uploaded', unlinked \subseteq unlinked',
           DOMAIN runs \subseteq DOMAIN runs',
           DOMAIN r.saved \cap (blobs \ blobs') = {},
           DOMAIN r.saved \cap (Uploaded' \ Uploaded) = {}
    PROVE  RequestOK(r)'
BY DEF RequestOK

LEMMA RequestsStep ==
    ASSUME RequestsOK, NEW w \in Workers, NEW CONSTANT r \in Request,
           req' = [req EXCEPT ![w] = r], RequestOK(r)',
           Uploaded \subseteq Uploaded', unlinked \subseteq unlinked',
           DOMAIN runs \subseteq DOMAIN runs',
           \A v \in Workers \ {w} :
              /\ Saved(v) \cap (blobs \ blobs') = {}
              /\ Saved(v) \cap (Uploaded' \ Uploaded) = {}
              /\ Saved(v) \cap DOMAIN r.saved = {}
    PROVE  /\ RequestsOK'
           /\ req'[w] = r /\ \A v \in Workers \ {w} : req'[v] = req[v]
<1>1. /\ req' \in [Workers -> Request] /\ req'[w] = r
      /\ \A v \in Workers \ {w} : req'[v] = req[v]
  BY DEF RequestsOK
<1>2. ASSUME NEW v \in Workers \ {w} PROVE RequestOK(req[v])'
  <2>1. PICK q : q = req[v]
    OBVIOUS
  <2>2. RequestOK(q)'
    BY <2>1, RequestKept DEF RequestsOK, Saved
  <2> QED
    BY <1>1, <2>1, <2>2
<1>3. \A v \in Workers : RequestOK(req[v])'
  BY <1>1, <1>2
<1>4. \A v, u \in Workers : v # u => Saved(v)' \cap Saved(u)' = {}
  BY <1>1 DEF RequestsOK, Saved
<1> QED
  BY <1>1, <1>3, <1>4 DEF RequestsOK

(* A step that touches neither files, blobs nor what the timeline says of  *)
(* files, taken by a request that has nothing in the storage.              *)
LEMMA QuietStep ==
    ASSUME IInv, NEW w \in Workers, NEW CONSTANT r \in Request,
           req' = [req EXCEPT ![w] = r], RequestOK(r)', DOMAIN r.saved = {},
           Saved(w) = {}, req[w].op # "unlinked",
           UNCHANGED <<closed, files, blobs, unlinked, cut>>,
           timeline' \in Timeline, timeline'.uploaded = timeline.uploaded,
           timeline'.deleted = timeline.deleted,
           runs' \in Seq(Run), DOMAIN runs \subseteq DOMAIN runs',
           overlapped' \in BOOLEAN
    PROVE  IInv'
<1>1. Stored' = Stored /\ Uploaded' = Uploaded
  BY DEF Stored, Uploaded
<1>2. TablesOK'
  BY <1>1 DEF IInv, TablesOK
<1>3. RequestsOK' /\ req'[w] = r /\ \A v \in Workers \ {w} : req'[v] = req[v]
  BY <1>1, RequestsStep DEF IInv
<1>4. FilesHaveBlobs'
  BY <1>1 DEF IInv, FilesHaveBlobs
<1>5. NoOrphanBlobs'
  BY <1>1, <1>3 DEF IInv, NoOrphanBlobs, Saved
<1>6. NoDanglingRows'
  BY <1>1, <1>3 DEF IInv, NoDanglingRows, RowLocked
<1>7. TimelineAccountsForFiles'
  BY <1>1 DEF IInv, TimelineAccountsForFiles
<1> QED
  BY <1>2, <1>3, <1>4, <1>5, <1>6, <1>7 DEF IInv

-----------------------------------------------------------------------------
(* A request that was just received.                                       *)
LEMMA ReceiveStep ==
    ASSUME IInv, NEW w \in Workers, NEW r \in Request, RequestOK(r),
           DOMAIN r.saved = {}, Receive(w, r), UNCHANGED <<tables, blobs, history>>
    PROVE  IInv'
<1>1. /\ UNCHANGED <<closed, files, runs, timeline, blobs, unlinked, cut>>
      /\ req' = [req EXCEPT ![w] = r] /\ req[w].op = "idle"
      /\ overlapped' \in BOOLEAN
  BY DEF tables, history, Receive, Idle, IInv, TablesOK
<1>2. RequestOK(r)'
  BY <1>1 DEF RequestOK, Uploaded
<1>3. Saved(w) = {}
  BY <1>1 DEF IInv, RequestsOK, RequestOK, Saved
<1> QED
  BY <1>1, <1>2, <1>3, QuietStep DEF IInv, TablesOK

LEMMA LoadUploadStep ==
    ASSUME IInv, NEW w \in Workers, NEW batch \in Batches, LoadUpload(w, batch)
    PROVE  IInv'
<1> DEFINE r == [NoRequest EXCEPT !.op = "upload", !.todo = batch]
<1>1. r \in Request /\ r.op = "upload" /\ DOMAIN r.saved = {}
  BY NoRequestType, BatchType DEF Request, Op
<1>2. Receive(w, r) /\ UNCHANGED <<tables, blobs, history>>
  BY DEF LoadUpload
<1> HIDE DEF r
<1>3. RequestOK(r)
  BY <1>1 DEF RequestOK
<1> QED
  BY <1>1, <1>2, <1>3, ReceiveStep

LEMMA SelectFileStep ==
    ASSUME IInv, NEW w \in Workers, NEW f \in Files, SelectFile(w, f)
    PROVE  IInv'
<1> DEFINE r == [NoRequest EXCEPT !.op = "delete", !.file = f]
<1>1. r \in Request /\ r.op = "delete" /\ r.file = f /\ DOMAIN r.saved = {}
  BY NoRequestType DEF Request, Op
<1>2. Receive(w, r) /\ UNCHANGED <<tables, blobs, history>> /\ f \in Stored
  BY DEF SelectFile
<1> HIDE DEF r
<1>3. RequestOK(r)
  BY <1>1, <1>2, StoredUploaded DEF RequestOK, IInv
<1> QED
  BY <1>1, <1>2, <1>3, ReceiveStep

LEMMA LoadStartStep ==
    ASSUME IInv, NEW w \in Workers, NEW chosen \in SUBSET Files, LoadStart(w, chosen)
    PROVE  IInv'
<1> DEFINE r == [NoRequest EXCEPT !.op = "start", !.chosen = chosen]
<1>1. r \in Request /\ r.op = "start" /\ DOMAIN r.saved = {}
  BY NoRequestType DEF Request, Op
<1>2. Receive(w, r) /\ UNCHANGED <<tables, blobs, history>>
  BY DEF LoadStart
<1> HIDE DEF r
<1>3. RequestOK(r)
  BY <1>1 DEF RequestOK
<1> QED
  BY <1>1, <1>2, <1>3, ReceiveStep

LEMMA LoadCancelStep ==
    ASSUME IInv, NEW w \in Workers, NEW i \in DOMAIN runs, LoadCancel(w, i)
    PROVE  IInv'
<1> DEFINE r == [NoRequest EXCEPT !.op = "cancel", !.run = i]
<1>0. i \in Nat
  BY DEF IInv, TablesOK
<1>1. r \in Request /\ r.op = "cancel" /\ r.run = i /\ DOMAIN r.saved = {}
  BY <1>0, NoRequestType DEF Request, Op
<1>2. Receive(w, r) /\ UNCHANGED <<tables, blobs, history>>
  BY DEF LoadCancel
<1> HIDE DEF r
<1>3. RequestOK(r)
  BY <1>1 DEF RequestOK
<1> QED
  BY <1>1, <1>2, <1>3, ReceiveStep

-----------------------------------------------------------------------------
(* The steps that touch neither files nor blobs.                           *)
LEMMA CheckDeletableStep ==
    ASSUME IInv, NEW w \in Workers, CheckDeletable(w)
    PROVE  IInv'
<1>1. /\ UNCHANGED <<closed, files, runs, timeline, blobs, unlinked, cut, overlapped>>
      /\ req[w].op = "delete" /\ req[w] \in Request /\ RequestOK(req[w])
  BY DEF CheckDeletable, tables, history, IInv, RequestsOK
<1>2. PICK q \in Request : q = req[w]
  BY <1>1
<1> DEFINE p == [q EXCEPT !.op = "deletable"]
<1>3. /\ p \in Request /\ p.op = "deletable" /\ p.file = q.file /\ p.saved = q.saved
  BY DEF Request, Op
<1>4. req' = [req EXCEPT ![w] = p] \/ req' = [req EXCEPT ![w] = NoRequest]
  BY <1>2 DEF CheckDeletable
<1> HIDE DEF p
<1>5. DOMAIN q.saved = {} /\ Saved(w) = {} /\ q.file \in Uploaded
  BY <1>1, <1>2 DEF RequestOK, Saved
<1>6. RequestOK(p)' /\ RequestOK(NoRequest)'
  BY <1>1, <1>3, <1>5, NoRequestType DEF RequestOK, Uploaded
<1>7. PICK r : r \in {p, NoRequest} /\ req' = [req EXCEPT ![w] = r]
  BY <1>4
<1>8. r \in Request /\ RequestOK(r)' /\ DOMAIN r.saved = {}
  BY <1>3, <1>5, <1>6, <1>7, NoRequestType
<1> QED
  BY <1>1, <1>5, <1>7, <1>8, QuietStep DEF IInv, TablesOK

LEMMA QuietFinish ==
    ASSUME IInv, NEW w \in Workers, Finish(w), req[w].op \notin {"upload", "unlinked"},
           UNCHANGED <<closed, files, blobs, unlinked, cut, overlapped>>,
           timeline' \in Timeline, timeline'.uploaded = timeline.uploaded,
           timeline'.deleted = timeline.deleted,
           runs' \in Seq(Run), DOMAIN runs \subseteq DOMAIN runs'
    PROVE  IInv'
<1>1. req' = [req EXCEPT ![w] = NoRequest] /\ RequestOK(NoRequest)'
  BY NoRequestType DEF Finish, RequestOK
<1>2. Saved(w) = {}
  BY DEF IInv, RequestsOK, RequestOK, Saved
<1> QED
  BY <1>1, <1>2, NoRequestType, QuietStep DEF IInv, TablesOK

LEMMA CommitStartStep ==
    ASSUME IInv, NEW w \in Workers, CommitStart(w)
    PROVE  /\ IInv'
           /\ runs' = Append(runs, [status |-> "queued", files |-> req[w].chosen])
<1> DEFINE run == [status |-> "queued", files |-> req[w].chosen]
<1>1. run \in Run
  BY RequestType DEF IInv, RequestsOK, Run
<1>2. runs' = Append(runs, run)
  BY DEF CommitStart
<1> HIDE DEF run
<1>3. runs' \in Seq(Run) /\ DOMAIN runs \subseteq DOMAIN runs'
  BY <1>1, <1>2 DEF IInv, TablesOK
<1>4. /\ timeline' \in Timeline /\ timeline'.uploaded = timeline.uploaded
      /\ timeline'.deleted = timeline.deleted
  <2>1. timeline \in Timeline
    BY DEF IInv, TablesOK
  <2>2. PICK n \in Nat : n = timeline.queued + 1
    BY <2>1 DEF Timeline
  <2>3. timeline' = [timeline EXCEPT !.queued = n]
    BY <2>2 DEF CommitStart
  <2> QED
    BY <2>1, <2>3 DEF Timeline
<1>5. IInv'
  BY <1>3, <1>4, QuietFinish DEF CommitStart, history
<1> QED
  BY <1>2, <1>5 DEF run

LEMMA CommitCancelStep ==
    ASSUME IInv, NEW w \in Workers, CommitCancel(w)
    PROVE  /\ IInv'
           /\ DOMAIN runs' = DOMAIN runs
           /\ \A i \in DOMAIN runs : runs'[i].files = runs[i].files
<1> DEFINE i == req[w].run
           run == [runs[i] EXCEPT !.status = "failed"]
<1>1. i \in DOMAIN runs /\ runs[i] \in Run
  BY DEF CommitCancel, IInv, RequestsOK, RequestOK, TablesOK
<1>2. run \in Run /\ run.files = runs[i].files
  BY <1>1 DEF Run
<1>3. runs' = [runs EXCEPT ![i] = run]
  BY DEF CommitCancel
<1> HIDE DEF run, i
<1>4. /\ runs' \in Seq(Run) /\ DOMAIN runs' = DOMAIN runs
      /\ \A j \in DOMAIN runs : runs'[j].files = runs[j].files
  BY <1>1, <1>2, <1>3 DEF IInv, TablesOK
<1>5. IInv'
  BY <1>4, QuietFinish DEF CommitCancel, history, IInv, TablesOK
<1> QED
  BY <1>4, <1>5

LEMMA RollbackStep ==
    ASSUME IInv, NEW w \in Workers, Rollback(w)
    PROVE  IInv'
BY QuietFinish DEF Rollback, tables, history, IInv, TablesOK

LEMMA UnchangedStep ==
    ASSUME IInv, closed' \in BOOLEAN,
           UNCHANGED <<files, blobs, runs, timeline, unlinked, cut, overlapped, req>>
    PROVE  IInv'
BY DEF IInv, TablesOK, RequestsOK, RequestOK, FilesHaveBlobs, NoOrphanBlobs, NoDanglingRows,
       TimelineAccountsForFiles, Stored, Uploaded, Saved, RowLocked

-----------------------------------------------------------------------------
(* The steps that touch files or blobs.                                    *)
LEMMA ProcessOneStep ==
    ASSUME IInv, NEW w \in Workers, NEW f \in Files, ProcessOne(w, f)
    PROVE  /\ IInv'
           /\ Saved(w)' = Saved(w) \cup {f} /\ req'[w].op = "upload"
           /\ req'[w].saved[f] = Head(req[w].todo)
           /\ \A x \in Saved(w) : req'[w].saved[x] = req[w].saved[x]
           /\ \A v \in Workers \ {w} : req'[v] = req[v]
<1>1. PICK q \in Request : q = req[w] /\ RequestOK(q)
  BY DEF IInv, RequestsOK
<1>2. /\ q.op = "upload" /\ q.todo # << >> /\ Head(q.todo) # Invalid
      /\ f \notin Stored \cup blobs \cup unlinked \cup Uploaded
      /\ \A v \in Workers : f \notin Saved(v)
      /\ blobs' = blobs \cup {f}
      /\ UNCHANGED <<closed, files, runs, timeline, unlinked, cut, overlapped>>
  BY <1>1 DEF ProcessOne, Unused, Uploaded, tables, history
<1> DEFINE c == Head(q.todo)
           saved == With(q.saved, f, c)
           todo == Tail(q.todo)
           r == [q EXCEPT !.todo = todo, !.saved = saved]
<1>3. c \in Contents /\ todo \in Seq(Contents \cup {Invalid})
  <2>1. q.todo \in Seq(Contents \cup {Invalid})
    BY DEF Request
  <2> QED
    BY <1>2, <2>1
<1>4. req' = [req EXCEPT ![w] = r]
  BY <1>1 DEF ProcessOne
<1> HIDE DEF c, todo
<1>5. /\ saved \in SavedSet /\ DOMAIN saved = DOMAIN q.saved \cup {f}
      /\ saved[f] = c /\ \A x \in DOMAIN q.saved \ {f} : saved[x] = q.saved[x]
  <2>1. q.saved \in SavedSet
    BY DEF Request, SavedSet
  <2>2. LET new == With(q.saved, f, c)
        IN  /\ new \in SavedSet /\ DOMAIN new = DOMAIN q.saved \cup {f}
            /\ new[f] = c
            /\ \A x \in DOMAIN q.saved \ {f} : new[x] = q.saved[x]
    BY <2>1, <1>3, WithType
  <2> QED
    BY <2>2
<1> HIDE DEF saved
<1>6. /\ r \in Request /\ r.op = q.op /\ r.file = q.file /\ r.run = q.run
      /\ r.saved = saved
  BY <1>3, <1>5 DEF Request, SavedSet
<1> HIDE DEF r
<1>7. Stored' = Stored /\ Uploaded' = Uploaded
  BY <1>2 DEF Stored, Uploaded
<1>8. RequestOK(r)'
  BY <1>1, <1>2, <1>5, <1>6, <1>7 DEF RequestOK
<1>9. RequestsOK' /\ req'[w] = r /\ \A v \in Workers \ {w} : req'[v] = req[v]
  <2>1. \A v \in Workers \ {w} : /\ Saved(v) \cap (blobs \ blobs') = {}
                                 /\ Saved(v) \cap (Uploaded' \ Uploaded) = {}
                                 /\ Saved(v) \cap DOMAIN r.saved = {}
    BY <1>1, <1>2, <1>5, <1>6, <1>7 DEF IInv, RequestsOK, Saved
  <2>2. /\ Uploaded \subseteq Uploaded' /\ unlinked \subseteq unlinked'
        /\ DOMAIN runs \subseteq DOMAIN runs'
    BY <1>2, <1>7
  <2> QED
    BY <2>1, <2>2, <1>4, <1>6, <1>8, RequestsStep DEF IInv
<1>10. TablesOK'
  BY <1>2, <1>7 DEF IInv, TablesOK
<1>11. FilesHaveBlobs'
  BY <1>2, <1>7 DEF IInv, FilesHaveBlobs
<1>12. NoOrphanBlobs'
  BY <1>1, <1>2, <1>5, <1>6, <1>7, <1>9 DEF IInv, NoOrphanBlobs, Saved
<1>13. NoDanglingRows'
  BY <1>1, <1>2, <1>6, <1>7, <1>9 DEF IInv, NoDanglingRows, RowLocked
<1>14. TimelineAccountsForFiles'
  BY <1>2, <1>7 DEF IInv, TimelineAccountsForFiles
<1>15. /\ req'[w].op = "upload" /\ Saved(w)' = Saved(w) \cup {f}
       /\ req'[w].saved[f] = Head(req[w].todo)
       /\ \A x \in Saved(w) : req'[w].saved[x] = req[w].saved[x]
  BY <1>1, <1>2, <1>5, <1>6, <1>9 DEF Saved, c
<1> QED
  BY <1>9, <1>10, <1>11, <1>12, <1>13, <1>14, <1>15 DEF IInv

(* The end of a request: what it leaves of its own blobs is cut off.       *)
LEMMA FinishRequests ==
    ASSUME RequestsOK, NEW w \in Workers, Finish(w),
           Uploaded \subseteq Uploaded', unlinked \subseteq unlinked',
           DOMAIN runs \subseteq DOMAIN runs',
           \A v \in Workers \ {w} :
              /\ Saved(v) \cap (blobs \ blobs') = {}
              /\ Saved(v) \cap (Uploaded' \ Uploaded) = {}
    PROVE  /\ RequestsOK'
           /\ Saved(w)' = {} /\ req'[w].op = "idle"
           /\ \A v \in Workers \ {w} : req'[v] = req[v] /\ Saved(v)' = Saved(v)
<1>1. RequestOK(NoRequest)'
  BY NoRequestType DEF RequestOK
<1>2. req' = [req EXCEPT ![w] = NoRequest]
  BY DEF Finish
<1>3. RequestsOK' /\ req'[w] = NoRequest /\ \A v \in Workers \ {w} : req'[v] = req[v]
  BY <1>1, <1>2, NoRequestType, RequestsStep
<1> QED
  BY <1>3, NoRequestType DEF Saved

LEMMA RejectUploadStep ==
    ASSUME IInv, NEW w \in Workers, RejectUpload(w)
    PROVE  IInv'
<1>1. PICK kept \in SUBSET Saved(w) :
         /\ blobs' = blobs \ (Saved(w) \ kept)
         /\ cut' = cut \cup kept
  BY DEF RejectUpload
<1>2. /\ Finish(w) /\ req[w].op = "upload"
      /\ UNCHANGED <<closed, files, runs, timeline, unlinked, overlapped>>
  BY DEF RejectUpload, tables
<1>3. Stored' = Stored /\ Uploaded' = Uploaded
  BY <1>2 DEF Stored, Uploaded
<1>4. /\ Saved(w) \subseteq Files /\ Saved(w) \cap Uploaded = {}
      /\ \A v \in Workers \ {w} : Saved(v) \cap Saved(w) = {}
  BY RequestType DEF IInv, RequestsOK, RequestOK, Saved
<1>5. /\ RequestsOK' /\ Saved(w)' = {} /\ req'[w].op = "idle"
      /\ \A v \in Workers \ {w} : req'[v] = req[v] /\ Saved(v)' = Saved(v)
  BY <1>1, <1>2, <1>3, <1>4, FinishRequests DEF IInv
<1>6. TablesOK'
  BY <1>1, <1>2, <1>3, <1>4 DEF IInv, TablesOK
<1>7. FilesHaveBlobs'
  BY <1>1, <1>2, <1>3, <1>4, StoredUploaded DEF IInv, FilesHaveBlobs
<1>8. NoOrphanBlobs'
  BY <1>1, <1>3, <1>5 DEF IInv, NoOrphanBlobs
<1>9. NoDanglingRows'
  <2>1. ASSUME NEW f \in Stored \ (blobs' \cup cut') PROVE f \notin blobs \cup cut
    BY <1>1, <1>4, StoredUploaded DEF IInv
  <2> QED
    BY <2>1, <1>2, <1>3, <1>5 DEF IInv, NoDanglingRows, RowLocked
<1>10. TimelineAccountsForFiles'
  BY <1>2, <1>3 DEF IInv, TimelineAccountsForFiles
<1> QED
  BY <1>5, <1>6, <1>7, <1>8, <1>9, <1>10 DEF IInv

LEMMA CommitUploadStep ==
    ASSUME IInv, NEW w \in Workers, CommitUpload(w)
    PROVE  /\ IInv'
           /\ Stored' = Stored \cup Saved(w) /\ Stored \cap Saved(w) = {}
           /\ \A x \in Saved(w) : files'[x] = req[w].saved[x]
           /\ \A x \in Stored : files'[x] = files[x]
           /\ timeline'.uploaded = timeline.uploaded \cup {Saved(w)}
           /\ timeline'.deleted = timeline.deleted
<1>1. PICK q \in Request : q = req[w] /\ RequestOK(q)
  BY DEF IInv, RequestsOK
<1>2. /\ q.op = "upload" /\ files' = Union(files, q.saved) /\ Finish(w)
      /\ timeline' = [timeline EXCEPT !.uploaded = timeline.uploaded \cup {Saved(w)}]
      /\ UNCHANGED <<closed, blobs, runs, unlinked, cut, overlapped>>
  BY <1>1 DEF CommitUpload, history
<1>3. /\ Saved(w) = DOMAIN q.saved /\ q.saved \in [Saved(w) -> Contents]
      /\ Saved(w) \subseteq Files /\ Saved(w) \subseteq blobs
      /\ Saved(w) \cap Uploaded = {}
      /\ \A v \in Workers \ {w} : Saved(v) \cap Saved(w) = {}
  BY <1>1, RequestType DEF IInv, RequestsOK, RequestOK, Saved
<1>4. Saved(w) \cap Stored = {}
  BY <1>3, StoredUploaded DEF IInv
<1>5. /\ files' \in [Stored \cup Saved(w) -> Contents]
      /\ DOMAIN files' = Stored \cup Saved(w)
      /\ \A x \in Saved(w) : files'[x] = q.saved[x]
      /\ \A x \in Stored : files'[x] = files[x]
  <2>1. files \in [Stored -> Contents]
    BY DEF IInv, TablesOK
  <2>2. LET new == Union(files, q.saved)
        IN  /\ new \in [Stored \cup Saved(w) -> Contents]
            /\ DOMAIN new = Stored \cup Saved(w)
            /\ \A x \in Saved(w) : new[x] = q.saved[x]
            /\ \A x \in Stored : new[x] = files[x]
    BY <2>1, <1>3, <1>4 DEF Union
  <2> QED
    BY <2>2, <1>2
<1>6. /\ timeline' \in Timeline
      /\ timeline'.uploaded = timeline.uploaded \cup {Saved(w)}
      /\ timeline'.deleted = timeline.deleted
  <2>1. timeline \in Timeline
    BY DEF IInv, TablesOK
  <2>2. PICK batches \in SUBSET SUBSET Files :
           batches = timeline.uploaded \cup {Saved(w)}
    BY <2>1, <1>3 DEF Timeline
  <2>3. timeline' = [timeline EXCEPT !.uploaded = batches]
    BY <2>2, <1>2
  <2> QED
    BY <2>1, <2>2, <2>3 DEF Timeline
<1>7. Stored' = Stored \cup Saved(w) /\ Uploaded' = Uploaded \cup Saved(w)
  BY <1>5, <1>6 DEF Stored, Uploaded
<1>8. /\ RequestsOK' /\ Saved(w)' = {} /\ req'[w].op = "idle"
      /\ \A v \in Workers \ {w} : req'[v] = req[v] /\ Saved(v)' = Saved(v)
  BY <1>2, <1>3, <1>7, FinishRequests DEF IInv
<1>9. TablesOK'
  BY <1>2, <1>3, <1>5, <1>6, <1>7 DEF IInv, TablesOK
<1>10. FilesHaveBlobs'
  BY <1>2, <1>3, <1>7 DEF IInv, FilesHaveBlobs
<1>11. NoOrphanBlobs'
  BY <1>2, <1>7, <1>8 DEF IInv, NoOrphanBlobs
<1>12. NoDanglingRows'
  BY <1>1, <1>2, <1>3, <1>7, <1>8 DEF IInv, NoDanglingRows, RowLocked
<1>13. TimelineAccountsForFiles'
  <2>1. \A f \in Saved(w) : timeline.deleted[f] = 0
    BY <1>3 DEF IInv, TablesOK
  <2>2. Stored = {f \in Uploaded : timeline.deleted[f] = 0}
    BY DEF IInv, TimelineAccountsForFiles, Uploaded
  <2>3. Stored' = {f \in Uploaded' : timeline'.deleted[f] = 0}
    BY <2>1, <2>2, <1>6, <1>7
  <2> QED
    BY <2>3 DEF TimelineAccountsForFiles, Uploaded
<1> QED
  BY <1>1, <1>4, <1>5, <1>6, <1>7, <1>8, <1>9, <1>10, <1>11, <1>12, <1>13 DEF IInv

LEMMA UnlinkStep ==
    ASSUME IInv, NEW w \in Workers, Unlink(w)
    PROVE  /\ IInv'
           /\ req'[w].op = "unlinked" /\ req'[w].file = req[w].file
           /\ \A v \in Workers \ {w} : req'[v] = req[v]
<1>1. PICK q \in Request : q = req[w] /\ RequestOK(q)
  BY DEF IInv, RequestsOK
<1> DEFINE f == q.file
           r == [q EXCEPT !.op = "unlinked"]
<1>2. /\ q.op = "deletable" /\ f \in Uploaded
      /\ blobs' = blobs \ {f} /\ unlinked' = unlinked \cup {f}
      /\ req' = [req EXCEPT ![w] = r]
      /\ UNCHANGED <<closed, files, runs, timeline, cut, overlapped>>
  BY <1>1 DEF Unlink, tables, RequestOK
<1>3. /\ r \in Request /\ r.op = "unlinked" /\ r.file = f /\ r.saved = q.saved
  BY DEF Request, Op
<1> HIDE DEF f, r
<1>4. Stored' = Stored /\ Uploaded' = Uploaded
  BY <1>2 DEF Stored, Uploaded
<1>5. DOMAIN q.saved = {} /\ Saved(w) = {}
  BY <1>1, <1>2 DEF RequestOK, Saved
<1>6. RequestOK(r)'
  BY <1>2, <1>3, <1>4, <1>5 DEF RequestOK
<1>7. RequestsOK' /\ req'[w] = r /\ \A v \in Workers \ {w} : req'[v] = req[v]
  <2>1. \A v \in Workers \ {w} : /\ Saved(v) \cap (blobs \ blobs') = {}
                                 /\ Saved(v) \cap (Uploaded' \ Uploaded) = {}
                                 /\ Saved(v) \cap DOMAIN r.saved = {}
    BY <1>2, <1>3, <1>4, <1>5 DEF IInv, RequestsOK, RequestOK, Saved
  <2>2. /\ Uploaded \subseteq Uploaded' /\ unlinked \subseteq unlinked'
        /\ DOMAIN runs \subseteq DOMAIN runs'
    BY <1>2, <1>4
  <2> QED
    BY <2>1, <2>2, <1>2, <1>3, <1>6, RequestsStep DEF IInv
<1>8. TablesOK'
  BY <1>2, <1>4 DEF IInv, TablesOK
<1>9. FilesHaveBlobs'
  BY <1>2, <1>4 DEF IInv, FilesHaveBlobs
<1>10. NoOrphanBlobs'
  BY <1>2, <1>3, <1>4, <1>5, <1>7 DEF IInv, NoOrphanBlobs, Saved
<1>11. NoDanglingRows'
  BY <1>1, <1>2, <1>3, <1>4, <1>7 DEF IInv, NoDanglingRows, RowLocked
<1>12. TimelineAccountsForFiles'
  BY <1>2, <1>4 DEF IInv, TimelineAccountsForFiles
<1> QED
  BY <1>1, <1>3, <1>7, <1>8, <1>9, <1>10, <1>11, <1>12 DEF IInv, f

LEMMA CommitDeleteStep ==
    ASSUME IInv, NEW w \in Workers, CommitDelete(w)
    PROVE  LET f == req[w].file
           IN  /\ IInv'
               /\ Stored' = Stored \ {f}
               /\ \A x \in Stored' : files'[x] = files[x]
               /\ timeline'.uploaded = timeline.uploaded
               /\ f \in Files /\ timeline'.deleted[f] = timeline.deleted[f] + 1
               /\ \A x \in Files \ {f} : timeline'.deleted[x] = timeline.deleted[x]
<1>1. PICK q \in Request : q = req[w] /\ RequestOK(q)
  BY DEF IInv, RequestsOK
<1>2. PICK f \in Files : f = q.file /\ f \in Uploaded /\ f \in unlinked
  BY <1>1, UploadedType DEF CommitDelete, RequestOK, IInv
<1>3. PICK count \in Nat : count = timeline.deleted[f] + 1 /\ count # 0
  BY DEF IInv, TablesOK, Timeline
<1> DEFINE deleted == [x \in Files |-> IF x = f THEN count ELSE timeline.deleted[x]]
<1>4. /\ q.op = "unlinked" /\ Finish(w)
      /\ files' = [x \in Stored \ {f} |-> files[x]]
      /\ timeline' = [timeline EXCEPT !.deleted = deleted]
      /\ UNCHANGED <<closed, blobs, runs, unlinked, cut, overlapped>>
  BY <1>1, <1>2, <1>3 DEF CommitDelete, history
<1>5. deleted \in [Files -> Nat] /\ deleted[f] = count
      /\ \A x \in Files \ {f} : deleted[x] = timeline.deleted[x]
  BY DEF IInv, TablesOK, Timeline
<1> HIDE DEF deleted
<1>6. /\ timeline' \in Timeline /\ timeline'.uploaded = timeline.uploaded
      /\ timeline'.deleted = deleted
  <2>1. timeline \in Timeline
    BY DEF IInv, TablesOK
  <2> QED
    BY <2>1, <1>4, <1>5 DEF Timeline
<1>7. /\ files' \in [Stored \ {f} -> Contents] /\ DOMAIN files' = Stored \ {f}
      /\ \A x \in Stored \ {f} : files'[x] = files[x]
  BY <1>4 DEF IInv, TablesOK
<1>8. Stored' = Stored \ {f} /\ Uploaded' = Uploaded
  BY <1>6, <1>7 DEF Stored, Uploaded
<1>9. /\ RequestsOK' /\ Saved(w)' = {} /\ req'[w].op = "idle"
      /\ \A v \in Workers \ {w} : req'[v] = req[v] /\ Saved(v)' = Saved(v)
  BY <1>4, <1>8, FinishRequests DEF IInv
<1>10. TablesOK'
  BY <1>2, <1>4, <1>5, <1>6, <1>7, <1>8 DEF IInv, TablesOK
<1>11. FilesHaveBlobs'
  BY <1>4, <1>8 DEF IInv, FilesHaveBlobs
<1>12. NoOrphanBlobs'
  <2>1. Saved(w) = {} /\ f \notin blobs
    BY <1>1, <1>2, <1>4 DEF RequestOK, Saved, IInv, TablesOK
  <2> QED
    BY <2>1, <1>4, <1>8, <1>9 DEF IInv, NoOrphanBlobs
<1>13. NoDanglingRows'
  BY <1>1, <1>2, <1>4, <1>8, <1>9 DEF IInv, NoDanglingRows, RowLocked
<1>14. TimelineAccountsForFiles'
  <2>1. Stored = {x \in Uploaded : timeline.deleted[x] = 0}
    BY DEF IInv, TimelineAccountsForFiles, Uploaded
  <2>2. Stored' = {x \in Uploaded' : timeline'.deleted[x] = 0}
    BY <2>1, <1>3, <1>5, <1>6, <1>8, UploadedType DEF IInv
  <2> QED
    BY <2>2 DEF TimelineAccountsForFiles, Uploaded
<1>15. f = req[w].file
  BY <1>1, <1>2
<1> QED
  BY <1>3, <1>5, <1>6, <1>7, <1>8, <1>9, <1>10, <1>11, <1>12, <1>13, <1>14, <1>15 DEF IInv

(* What an upload has saved, or the row that lost its blob, is left.       *)
LEMMA AbandonStep ==
    ASSUME IInv, NEW w \in Workers, Abandon(w)
    PROVE  IInv'
<1>1. PICK q \in Request : q = req[w] /\ RequestOK(q)
  BY DEF IInv, RequestsOK
<1>2. /\ q.op \in {"upload", "unlinked"} /\ Finish(w)
      /\ cut' = cut \cup (IF q.op = "upload" THEN Saved(w) ELSE {q.file})
      /\ UNCHANGED <<closed, files, blobs, runs, timeline, unlinked, overlapped>>
  BY <1>1 DEF Abandon, tables
<1>3. Stored' = Stored /\ Uploaded' = Uploaded
  BY <1>2 DEF Stored, Uploaded
<1>4. Saved(w) \subseteq Files /\ (q.op = "unlinked" => q.file \in Files /\ Saved(w) = {})
  BY <1>1, RequestType, UploadedType DEF RequestOK, Saved, IInv
<1>5. /\ RequestsOK' /\ Saved(w)' = {} /\ req'[w].op = "idle"
      /\ \A v \in Workers \ {w} : req'[v] = req[v] /\ Saved(v)' = Saved(v)
  BY <1>2, <1>3, FinishRequests DEF IInv
<1>6. TablesOK'
  BY <1>2, <1>3, <1>4 DEF IInv, TablesOK
<1>7. FilesHaveBlobs'
  BY <1>2, <1>3 DEF IInv, FilesHaveBlobs
<1>8. NoOrphanBlobs'
  BY <1>2, <1>3, <1>4, <1>5 DEF IInv, NoOrphanBlobs
<1>9. NoDanglingRows'
  BY <1>1, <1>2, <1>3, <1>5 DEF IInv, NoDanglingRows, RowLocked
<1>10. TimelineAccountsForFiles'
  BY <1>2, <1>3 DEF IInv, TimelineAccountsForFiles
<1> QED
  BY <1>5, <1>6, <1>7, <1>8, <1>9, <1>10 DEF IInv

-----------------------------------------------------------------------------
LEMMA InitIInv == Init => IInv
<1> SUFFICES ASSUME Init PROVE IInv
  OBVIOUS
<1>1. /\ Stored = {} /\ files \in [Stored -> Contents]
      /\ runs \in Seq(Run)
  BY DEF Init, Stored
<1>2. timeline \in Timeline /\ Uploaded = {}
      /\ \A f \in Files : timeline.deleted[f] = 0
  BY DEF Init, Timeline, Uploaded
<1>3. RequestsOK /\ \A w \in Workers : Saved(w) = {}
  BY NoRequestType DEF Init, RequestsOK, RequestOK, Saved
<1>4. TablesOK
  BY <1>1, <1>2 DEF Init, TablesOK
<1>5. FilesHaveBlobs /\ NoOrphanBlobs /\ NoDanglingRows
  BY <1>1 DEF Init, FilesHaveBlobs, NoOrphanBlobs, NoDanglingRows
<1>6. TimelineAccountsForFiles
  BY <1>1, <1>2 DEF TimelineAccountsForFiles, Uploaded
<1> QED
  BY <1>3, <1>4, <1>5, <1>6 DEF IInv

LEMMA NextIInv == IInv /\ [Next]_vars => IInv'
<1> SUFFICES ASSUME IInv, [Next]_vars PROVE IInv'
  OBVIOUS
<1>1. CASE ChangeStatus \/ UNCHANGED vars
  BY <1>1, UnchangedStep DEF ChangeStatus, vars, history, IInv, TablesOK
<1>2. ASSUME NEW w \in Workers, Step(w) PROVE IInv'
  BY <1>2, ProcessOneStep, RejectUploadStep, CommitUploadStep, CheckDeletableStep,
     UnlinkStep, CommitDeleteStep, CommitStartStep, CommitCancelStep DEF Step
<1> QED
  BY <1>1, <1>2, RollbackStep, AbandonStep, LoadUploadStep, SelectFileStep,
     LoadStartStep, LoadCancelStep DEF Next

LEMMA Invariance == Spec => []IInv
BY InitIInv, NextIInv, PTL DEF Spec

(* Whatever overlaps and is cut off: the types of tables and requests.     *)
THEOREM TypeCorrect == Spec => []TypeOK
<1>1. IInv => TypeOK
  BY UploadedType DEF IInv, TablesOK, RequestsOK, TypeOK
<1> QED
  BY <1>1, Invariance, PTL

(* upload_incident_files and delete_file: a row whose deletion never       *)
(* reached the storage has its blob, whatever overlaps and is cut off.     *)
THEOREM BlobsOfFiles == Spec => []FilesHaveBlobs
<1>1. IInv => FilesHaveBlobs
  BY DEF IInv
<1> QED
  BY <1>1, Invariance, PTL

(* The except clause of upload_incident_files: a blob belongs to a row, to *)
(* an upload in flight, or to a request that a fault has cut off.          *)
THEOREM NoOrphans == Spec => []NoOrphanBlobs
<1>1. IInv => NoOrphanBlobs
  BY DEF IInv
<1> QED
  BY <1>1, Invariance, PTL

(* delete_file: a row without its blob is being deleted, or a fault has    *)
(* cut its deletion off.                                                   *)
THEOREM NoDangling == Spec => []NoDanglingRows
<1>1. IInv => NoDanglingRows
  BY DEF IInv
<1> QED
  BY <1>1, Invariance, PTL

(* _record_event: the files are those uploaded and not deleted by the      *)
(* events of the timeline, whatever overlaps and is cut off.               *)
THEOREM TimelineAccounts == Spec => []TimelineAccountsForFiles
<1>1. IInv => TimelineAccountsForFiles
  BY DEF IInv
<1> QED
  BY <1>1, Invariance, PTL

-----------------------------------------------------------------------------
(* While no two requests have overlapped.                                  *)
AtMostOneInFlight == \A v, w \in Workers : ~Idle(v) /\ ~Idle(w) => v = w

(* What the request in flight has read is still what is stored.            *)
RequestFresh(r) ==
    /\ r.op \in {"delete", "deletable", "unlinked"} => r.file \in Stored
    /\ r.op \in {"deletable", "unlinked"} =>
          \A i \in DOMAIN runs : r.file \notin runs[i].files
    /\ r.op = "start" => r.chosen \subseteq Stored
    /\ r.op = "upload" => \A f \in DOMAIN r.saved, g \in Stored : r.saved[f] # files[g]

OneDeletion == \A f \in Files : timeline.deleted[f] <= 1
FilesOfRunsKept == \A i \in DOMAIN runs : runs[i].files \subseteq Stored
SameBatch ==
    \A f, g \in Stored : files[f] = files[g] =>
        \E batch \in timeline.uploaded : {f, g} \subseteq batch

SerialOK ==
    /\ AtMostOneInFlight
    /\ \A w \in Workers : RequestFresh(req[w])
    /\ OneDeletion
    /\ FilesOfRunsKept
    /\ SameBatch

SerialInv == IInv /\ (~overlapped => SerialOK)

LEMMA UnchangedKept ==
    ASSUME OneDeletion, FilesOfRunsKept, SameBatch, UNCHANGED <<files, runs, timeline>>
    PROVE  OneDeletion' /\ FilesOfRunsKept' /\ SameBatch'
BY DEF OneDeletion, FilesOfRunsKept, SameBatch, Stored

(* When the only request ends there is none in flight.                     *)
LEMMA NoneInFlight ==
    ASSUME IInv, AtMostOneInFlight, NEW w \in Workers, ~Idle(w), Finish(w)
    PROVE  AtMostOneInFlight' /\ \A v \in Workers : RequestFresh(req[v])'
<1>1. req' = [req EXCEPT ![w] = NoRequest] /\ req \in [Workers -> Request]
  BY DEF Finish, IInv, RequestsOK
<1>2. \A v \in Workers : req'[v].op = "idle"
  BY <1>1, NoRequestType DEF AtMostOneInFlight, Idle
<1> QED
  BY <1>2 DEF AtMostOneInFlight, RequestFresh, Idle

(* A step of the only request that leaves it in flight.                    *)
LEMMA StillInFlight ==
    ASSUME IInv, AtMostOneInFlight, NEW w \in Workers, ~Idle(w),
           \A v \in Workers \ {w} : req'[v] = req[v],
           RequestFresh(req[w])'
    PROVE  AtMostOneInFlight' /\ \A v \in Workers : RequestFresh(req[v])'
<1>1. \A v \in Workers \ {w} : req'[v].op = "idle"
  BY DEF AtMostOneInFlight, Idle
<1>2. AtMostOneInFlight'
  BY <1>1 DEF AtMostOneInFlight, Idle
<1>3. \A v \in Workers \ {w} : RequestFresh(req[v])'
  BY <1>1 DEF RequestFresh
<1> QED
  BY <1>2, <1>3

LEMMA SerialReceive ==
    ASSUME SerialInv, ~overlapped', NEW w \in Workers, NEW r \in Request,
           RequestFresh(r), Receive(w, r), UNCHANGED <<tables, blobs, history>>
    PROVE  SerialOK'
<1>1. /\ ~overlapped /\ \A v \in Workers : req[v].op = "idle"
      /\ req' = [req EXCEPT ![w] = r]
      /\ UNCHANGED <<files, runs, timeline>>
  BY DEF Receive, Idle, tables
<1>2. req'[w] = r /\ \A v \in Workers \ {w} : req'[v] = req[v]
  BY <1>1 DEF SerialInv, IInv, RequestsOK
<1>3. AtMostOneInFlight'
  BY <1>1, <1>2 DEF AtMostOneInFlight, Idle
<1>4. \A v \in Workers : RequestFresh(req[v])'
  BY <1>1, <1>2 DEF RequestFresh, Stored
<1> QED
  BY <1>1, <1>3, <1>4, UnchangedKept DEF SerialInv, SerialOK

LEMMA SerialLoad ==
    ASSUME SerialInv, ~overlapped', NEW w \in Workers,
           \/ \E batch \in Batches : LoadUpload(w, batch)
           \/ \E f \in Files : SelectFile(w, f)
           \/ \E chosen \in SUBSET Files : LoadStart(w, chosen)
           \/ \E i \in DOMAIN runs : LoadCancel(w, i)
    PROVE  SerialOK'
<1>1. ASSUME NEW batch \in Batches, LoadUpload(w, batch) PROVE SerialOK'
  <2> DEFINE r == [NoRequest EXCEPT !.op = "upload", !.todo = batch]
  <2>1. r \in Request /\ r.op = "upload" /\ DOMAIN r.saved = {}
    BY NoRequestType, BatchType DEF Request, Op
  <2>2. Receive(w, r) /\ UNCHANGED <<tables, blobs, history>>
    BY <1>1 DEF LoadUpload
  <2> HIDE DEF r
  <2>3. RequestFresh(r)
    BY <2>1 DEF RequestFresh
  <2> QED
    BY <2>1, <2>2, <2>3, SerialReceive
<1>2. ASSUME NEW f \in Files, SelectFile(w, f) PROVE SerialOK'
  <2> DEFINE r == [NoRequest EXCEPT !.op = "delete", !.file = f]
  <2>1. r \in Request /\ r.op = "delete" /\ r.file = f
    BY NoRequestType DEF Request, Op
  <2>2. Receive(w, r) /\ UNCHANGED <<tables, blobs, history>> /\ f \in Stored
    BY <1>2 DEF SelectFile
  <2> HIDE DEF r
  <2>3. RequestFresh(r)
    BY <2>1, <2>2 DEF RequestFresh
  <2> QED
    BY <2>1, <2>2, <2>3, SerialReceive
<1>3. ASSUME NEW chosen \in SUBSET Files, LoadStart(w, chosen) PROVE SerialOK'
  <2> DEFINE r == [NoRequest EXCEPT !.op = "start", !.chosen = chosen]
  <2>1. r \in Request /\ r.op = "start" /\ r.chosen = chosen
    BY NoRequestType DEF Request, Op
  <2>2. Receive(w, r) /\ UNCHANGED <<tables, blobs, history>> /\ chosen \subseteq Stored
    BY <1>3 DEF LoadStart
  <2> HIDE DEF r
  <2>3. RequestFresh(r)
    BY <2>1, <2>2 DEF RequestFresh
  <2> QED
    BY <2>1, <2>2, <2>3, SerialReceive
<1>4. ASSUME NEW i \in DOMAIN runs, LoadCancel(w, i) PROVE SerialOK'
  <2> DEFINE r == [NoRequest EXCEPT !.op = "cancel", !.run = i]
  <2>0. i \in Nat
    BY DEF SerialInv, IInv, TablesOK
  <2>1. r \in Request /\ r.op = "cancel"
    BY <2>0, NoRequestType DEF Request, Op
  <2>2. Receive(w, r) /\ UNCHANGED <<tables, blobs, history>>
    BY <1>4 DEF LoadCancel
  <2> HIDE DEF r
  <2>3. RequestFresh(r)
    BY <2>1 DEF RequestFresh
  <2> QED
    BY <2>1, <2>2, <2>3, SerialReceive
<1> QED
  BY <1>1, <1>2, <1>3, <1>4

(* The file processed is no duplicate of a committed one.                  *)
LEMMA SerialProcessOne ==
    ASSUME IInv, SerialOK, NEW w \in Workers, NEW f \in Files, ProcessOne(w, f)
    PROVE  SerialOK'
<1>1. /\ req'[w].op = "upload" /\ DOMAIN req'[w].saved = DOMAIN req[w].saved \cup {f}
      /\ req'[w].saved[f] = Head(req[w].todo)
      /\ \A x \in DOMAIN req[w].saved : req'[w].saved[x] = req[w].saved[x]
      /\ \A v \in Workers \ {w} : req'[v] = req[v]
  BY ProcessOneStep DEF Saved
<1>2. /\ req[w].op = "upload" /\ ~Idle(w) /\ UNCHANGED <<files, runs, timeline>>
      /\ \A g \in Stored : files[g] # Head(req[w].todo)
  BY DEF ProcessOne, Idle, Duplicate, tables
<1>3. RequestFresh(req[w])'
  BY <1>1, <1>2 DEF SerialOK, RequestFresh, Stored
<1> QED
  BY <1>1, <1>2, <1>3, StillInFlight, UnchangedKept DEF SerialOK

LEMMA SerialCheckDeletable ==
    ASSUME IInv, SerialOK, NEW w \in Workers, CheckDeletable(w)
    PROVE  SerialOK'
<1>1. /\ UNCHANGED <<files, runs, timeline>> /\ req[w].op = "delete" /\ ~Idle(w)
  BY DEF CheckDeletable, tables, Idle
<1>2. CASE Deletable(req[w].file)
  <2>1. PICK q \in Request : q = req[w]
    BY DEF IInv, RequestsOK
  <2> DEFINE p == [q EXCEPT !.op = "deletable"]
  <2>2. p.op = "deletable" /\ p.file = q.file
    BY DEF Request
  <2>3. req' = [req EXCEPT ![w] = p]
    BY <1>2, <2>1 DEF CheckDeletable
  <2> HIDE DEF p
  <2>4. req'[w] = p /\ \A v \in Workers \ {w} : req'[v] = req[v]
    BY <2>3 DEF IInv, RequestsOK
  <2>5. RequestFresh(req[w])'
    BY <1>1, <1>2, <2>1, <2>2, <2>4 DEF SerialOK, RequestFresh, Deletable, Stored
  <2> QED
    BY <1>1, <2>4, <2>5, StillInFlight, UnchangedKept DEF SerialOK
<1>3. CASE ~Deletable(req[w].file)
  <2>1. Finish(w)
    BY <1>3 DEF CheckDeletable, Finish
  <2> QED
    BY <1>1, <2>1, NoneInFlight, UnchangedKept DEF SerialOK
<1> QED
  BY <1>2, <1>3

LEMMA SerialUnlink ==
    ASSUME IInv, SerialOK, NEW w \in Workers, Unlink(w)
    PROVE  SerialOK'
<1>1. /\ req'[w].op = "unlinked" /\ req'[w].file = req[w].file
      /\ \A v \in Workers \ {w} : req'[v] = req[v]
      /\ UNCHANGED <<files, runs, timeline>> /\ req[w].op = "deletable" /\ ~Idle(w)
  BY UnlinkStep DEF Unlink, tables, Idle
<1>2. RequestFresh(req[w])'
  BY <1>1 DEF SerialOK, RequestFresh, Stored
<1> QED
  BY <1>1, <1>2, StillInFlight, UnchangedKept DEF SerialOK

LEMMA SerialEnd ==
    ASSUME IInv, SerialOK, NEW w \in Workers,
           RejectUpload(w) \/ Rollback(w) \/ Abandon(w)
    PROVE  SerialOK'
<1>1. ~Idle(w) /\ Finish(w) /\ UNCHANGED <<files, runs, timeline>>
  BY DEF RejectUpload, Rollback, Abandon, tables, Idle
<1> QED
  BY <1>1, NoneInFlight, UnchangedKept DEF SerialOK

LEMMA SerialCommitUpload ==
    ASSUME IInv, SerialOK, NEW w \in Workers, CommitUpload(w)
    PROVE  SerialOK'
<1>1. /\ Stored' = Stored \cup Saved(w) /\ Stored \cap Saved(w) = {}
      /\ \A x \in Saved(w) : files'[x] = req[w].saved[x]
      /\ \A x \in Stored : files'[x] = files[x]
      /\ timeline'.uploaded = timeline.uploaded \cup {Saved(w)}
      /\ timeline'.deleted = timeline.deleted
  BY CommitUploadStep
<1>2. req[w].op = "upload" /\ ~Idle(w) /\ Finish(w) /\ UNCHANGED runs
  BY DEF CommitUpload, Idle
<1>3. \A f \in Saved(w), g \in Stored : files'[f] # files'[g]
  BY <1>1, <1>2 DEF SerialOK, RequestFresh, Saved
<1>4. OneDeletion' /\ FilesOfRunsKept'
  BY <1>1, <1>2 DEF SerialOK, OneDeletion, FilesOfRunsKept
<1>5. SameBatch'
  <2> SUFFICES ASSUME NEW f \in Stored', NEW g \in Stored', files'[f] = files'[g]
               PROVE  \E batch \in timeline'.uploaded : {f, g} \subseteq batch
    BY DEF SameBatch
  <2>1. CASE f \in Saved(w) /\ g \in Saved(w)
    BY <2>1, <1>1
  <2>2. CASE f \in Stored /\ g \in Stored
    BY <2>2, <1>1 DEF SerialOK, SameBatch
  <2> QED
    BY <2>1, <2>2, <1>1, <1>3
<1> QED
  BY <1>2, <1>4, <1>5, NoneInFlight DEF SerialOK

(* The file deleted is there, and no run names it.                         *)
LEMMA SerialCommitDelete ==
    ASSUME IInv, SerialOK, NEW w \in Workers, CommitDelete(w)
    PROVE  SerialOK'
<1>1. PICK f \in Files : f = req[w].file
  BY CommitDeleteStep
<1>2. /\ Stored' = Stored \ {f}
      /\ \A x \in Stored' : files'[x] = files[x]
      /\ timeline'.uploaded = timeline.uploaded
      /\ timeline'.deleted[f] = timeline.deleted[f] + 1
      /\ \A x \in Files \ {f} : timeline'.deleted[x] = timeline.deleted[x]
  BY <1>1, CommitDeleteStep
<1>3. req[w].op = "unlinked" /\ ~Idle(w) /\ Finish(w) /\ UNCHANGED runs
  BY DEF CommitDelete, Idle
<1>4. f \in Stored /\ \A i \in DOMAIN runs : f \notin runs[i].files
  BY <1>1, <1>3 DEF SerialOK, RequestFresh
<1>5. timeline.deleted[f] = 0
  BY <1>4 DEF IInv, TimelineAccountsForFiles
<1>6. OneDeletion'
  BY <1>2, <1>5 DEF SerialOK, OneDeletion
<1>7. FilesOfRunsKept'
  BY <1>2, <1>3, <1>4 DEF SerialOK, FilesOfRunsKept
<1>8. SameBatch'
  BY <1>2 DEF SerialOK, SameBatch
<1> QED
  BY <1>3, <1>6, <1>7, <1>8, NoneInFlight DEF SerialOK

LEMMA SerialCommitStart ==
    ASSUME IInv, SerialOK, NEW w \in Workers, CommitStart(w)
    PROVE  SerialOK'
<1>1. /\ req[w].op = "start" /\ ~Idle(w) /\ Finish(w) /\ UNCHANGED files
      /\ timeline'.uploaded = timeline.uploaded
      /\ timeline'.deleted = timeline.deleted
  BY DEF CommitStart, Idle, IInv, TablesOK, Timeline
<1>2. req[w].chosen \subseteq Stored
  BY <1>1 DEF SerialOK, RequestFresh
<1> DEFINE run == [status |-> "queued", files |-> req[w].chosen]
<1>3. run \in Run /\ run.files = req[w].chosen
  BY RequestType DEF IInv, RequestsOK, Run
<1>4. runs' = Append(runs, run)
  BY DEF CommitStart
<1> HIDE DEF run
<1>5. \A i \in DOMAIN runs' : \/ i \in DOMAIN runs /\ runs'[i] = runs[i]
                              \/ runs'[i] = run
  BY <1>3, <1>4 DEF IInv, TablesOK
<1>6. FilesOfRunsKept'
  BY <1>1, <1>2, <1>3, <1>5 DEF SerialOK, FilesOfRunsKept, Stored
<1>7. OneDeletion' /\ SameBatch'
  BY <1>1 DEF SerialOK, OneDeletion, SameBatch, Stored
<1> QED
  BY <1>1, <1>6, <1>7, NoneInFlight DEF SerialOK

LEMMA SerialCommitCancel ==
    ASSUME IInv, SerialOK, NEW w \in Workers, CommitCancel(w)
    PROVE  SerialOK'
<1>1. ~Idle(w) /\ Finish(w) /\ UNCHANGED <<files, timeline>>
  BY DEF CommitCancel, Idle
<1>2. /\ DOMAIN runs' = DOMAIN runs
      /\ \A i \in DOMAIN runs : runs'[i].files = runs[i].files
  BY CommitCancelStep
<1>3. OneDeletion' /\ FilesOfRunsKept' /\ SameBatch'
  BY <1>1, <1>2 DEF SerialOK, OneDeletion, FilesOfRunsKept, SameBatch, Stored
<1> QED
  BY <1>1, <1>3, NoneInFlight DEF SerialOK

LEMMA SerialKept ==
    ASSUME SerialOK, UNCHANGED <<files, runs, timeline, req>>
    PROVE  SerialOK'
BY UnchangedKept DEF SerialOK, AtMostOneInFlight, RequestFresh, Idle, Stored

LEMMA OverlappedStays == [Next]_vars => (overlapped => overlapped')
<1>1. ASSUME NEW w \in Workers, Step(w), overlapped PROVE overlapped'
  BY <1>1 DEF Step, ProcessOne, RejectUpload, CommitUpload, CheckDeletable, Unlink,
              CommitDelete, CommitStart, CommitCancel
<1>2. ASSUME NEW w \in Workers, NEW r, Receive(w, r), overlapped PROVE overlapped'
  BY <1>2 DEF Receive
<1> QED
  BY <1>1, <1>2 DEF Next, vars, ChangeStatus, Rollback, Abandon, LoadUpload, SelectFile,
                    LoadStart, LoadCancel

LEMMA InitSerialInv == Init => SerialInv
<1> SUFFICES ASSUME Init PROVE SerialInv
  OBVIOUS
<1>1. \A w \in Workers : req[w].op = "idle"
  BY NoRequestType DEF Init
<1>2. Stored = {} /\ DOMAIN runs = {} /\ \A f \in Files : timeline.deleted[f] = 0
  BY DEF Init, Stored
<1>3. SerialOK
  BY <1>1, <1>2 DEF SerialOK, AtMostOneInFlight, Idle, RequestFresh, OneDeletion,
                    FilesOfRunsKept, SameBatch
<1> QED
  BY <1>3, InitIInv DEF SerialInv

LEMMA NextSerialInv == SerialInv /\ [Next]_vars => SerialInv'
<1> SUFFICES ASSUME SerialInv, [Next]_vars PROVE SerialInv'
  OBVIOUS
<1>1. IInv'
  BY NextIInv DEF SerialInv
<1>2. ASSUME ~overlapped' PROVE SerialOK'
  <2>1. IInv /\ SerialOK
    BY <1>2, OverlappedStays DEF SerialInv
  <2>2. CASE ChangeStatus \/ UNCHANGED vars
    BY <2>1, <2>2, SerialKept DEF ChangeStatus, vars
  <2>3. ASSUME NEW w \in Workers, Step(w) PROVE SerialOK'
    BY <2>1, <2>3, SerialProcessOne, SerialEnd, SerialCommitUpload, SerialCheckDeletable,
       SerialUnlink, SerialCommitDelete, SerialCommitStart, SerialCommitCancel DEF Step
  <2> QED
    BY <1>2, <2>1, <2>2, <2>3, SerialLoad, SerialEnd DEF Next
<1> QED
  BY <1>1, <1>2 DEF SerialInv

LEMMA SerialInvariance == Spec => []SerialInv
BY InitSerialInv, NextSerialInv, PTL DEF Spec

(* delete_file: while no two requests have overlapped, a deletion is       *)
(* recorded once.                                                          *)
THEOREM OnceDeleted == Spec => []DeletedOnce
<1>1. SerialInv => DeletedOnce
  BY DEF SerialInv, SerialOK, OneDeletion, DeletedOnce
<1> QED
  BY <1>1, SerialInvariance, PTL

(* _assert_deletable: while no two requests have overlapped, the files of  *)
(* a run are there, those of a cancelled one included.                     *)
THEOREM AnalysedKept == Spec => []AnalysedFilesAreKept
<1>1. SerialInv => AnalysedFilesAreKept
  BY DEF SerialInv, SerialOK, FilesOfRunsKept, AnalysedFilesAreKept
<1> QED
  BY <1>1, SerialInvariance, PTL

(* DuplicateFileError: while no two requests have overlapped, two files    *)
(* with the same content came in one batch.                                *)
THEOREM DuplicatesTogether == Spec => []DuplicatesShareABatch
<1>1. SerialInv => DuplicatesShareABatch
  BY DEF SerialInv, SerialOK, SameBatch, DuplicatesShareABatch
<1> QED
  BY <1>1, SerialInvariance, PTL
=============================================================================
