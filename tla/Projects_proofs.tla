--------------------------- MODULE Projects_proofs ---------------------------
(***************************************************************************)
(* Proofs about Projects: references between projects, pipeline runs and   *)
(* incidents under any overlap of requests; and, when requests do not      *)
(* overlap, that reading the list of runs page by page misses none and     *)
(* that archived_at follows the status.                                    *)
(***************************************************************************)
EXTENDS Projects, FiniteSetTheorems, TLAPS

-----------------------------------------------------------------------------
(* What a request holds refers to rows that exist.                         *)
RequestOK(r) ==
    /\ r.op # "idle" => r.project \in Keys
    /\ r.op \notin {"idle", "create"} => r.project \in Existing
    /\ r.op = "create_incident" =>
          /\ r.run \in 0..Len(pipelineRuns)
          /\ r.run # 0 => pipelineRuns[r.run] = r.project
    /\ r.op = "list_runs" => paging.project \in Existing

TablesOK ==
    /\ Existing \subseteq Keys
    /\ projects \in [Existing -> Project]
    /\ pipelineRuns \in Seq(Existing)
    /\ Len(pipelineRuns) <= MaxRuns
    /\ incidents \in Seq([project: Existing, run: 0..Len(pipelineRuns)])
    /\ \A i \in DOMAIN incidents :
          incidents[i].run # 0 =>
              pipelineRuns[incidents[i].run] = incidents[i].project

RequestsOK ==
    /\ req \in [Workers -> Request]
    /\ \A w \in Workers : RequestOK(req[w])

PagingOK ==
    /\ paging \in Paging
    /\ ~PagingEnded => paging.project \in Existing

IInv == TablesOK /\ RequestsOK /\ PagingOK

(* Rows are added to the tables and never removed, and a pipeline run      *)
(* stays with its project.                                                 *)
Grows ==
    /\ Existing \subseteq Existing'
    /\ Len(pipelineRuns) <= Len(pipelineRuns)'
    /\ \A i \in 1..Len(pipelineRuns) : pipelineRuns'[i] = pipelineRuns[i]

-----------------------------------------------------------------------------
LEMMA NoRequestType ==
    NoRequest \in Request /\ NoRequest.op = "idle" /\ NoRequest.run = 0
<1> DEFINE d == CHOOSE d \in Details : TRUE
<1>1. d \in Details
  BY DetailsAssumption
<1> HIDE DEF d
<1>2. [op |-> "idle", project |-> NoKey, details |-> d, run |-> 0, total |-> 0,
       loaded |-> [status |-> "active", archivedAt |-> FALSE, details |-> d]]
          \in Request
  BY <1>1 DEF Request, Op, Project
<1> QED
  BY <1>2 DEF NoRequest, d

LEMMA LoadedType ==
    ASSUME TablesOK, NEW k \in Existing, NEW op \in Op
    PROVE  /\ Loaded(op, k) \in Request
           /\ Loaded(op, k).op = op
           /\ Loaded(op, k).project = k
           /\ Loaded(op, k).loaded = projects[k]
           /\ Loaded(op, k).run = 0
<1>1. k \in Keys /\ projects[k] \in Project
  BY DEF TablesOK
<1>2. \A r \in Request :
        LET q == [r EXCEPT !.op = op, !.project = k, !.loaded = projects[k]]
        IN  /\ q \in Request /\ q.op = op /\ q.project = k
            /\ q.loaded = projects[k] /\ q.run = r.run
  BY <1>1 DEF Request
<1> QED
  BY <1>2, NoRequestType DEF Loaded

(* Sequences over a set, and over a larger one.                            *)
LEMMA SeqElement ==
    ASSUME NEW S, NEW s \in Seq(S), NEW i \in DOMAIN s
    PROVE  s[i] \in S
OBVIOUS

LEMMA SeqLarger ==
    ASSUME NEW S, NEW T, S \subseteq T, NEW s \in Seq(S)
    PROVE  s \in Seq(T)
OBVIOUS

LEMMA SeqAppended ==
    ASSUME NEW S, NEW s \in Seq(S), NEW e \in S
    PROVE  /\ Append(s, e) \in Seq(S)
           /\ \A i \in DOMAIN Append(s, e) :
                 Append(s, e)[i] = e \/ (i \in DOMAIN s /\ Append(s, e)[i] = s[i])
OBVIOUS

LEMMA InitIInv == Init => IInv
<1> SUFFICES ASSUME Init PROVE IInv
  OBVIOUS
<1>1. TablesOK
  BY BoundsAssumption DEF Init, TablesOK, Existing
<1>2. RequestsOK
  BY NoRequestType DEF Init, RequestsOK, RequestOK
<1>3. PagingOK
  <2>1. 1 \in 1..MAX_PAGE_SIZE
    BY PageSizeAssumption
  <2> QED
    BY <2>1 DEF Init, PagingOK, Paging, NoPaging, PagingEnded
<1> QED
  BY <1>1, <1>2, <1>3 DEF IInv

-----------------------------------------------------------------------------
(* The parts of steps.                                                     *)
LEMMA ReceiveStep ==
    ASSUME IInv, NEW w \in Workers, NEW r \in Request, RequestOK(r), Receive(w, r)
    PROVE  IInv'
<1>1. TablesOK'
  BY DEF IInv, Receive, TablesOK, Existing
<1>2. RequestsOK'
  BY DEF IInv, Receive, RequestsOK, RequestOK, Existing
<1>3. PagingOK'
  BY DEF IInv, Receive, PagingOK, PagingEnded, Existing
<1> QED
  BY <1>1, <1>2, <1>3 DEF IInv

LEMMA FinishStep ==
    ASSUME IInv, NEW w \in Workers, Finish(w), TablesOK', Grows,
           paging' \in Paging, paging'.project = paging.project,
           ~PagingEnded' => paging.project \in Existing
    PROVE  IInv'
<1>1. req' \in [Workers -> Request]
  BY NoRequestType DEF IInv, RequestsOK, Finish
<1>2. ASSUME NEW v \in Workers PROVE RequestOK(req[v])'
  <2>1. CASE v = w
    BY <2>1, NoRequestType DEF IInv, RequestsOK, Finish, RequestOK
  <2>2. CASE v # w
    <3> DEFINE r == req[v]
    <3>1. req'[v] = r /\ RequestOK(r)
      BY <2>2 DEF IInv, RequestsOK, Finish
    <3>2. Len(pipelineRuns) \in Nat /\ Len(pipelineRuns)' \in Nat
      BY DEF IInv, TablesOK
    <3> HIDE DEF r
    <3>3. /\ r.op # "idle" => r.project \in Keys
          /\ r.op \notin {"idle", "create"} => r.project \in Existing'
          /\ r.op = "create_incident" =>
               /\ r.run \in 0..Len(pipelineRuns)'
               /\ r.run # 0 => pipelineRuns'[r.run] = r.project
          /\ r.op = "list_runs" => paging'.project \in Existing'
      BY <3>1, <3>2 DEF RequestOK, Grows
    <3> QED
      BY <3>1, <3>3 DEF RequestOK, r
  <2> QED
    BY <2>1, <2>2
<1>3. PagingOK'
  BY DEF IInv, PagingOK, PagingEnded, Grows
<1> QED
  BY <1>1, <1>2, <1>3 DEF IInv, RequestsOK

LEMMA UnchangedTables ==
    ASSUME IInv, UNCHANGED <<projects, pipelineRuns, incidents>>
    PROVE  TablesOK' /\ Grows
BY DEF IInv, TablesOK, Grows, Existing

(* A project whose row is changed.                                         *)
LEMMA ChangedProject ==
    ASSUME IInv, NEW k \in Existing, NEW row \in Project,
           projects' = [projects EXCEPT ![k] = row],
           UNCHANGED <<pipelineRuns, incidents>>
    PROVE  TablesOK' /\ Grows
<1>1. projects \in [Existing -> Project]
  BY DEF IInv, TablesOK
<1>2. Existing' = Existing
  BY <1>1 DEF Existing
<1>3. projects' \in [Existing -> Project]
  BY <1>1
<1> QED
  BY <1>2, <1>3 DEF IInv, TablesOK, Grows

(* A request in flight has loaded a project that exists.                   *)
LEMMA InFlight ==
    ASSUME IInv, NEW w \in Workers, req[w].op \notin {"idle", "create"}
    PROVE  /\ req[w] \in Request
           /\ req[w].project \in Existing
           /\ projects[req[w].project] \in Project
BY DEF IInv, RequestsOK, RequestOK, TablesOK

LEMMA PagingKept ==
    ASSUME IInv, UNCHANGED paging
    PROVE  /\ paging' \in Paging /\ paging'.project = paging.project
           /\ ~PagingEnded' => paging.project \in Existing
BY DEF IInv, PagingOK, PagingEnded

LEMMA LoadStep ==
    ASSUME IInv, NEW w \in Workers, NEW k \in Keys, NEW d \in Details,
           \/ LoadCreate(w, k, d) \/ LoadUpdate(w, k, d)
           \/ LoadArchive(w, k) \/ LoadRestore(w, k) \/ LoadCreateRun(w, k)
    PROVE  IInv'
<1>1. CASE LoadCreate(w, k, d)
  <2> DEFINE r == [NoRequest EXCEPT !.op = "create", !.project = k, !.details = d]
  <2>1. r \in Request /\ r.op = "create" /\ r.project = k
    BY NoRequestType DEF Request, Op
  <2>2. RequestOK(r)
    BY <2>1 DEF RequestOK
  <2>3. Receive(w, r)
    BY <1>1 DEF LoadCreate
  <2> HIDE DEF r
  <2> QED
    BY <2>1, <2>2, <2>3, ReceiveStep
<1>2. CASE LoadUpdate(w, k, d)
  <2> DEFINE l == Loaded("update", k)
             r == [l EXCEPT !.details = d]
  <2>0. k \in Existing /\ Receive(w, r)
    BY <1>2 DEF LoadUpdate
  <2>1. l \in Request /\ l.op = "update" /\ l.project = k
    BY <2>0, LoadedType DEF IInv, Op
  <2> HIDE DEF l
  <2>2. r \in Request /\ r.op = "update" /\ r.project = k
    BY <2>1 DEF Request
  <2> HIDE DEF r
  <2>3. RequestOK(r)
    BY <2>0, <2>2 DEF RequestOK
  <2> QED
    BY <2>0, <2>2, <2>3, ReceiveStep
<1>3. ASSUME NEW op \in {"archive", "restore", "create_run"}, k \in Existing,
             Receive(w, Loaded(op, k))
      PROVE  IInv'
  <2>1. /\ Loaded(op, k) \in Request
        /\ Loaded(op, k).op = op
        /\ Loaded(op, k).project = k
    BY <1>3, LoadedType DEF IInv, Op
  <2>2. RequestOK(Loaded(op, k))
    BY <1>3, <2>1 DEF RequestOK
  <2> QED
    BY <1>3, <2>1, <2>2, ReceiveStep
<1> QED
  BY <1>1, <1>2, <1>3 DEF LoadArchive, LoadRestore, LoadCreateRun

LEMMA LoadCreateIncidentStep ==
    ASSUME IInv, NEW w \in Workers, NEW k \in Keys, NEW run \in 0..MaxRuns,
           LoadCreateIncident(w, k, run)
    PROVE  IInv'
<1> DEFINE l == Loaded("create_incident", k)
           r == [l EXCEPT !.run = run]
<1>0. /\ k \in Existing /\ Receive(w, r)
      /\ run \in 0..Len(pipelineRuns)
      /\ run # 0 => pipelineRuns[run] = k
  BY DEF LoadCreateIncident
<1>1. l \in Request /\ l.op = "create_incident" /\ l.project = k
  BY <1>0, LoadedType DEF IInv, Op
<1> HIDE DEF l
<1>2. /\ r \in Request /\ r.op = "create_incident" /\ r.project = k
      /\ r.run = run
  BY <1>1 DEF Request
<1> HIDE DEF r
<1>3. RequestOK(r)
  BY <1>0, <1>2 DEF RequestOK
<1> QED
  BY <1>0, <1>2, <1>3, ReceiveStep

LEMMA CommitCreateStep ==
    ASSUME IInv, NEW w \in Workers, CommitCreate(w)
    PROVE  TablesOK' /\ Grows /\ IInv'
<1> DEFINE k == req[w].project
           row == [status |-> "active", archivedAt |-> FALSE,
                   details |-> req[w].details]
<1>1. req[w] \in Request /\ k \in Keys /\ row \in Project
  BY DEF IInv, RequestsOK, RequestOK, CommitCreate, Request, Project
<1>2. /\ k \notin Existing
      /\ projects' = [x \in Existing \cup {k} |-> IF x = k THEN row ELSE projects[x]]
      /\ Finish(w)
      /\ UNCHANGED <<pipelineRuns, incidents, paging>>
  BY DEF CommitCreate
<1> HIDE DEF k, row
<1>3. Existing' = Existing \cup {k}
  BY <1>2 DEF Existing
<1>4. projects' \in [Existing' -> Project]
  BY <1>1, <1>2, <1>3 DEF IInv, TablesOK
<1>5. Grows
  BY <1>2, <1>3 DEF Grows, IInv, TablesOK
<1>6. pipelineRuns' \in Seq(Existing')
  BY <1>2, <1>3 DEF IInv, TablesOK
<1>7. incidents' \in Seq([project: Existing', run: 0..Len(pipelineRuns')])
  <2>1. [project: Existing, run: 0..Len(pipelineRuns)]
          \subseteq [project: Existing', run: 0..Len(pipelineRuns')]
    BY <1>2, <1>3
  <2> QED
    BY <1>2, <2>1, SeqLarger DEF IInv, TablesOK
<1>8. TablesOK'
  BY <1>1, <1>2, <1>3, <1>4, <1>6, <1>7 DEF IInv, TablesOK
<1> QED
  BY <1>2, <1>5, <1>8, FinishStep, PagingKept

LEMMA CommitProjectStep ==
    ASSUME IInv, NEW w \in Workers,
           CommitUpdate(w) \/ CommitArchive(w) \/ CommitRestore(w)
    PROVE  TablesOK' /\ Grows /\ IInv'
<1> DEFINE r == req[w]
           old == projects[r.project]
           details == [old EXCEPT
              !.details = Flushed(old.details, r.loaded.details, r.details)]
           archived == [old EXCEPT
              !.status = Flushed(old.status, r.loaded.status, "archived"),
              !.archivedAt = TRUE]
           restored == [old EXCEPT
              !.status = Flushed(old.status, r.loaded.status, "active"),
              !.archivedAt = Flushed(old.archivedAt, r.loaded.archivedAt, FALSE)]
<1>1. r \in Request /\ r.project \in Existing /\ old \in Project
  BY InFlight DEF CommitUpdate, CommitArchive, CommitRestore
<1>2. /\ Finish(w)
      /\ UNCHANGED <<pipelineRuns, incidents, paging>>
      /\ \/ projects' = [projects EXCEPT ![r.project] = details]
         \/ projects' = [projects EXCEPT ![r.project] = archived]
         \/ projects' = [projects EXCEPT ![r.project] = restored]
  BY DEF CommitUpdate, CommitArchive, CommitRestore
<1>3. details \in Project /\ archived \in Project /\ restored \in Project
  BY <1>1 DEF Project, Request, Flushed
<1> HIDE DEF r, old, details, archived, restored
<1>4. TablesOK' /\ Grows
  BY <1>1, <1>2, <1>3, ChangedProject
<1> QED
  BY <1>2, <1>4, FinishStep, PagingKept

LEMMA CommitCreateRunStep ==
    ASSUME IInv, NEW w \in Workers, CommitCreateRun(w)
    PROVE  TablesOK' /\ Grows /\ IInv'
<1> DEFINE k == req[w].project
<1>1. k \in Existing
  BY InFlight DEF CommitCreateRun
<1>2. /\ Len(pipelineRuns) < MaxRuns
      /\ pipelineRuns' = Append(pipelineRuns, k)
      /\ Finish(w)
      /\ UNCHANGED <<projects, incidents, paging>>
  BY DEF CommitCreateRun
<1> HIDE DEF k
<1>3. Existing' = Existing
  BY <1>2 DEF Existing
<1>4. /\ pipelineRuns' \in Seq(Existing)
      /\ Len(pipelineRuns') = Len(pipelineRuns) + 1
      /\ \A i \in 1..Len(pipelineRuns) : pipelineRuns'[i] = pipelineRuns[i]
  BY <1>1, <1>2 DEF IInv, TablesOK
<1>5. Len(pipelineRuns) \in Nat
  BY DEF IInv, TablesOK
<1>6. Grows
  BY <1>3, <1>4, <1>5 DEF Grows
<1>7. incidents \in Seq([project: Existing, run: 0..Len(pipelineRuns')])
  <2>1. [project: Existing, run: 0..Len(pipelineRuns)]
          \subseteq [project: Existing, run: 0..Len(pipelineRuns')]
    BY <1>4, <1>5
  <2> QED
    BY <2>1, SeqLarger DEF IInv, TablesOK
<1>8. \A i \in DOMAIN incidents :
        incidents[i].run # 0 =>
            pipelineRuns'[incidents[i].run] = incidents[i].project
  <2> SUFFICES ASSUME NEW i \in DOMAIN incidents, incidents[i].run # 0
               PROVE  pipelineRuns'[incidents[i].run] = incidents[i].project
    OBVIOUS
  <2>1. incidents[i] \in [project: Existing, run: 0..Len(pipelineRuns)]
    BY SeqElement DEF IInv, TablesOK
  <2>2. incidents[i].run \in 1..Len(pipelineRuns)
    BY <2>1, <1>5
  <2>3. pipelineRuns[incidents[i].run] = incidents[i].project
    BY DEF IInv, TablesOK
  <2> QED
    BY <2>2, <2>3, <1>4
<1>9. TablesOK'
  <2>1. Len(pipelineRuns)' <= MaxRuns
    BY <1>2, <1>4, <1>5, BoundsAssumption
  <2> QED
    BY <1>2, <1>3, <1>4, <1>7, <1>8, <2>1 DEF IInv, TablesOK
<1> QED
  BY <1>2, <1>6, <1>9, FinishStep, PagingKept

LEMMA CommitCreateIncidentStep ==
    ASSUME IInv, NEW w \in Workers, CommitCreateIncident(w)
    PROVE  TablesOK' /\ Grows /\ IInv'
<1> DEFINE row == [project |-> req[w].project, run |-> req[w].run]
<1>1. /\ row \in [project: Existing, run: 0..Len(pipelineRuns)]
      /\ row.run # 0 => pipelineRuns[row.run] = row.project
  BY InFlight DEF CommitCreateIncident, IInv, RequestsOK, RequestOK
<1>2. /\ incidents' = Append(incidents, row)
      /\ Finish(w)
      /\ UNCHANGED <<projects, pipelineRuns, paging>>
  BY DEF CommitCreateIncident
<1> HIDE DEF row
<1>3. Existing' = Existing
  BY <1>2 DEF Existing
<1>4. incidents' \in Seq([project: Existing, run: 0..Len(pipelineRuns)])
  BY <1>1, <1>2, SeqAppended DEF IInv, TablesOK
<1>5. \A i \in DOMAIN incidents' :
        incidents'[i] = row \/ (i \in DOMAIN incidents /\ incidents'[i] = incidents[i])
  <2> DEFINE S == [project: Existing, run: 0..Len(pipelineRuns)]
  <2>1. incidents \in Seq(S)
    BY DEF IInv, TablesOK
  <2>2. row \in S
    BY <1>1
  <2> HIDE DEF S
  <2>3. \A i \in DOMAIN Append(incidents, row) :
          Append(incidents, row)[i] = row \/
          (i \in DOMAIN incidents /\ Append(incidents, row)[i] = incidents[i])
    BY <2>1, <2>2, SeqAppended
  <2> QED
    BY <1>2, <2>3, Zenon
<1>6. TablesOK'
  BY <1>1, <1>2, <1>3, <1>4, <1>5 DEF IInv, TablesOK
<1>7. Grows
  BY <1>2, <1>3 DEF Grows, IInv, TablesOK
<1> QED
  BY <1>2, <1>6, <1>7, FinishStep, PagingKept

-----------------------------------------------------------------------------
(* The client that reads the list.                                         *)
LEMMA RunsOfType ==
    ASSUME TablesOK, NEW k
    PROVE  /\ RunsOf(k) \in SUBSET (1..MaxRuns)
           /\ IsFiniteSet(RunsOf(k))
           /\ Cardinality(RunsOf(k)) \in Nat
<1>1. DOMAIN pipelineRuns = 1..Len(pipelineRuns) /\ Len(pipelineRuns) \in Nat
      /\ Len(pipelineRuns) <= MaxRuns
  BY DEF TablesOK
<1>2. RunsOf(k) \subseteq 1..MaxRuns
  BY <1>1, BoundsAssumption DEF RunsOf
<1>3. IsFiniteSet(1..MaxRuns)
  BY BoundsAssumption, FS_Interval
<1> QED
  BY <1>2, <1>3, FS_Subset, FS_CardinalityType

LEMMA OpenListStep ==
    ASSUME IInv, NEW k \in Keys, NEW size \in 1..MAX_PAGE_SIZE, OpenList(k, size)
    PROVE  IInv'
<1>1. TablesOK' /\ Grows
  BY UnchangedTables DEF OpenList
<1>2. RequestsOK'
  BY DEF OpenList, IInv, RequestsOK, RequestOK, Existing
<1>3. PagingOK'
  <2>1. /\ k \in Existing
        /\ paging' = [project |-> k, size |-> size, next |-> 1, pages |-> 1,
                      due |-> RunsOf(k), seen |-> {}]
    BY DEF OpenList
  <2>2. RunsOf(k) \in SUBSET (1..MaxRuns)
    BY RunsOfType DEF IInv
  <2>3. paging' \in Paging /\ paging'.project = k
    BY <2>1, <2>2 DEF Paging
  <2>4. k \in Existing'
    BY <1>1, <2>1 DEF Grows
  <2> QED
    BY <2>3, <2>4 DEF PagingOK, PagingEnded
<1> QED
  BY <1>1, <1>2, <1>3 DEF IInv

LEMMA LoadListStep ==
    ASSUME IInv, NEW w \in Workers, LoadList(w)
    PROVE  IInv'
<1> DEFINE k == paging.project
           l == Loaded("list_runs", k)
           r == [l EXCEPT !.total = Cardinality(RunsOf(k))]
<1>0. k \in Existing /\ Receive(w, r)
  BY DEF LoadList, IInv, PagingOK
<1>1. l \in Request /\ l.op = "list_runs" /\ l.project = k
  BY <1>0, LoadedType DEF IInv, Op
<1>2. Cardinality(RunsOf(k)) \in Nat
  BY RunsOfType DEF IInv
<1> HIDE DEF l, k
<1>3. r \in Request /\ r.op = "list_runs" /\ r.project = k
  BY <1>1, <1>2 DEF Request
<1> HIDE DEF r
<1>4. RequestOK(r)
  BY <1>0, <1>3, <1>1 DEF RequestOK, k, IInv, TablesOK
<1> QED
  BY <1>0, <1>3, <1>4, ReceiveStep

(* A page is no larger than the client asked for.                          *)
LEMMA AskedPage ==
    ASSUME NEW n \in Nat \ {0}, NEW size \in 1..MAX_PAGE_SIZE
    PROVE  /\ normalize_pagination(n, size).size = size
           /\ normalize_pagination(n, size).offset = (n - 1) * size
BY PageSizeAssumption DEF normalize_pagination, AtLeastOne

LEMMA Division ==
    ASSUME NEW a \in Nat, NEW s \in Nat \ {0}
    PROVE  /\ a \div s \in Nat
           /\ a < (a \div s + 1) * s
BY Z3

LEMMA TotalPagesType ==
    ASSUME NEW total \in Nat, NEW size \in Nat \ {0}
    PROVE  TotalPages(total, size) \in Nat
<1>1. total + size - 1 \in Nat
  OBVIOUS
<1> QED
  BY <1>1, Division DEF TotalPages

LEMMA AnswerListStep ==
    ASSUME IInv, NEW w \in Workers, AnswerList(w)
    PROVE  IInv'
<1> DEFINE p == normalize_pagination(paging.next, paging.size)
           page == Page(RunsOf(paging.project), p)
           pages == TotalPages(req[w].total, p.size)
<1>1. /\ paging' = [paging EXCEPT !.seen = paging.seen \cup page,
                                  !.pages = pages,
                                  !.next = paging.next + 1]
      /\ req[w].op = "list_runs" /\ Finish(w)
      /\ UNCHANGED <<projects, pipelineRuns, incidents>>
  BY DEF AnswerList
<1>2. page \in SUBSET (1..MaxRuns)
  BY RunsOfType DEF IInv, Page
<1>3. paging \in Paging /\ req[w].total \in Nat /\ req[w].project \in Existing
  BY <1>1, InFlight DEF IInv, PagingOK, Request
<1>4. p.size = paging.size /\ p.size \in Nat \ {0}
  BY <1>3, AskedPage, PageSizeAssumption DEF Paging
<1>5. pages \in Nat
  BY <1>3, <1>4, TotalPagesType
<1> HIDE DEF p, page, pages
<1>6. paging' \in Paging /\ paging'.project = paging.project
  <2>1. \A q \in Paging, n \in Nat, m \in Nat \ {0}, S \in SUBSET (1..MaxRuns) :
          LET a == [q EXCEPT !.seen = S, !.pages = n, !.next = m]
          IN  a \in Paging /\ a.project = q.project
    BY DEF Paging
  <2> DEFINE S == paging.seen \cup page
             m == paging.next + 1
  <2>2. paging.seen \in SUBSET (1..MaxRuns) /\ paging.next \in Nat \ {0}
    BY <1>3 DEF Paging
  <2>3. S \in SUBSET (1..MaxRuns)
    BY <1>2, <2>2
  <2>4. m \in Nat \ {0}
    BY <2>2
  <2>5. paging' = [paging EXCEPT !.seen = S, !.pages = pages, !.next = m]
    BY <1>1
  <2> HIDE DEF S, m
  <2> QED
    BY <1>3, <1>5, <2>1, <2>3, <2>4, <2>5
<1>7. TablesOK' /\ Grows
  BY <1>1, UnchangedTables
<1>8. paging.project \in Existing
  BY <1>1 DEF IInv, RequestsOK, RequestOK
<1> QED
  BY <1>1, <1>6, <1>7, <1>8, FinishStep

-----------------------------------------------------------------------------
LEMMA NextIInv == IInv /\ [Next]_vars => IInv'
<1> SUFFICES ASSUME IInv, [Next]_vars PROVE IInv'
  OBVIOUS
<1>1. CASE UNCHANGED vars
  <2>1. TablesOK'
    BY <1>1, UnchangedTables DEF vars
  <2> QED
    BY <1>1, <2>1 DEF vars, IInv, RequestsOK, RequestOK, PagingOK, PagingEnded, Existing
<1>2. ASSUME NEW w \in Workers, Rollback(w) PROVE IInv'
  <2>1. TablesOK' /\ Grows
    BY <1>2, UnchangedTables DEF Rollback
  <2> QED
    BY <1>2, <2>1, FinishStep, PagingKept DEF Rollback
<1> QED
  BY <1>1, <1>2, OpenListStep, LoadStep, LoadCreateIncidentStep, CommitCreateStep,
     CommitProjectStep, CommitCreateRunStep, CommitCreateIncidentStep,
     LoadListStep, AnswerListStep, DetailsAssumption DEF Next

LEMMA Invariance == Spec => []IInv
BY InitIInv, NextIInv, PTL DEF Spec

(* Whatever the requests in flight: the rows that others refer to exist,   *)
(* and the pipeline run of an incident is one of its project.              *)
THEOREM TypeCorrect == Spec => []TypeOK
<1>1. IInv => TypeOK
  BY DEF IInv, TablesOK, RequestsOK, PagingOK, TypeOK
<1> QED
  BY <1>1, Invariance, PTL

-----------------------------------------------------------------------------
(* Requests that do not overlap.                                           *)
NoOverlap == \A v, w \in Workers : v = w

(* The load of the only request in flight is still the committed row.      *)
RequestFresh ==
    \A w \in Workers : req[w].op \in {"update", "archive", "restore"} =>
        req[w].loaded = projects[req[w].project]

(* Runs are created between the requests of the client, and only move a    *)
(* run away from the pages that have been read.                            *)
ReadingOK ==
    /\ paging.due \subseteq RunsOf(paging.project)
    /\ PagingEnded => paging.due \subseteq paging.seen
    /\ \A i \in paging.due \ paging.seen :
          Rank(RunsOf(paging.project), i) > (paging.next - 1) * paging.size

CountFresh ==
    \A w \in Workers : req[w].op = "list_runs" =>
        /\ req[w].total = Cardinality(RunsOf(paging.project))
        /\ ~PagingEnded

SerialInv ==
    IInv /\ RequestFresh /\ ArchivedAtMatchesStatus /\ ReadingOK /\ CountFresh

(* A list of total rows has no row after its last page.                    *)
LEMMA PagesCover ==
    ASSUME NEW total \in Nat, NEW size \in Nat \ {0}
    PROVE  total <= TotalPages(total, size) * size
<1> DEFINE q == (total + size - 1) \div size
<1>1. total + size - 1 \in Nat
  OBVIOUS
<1>2. q \in Nat /\ total + size - 1 < (q + 1) * size
  BY <1>1, Division
<1> HIDE DEF q
<1>3. (q + 1) * size = q * size + size
  BY <1>2
<1>4. total <= q * size
  BY <1>2, <1>3
<1> QED
  BY <1>4 DEF TotalPages, q

LEMMA RankType ==
    ASSUME NEW rows, IsFiniteSet(rows), NEW i
    PROVE  Rank(rows, i) \in Nat /\ Rank(rows, i) <= Cardinality(rows)
<1>1. {j \in rows : j >= i} \in SUBSET rows
  OBVIOUS
<1> QED
  BY <1>1, FS_Subset, FS_CardinalityType DEF Rank

LEMMA RankGrows ==
    ASSUME NEW small, NEW large, IsFiniteSet(large), small \subseteq large, NEW i
    PROVE  Rank(small, i) <= Rank(large, i)
<1>1. {j \in small : j >= i} \in SUBSET {j \in large : j >= i}
  OBVIOUS
<1>2. IsFiniteSet({j \in large : j >= i})
  BY FS_Subset
<1> QED
  BY <1>1, <1>2, FS_Subset DEF Rank

LEMMA RunsGrow ==
    ASSUME TablesOK, TablesOK', Grows, NEW CONSTANT k
    PROVE  /\ RunsOf(k) \subseteq RunsOf(k)'
           /\ IsFiniteSet(RunsOf(k)')
<1>1. /\ DOMAIN pipelineRuns = 1..Len(pipelineRuns)
      /\ DOMAIN pipelineRuns' = 1..Len(pipelineRuns')
      /\ Len(pipelineRuns) \in Nat /\ Len(pipelineRuns') \in Nat
  BY DEF TablesOK
<1>2. RunsOf(k)' \in SUBSET (1..Len(pipelineRuns'))
  BY <1>1 DEF RunsOf
<1>3. IsFiniteSet(1..Len(pipelineRuns'))
  BY <1>1, FS_Interval
<1>4. IsFiniteSet(RunsOf(k)')
  BY <1>2, <1>3, FS_Subset
<1> QED
  BY <1>1, <1>4 DEF RunsOf, Grows

LEMMA ReadingKept ==
    ASSUME IInv, TablesOK', Grows, UNCHANGED paging, ReadingOK
    PROVE  ReadingOK'
<1>0. PICK k : k = paging.project
  OBVIOUS
<1>1. RunsOf(k) \subseteq RunsOf(k)'
  BY RunsGrow DEF IInv
<1>2. IsFiniteSet(RunsOf(k)) /\ IsFiniteSet(RunsOf(k)')
  BY RunsOfType, RunsGrow DEF IInv
<1>4. /\ paging.due \subseteq RunsOf(k)
      /\ \A i \in paging.due \ paging.seen :
            Rank(RunsOf(k), i) > (paging.next - 1) * paging.size
  BY <1>0 DEF ReadingOK
<1>3. \A i \in paging.due \ paging.seen :
        Rank(RunsOf(k)', i) > (paging.next - 1) * paging.size
  <2> SUFFICES ASSUME NEW i \in paging.due \ paging.seen
               PROVE  Rank(RunsOf(k)', i) > (paging.next - 1) * paging.size
    OBVIOUS
  <2> DEFINE a == Rank(RunsOf(k), i)
             b == Rank(RunsOf(k)', i)
             m == (paging.next - 1) * paging.size
  <2>1. a <= b /\ a \in Nat /\ b \in Nat
    BY <1>1, <1>2, RankGrows, RankType
  <2>2. a > m
    BY <1>4
  <2>3. m \in Int
    <3>1. paging.next \in Nat /\ paging.size \in Nat
      BY PageSizeAssumption DEF IInv, PagingOK, Paging
    <3> QED
      BY <3>1
  <2> HIDE DEF a, b, m
  <2>4. b > m
    BY <2>1, <2>2, <2>3
  <2> QED
    BY <2>4 DEF b, m
<1>5. RunsOf(paging.project)' = RunsOf(k)'
  BY <1>0 DEF RunsOf
<1> QED
  BY <1>1, <1>3, <1>4, <1>5 DEF ReadingOK, PagingEnded

(* When the only request ends there is none in flight.                     *)
LEMMA NoneInFlight ==
    ASSUME NoOverlap, IInv, NEW w \in Workers, Finish(w)
    PROVE  RequestFresh' /\ CountFresh'
<1>1. \A v \in Workers : req'[v].op = "idle"
  BY NoRequestType DEF NoOverlap, IInv, RequestsOK, Finish
<1> QED
  BY <1>1 DEF RequestFresh, CountFresh

LEMMA InitSerial == Init => SerialInv
<1> SUFFICES ASSUME Init PROVE SerialInv
  OBVIOUS
<1>1. IInv
  BY InitIInv
<1>2. RequestFresh /\ CountFresh
  BY NoRequestType DEF Init, RequestFresh, CountFresh
<1>3. ArchivedAtMatchesStatus
  BY DEF Init, ArchivedAtMatchesStatus, Existing
<1>4. ReadingOK
  BY DEF Init, ReadingOK, NoPaging
<1> QED
  BY <1>1, <1>2, <1>3, <1>4 DEF SerialInv

(* A request is received: with what it has read, and no row changes.       *)
LEMMA SerialReceive ==
    ASSUME NoOverlap, SerialInv, NEW w \in Workers, NEW r, Receive(w, r),
           r.op \in {"update", "archive", "restore"}
              => r.loaded = projects[r.project],
           r.op = "list_runs" =>
              /\ r.total = Cardinality(RunsOf(paging.project))
              /\ ~PagingEnded
    PROVE  RequestFresh' /\ ArchivedAtMatchesStatus' /\ ReadingOK' /\ CountFresh'
<1>1. \A v \in Workers : req'[v] = r
  BY DEF NoOverlap, Receive, SerialInv, IInv, RequestsOK
<1>2. UNCHANGED <<projects, pipelineRuns, incidents, paging>>
  BY DEF Receive
<1>3. RequestFresh' /\ ArchivedAtMatchesStatus'
  BY <1>1, <1>2 DEF RequestFresh, ArchivedAtMatchesStatus, Existing, SerialInv
<1>4. ReadingOK' /\ CountFresh'
  BY <1>1, <1>2 DEF ReadingOK, CountFresh, PagingEnded, RunsOf, SerialInv
<1> QED
  BY <1>3, <1>4

LEMMA SerialLoad ==
    ASSUME NoOverlap, SerialInv, NEW w \in Workers, NEW k \in Keys, NEW d \in Details,
           \/ LoadCreate(w, k, d) \/ LoadUpdate(w, k, d)
           \/ LoadArchive(w, k) \/ LoadRestore(w, k) \/ LoadCreateRun(w, k)
    PROVE  RequestFresh' /\ ArchivedAtMatchesStatus' /\ ReadingOK' /\ CountFresh'
<1>1. CASE LoadCreate(w, k, d)
  <2> DEFINE r == [NoRequest EXCEPT !.op = "create", !.project = k, !.details = d]
  <2>1. r.op = "create" /\ Receive(w, r)
    BY <1>1, NoRequestType DEF LoadCreate, Request
  <2> HIDE DEF r
  <2> QED
    BY <2>1, SerialReceive
<1>2. CASE LoadUpdate(w, k, d)
  <2> DEFINE l == Loaded("update", k)
             r == [l EXCEPT !.details = d]
  <2>0. k \in Existing /\ Receive(w, r)
    BY <1>2 DEF LoadUpdate
  <2>1. /\ l \in Request /\ l.op = "update" /\ l.project = k
        /\ l.loaded = projects[k]
    BY <2>0, LoadedType DEF SerialInv, IInv, Op
  <2> HIDE DEF l
  <2>2. r.op = "update" /\ r.project = k /\ r.loaded = projects[k]
    BY <2>1 DEF Request
  <2> HIDE DEF r
  <2> QED
    BY <2>0, <2>2, SerialReceive
<1>3. ASSUME NEW op \in {"archive", "restore", "create_run"}, k \in Existing,
             Receive(w, Loaded(op, k))
      PROVE  RequestFresh' /\ ArchivedAtMatchesStatus' /\ ReadingOK' /\ CountFresh'
  <2>1. /\ Loaded(op, k).op = op /\ Loaded(op, k).project = k
        /\ Loaded(op, k).loaded = projects[k]
    BY <1>3, LoadedType DEF SerialInv, IInv, Op
  <2> QED
    BY <1>3, <2>1, SerialReceive
<1> QED
  BY <1>1, <1>2, <1>3 DEF LoadArchive, LoadRestore, LoadCreateRun

LEMMA SerialLoadCreateIncident ==
    ASSUME NoOverlap, SerialInv, NEW w \in Workers, NEW k \in Keys,
           NEW run \in 0..MaxRuns, LoadCreateIncident(w, k, run)
    PROVE  RequestFresh' /\ ArchivedAtMatchesStatus' /\ ReadingOK' /\ CountFresh'
<1> DEFINE l == Loaded("create_incident", k)
           r == [l EXCEPT !.run = run]
<1>0. k \in Existing /\ Receive(w, r)
  BY DEF LoadCreateIncident
<1>1. l \in Request /\ l.op = "create_incident"
  BY <1>0, LoadedType DEF SerialInv, IInv, Op
<1> HIDE DEF l
<1>2. r.op = "create_incident"
  BY <1>1 DEF Request
<1> HIDE DEF r
<1> QED
  BY <1>0, <1>2, SerialReceive

LEMMA SerialLoadList ==
    ASSUME NoOverlap, SerialInv, NEW w \in Workers, LoadList(w)
    PROVE  RequestFresh' /\ ArchivedAtMatchesStatus' /\ ReadingOK' /\ CountFresh'
<1> DEFINE k == paging.project
           l == Loaded("list_runs", k)
           r == [l EXCEPT !.total = Cardinality(RunsOf(k))]
<1>0. k \in Existing /\ Receive(w, r) /\ ~PagingEnded
  BY DEF LoadList, SerialInv, IInv, PagingOK
<1>1. l \in Request /\ l.op = "list_runs"
  BY <1>0, LoadedType DEF SerialInv, IInv, Op
<1> HIDE DEF l
<1>2. r.op = "list_runs" /\ r.total = Cardinality(RunsOf(k))
  BY <1>1 DEF Request
<1> HIDE DEF r
<1> QED
  BY <1>0, <1>2, SerialReceive

(* A commit that leaves the client alone.                                  *)
LEMMA SerialCommitOther ==
    ASSUME NoOverlap, SerialInv, NEW w \in Workers,
           \/ CommitCreate(w) \/ CommitCreateRun(w) \/ CommitCreateIncident(w)
           \/ Rollback(w)
    PROVE  RequestFresh' /\ ArchivedAtMatchesStatus' /\ ReadingOK' /\ CountFresh'
<1>0. IInv /\ ArchivedAtMatchesStatus /\ ReadingOK
  BY DEF SerialInv
<1>1. Finish(w) /\ UNCHANGED paging
  BY DEF CommitCreate, CommitCreateRun, CommitCreateIncident, Rollback
<1>2. TablesOK' /\ Grows
  BY <1>0, CommitCreateStep, CommitCreateRunStep, CommitCreateIncidentStep,
     UnchangedTables DEF Rollback
<1>3. ArchivedAtMatchesStatus'
  <2>1. CASE CommitCreate(w)
    BY <1>0, <2>1 DEF CommitCreate, ArchivedAtMatchesStatus, Existing
  <2>2. CASE CommitCreateRun(w) \/ CommitCreateIncident(w) \/ Rollback(w)
    BY <1>0, <2>2 DEF CommitCreateRun, CommitCreateIncident, Rollback,
       ArchivedAtMatchesStatus, Existing
  <2> QED
    BY <2>1, <2>2
<1> QED
  BY <1>0, <1>1, <1>2, <1>3, NoneInFlight, ReadingKept

(* archive and restore: what they loaded is still there, so both columns   *)
(* change together.                                                        *)
LEMMA SerialCommitProject ==
    ASSUME NoOverlap, SerialInv, NEW w \in Workers,
           CommitUpdate(w) \/ CommitArchive(w) \/ CommitRestore(w)
    PROVE  RequestFresh' /\ ArchivedAtMatchesStatus' /\ ReadingOK' /\ CountFresh'
<1> DEFINE r == req[w]
           k == r.project
           row == projects[k]
<1>0. IInv /\ ArchivedAtMatchesStatus /\ ReadingOK /\ RequestFresh
  BY DEF SerialInv
<1>1. Finish(w) /\ UNCHANGED paging
  BY DEF CommitUpdate, CommitArchive, CommitRestore
<1>2. TablesOK' /\ Grows
  BY <1>0, CommitProjectStep
<1>3. /\ k \in Existing /\ row \in Project /\ r.loaded = row
      /\ projects \in [Existing -> Project]
      /\ row.archivedAt <=> row.status = "archived"
  BY <1>0, InFlight DEF CommitUpdate, CommitArchive, CommitRestore,
     RequestFresh, ArchivedAtMatchesStatus, IInv, TablesOK
<1>4. PICK new : /\ projects' = [projects EXCEPT ![k] = new]
                 /\ new.archivedAt <=> new.status = "archived"
  <2>1. CASE CommitUpdate(w)
    <3> DEFINE new == [row EXCEPT !.details = Flushed(row.details, r.loaded.details, r.details)]
    <3>1. projects' = [projects EXCEPT ![k] = new]
      BY <2>1 DEF CommitUpdate
    <3>2. new.archivedAt <=> new.status = "archived"
      BY <1>3 DEF Project, Flushed
    <3> HIDE DEF new
    <3> QED
      BY <3>1, <3>2
  <2>2. CASE CommitArchive(w)
    <3> DEFINE new == [row EXCEPT !.status = Flushed(row.status, r.loaded.status, "archived"),
                             !.archivedAt = TRUE]
    <3>1. projects' = [projects EXCEPT ![k] = new]
      BY <2>2 DEF CommitArchive
    <3>2. new.archivedAt <=> new.status = "archived"
      BY <1>3 DEF Project, Flushed
    <3> HIDE DEF new
    <3> QED
      BY <3>1, <3>2
  <2>3. CASE CommitRestore(w)
    <3> DEFINE new == [row EXCEPT !.status = Flushed(row.status, r.loaded.status, "active"),
                             !.archivedAt = Flushed(row.archivedAt, r.loaded.archivedAt, FALSE)]
    <3>1. projects' = [projects EXCEPT ![k] = new]
      BY <2>3 DEF CommitRestore
    <3>2. new.archivedAt <=> new.status = "archived"
      BY <1>3 DEF Project, Flushed
    <3> HIDE DEF new
    <3> QED
      BY <3>1, <3>2
  <2> QED
    BY <2>1, <2>2, <2>3
<1> HIDE DEF r, k, row
<1>5. ArchivedAtMatchesStatus'
  BY <1>0, <1>3, <1>4 DEF ArchivedAtMatchesStatus, Existing
<1> QED
  BY <1>0, <1>1, <1>2, <1>5, NoneInFlight, ReadingKept

LEMMA SerialOpenList ==
    ASSUME SerialInv, NEW k \in Keys, NEW size \in 1..MAX_PAGE_SIZE, OpenList(k, size),
           NoOverlap
    PROVE  RequestFresh' /\ ArchivedAtMatchesStatus' /\ ReadingOK' /\ CountFresh'
<1>1. /\ paging' = [project |-> k, size |-> size, next |-> 1, pages |-> 1,
                    due |-> RunsOf(k), seen |-> {}]
      /\ UNCHANGED <<projects, pipelineRuns, incidents, req>>
      /\ PagingEnded
  BY DEF OpenList
<1>2. RequestFresh' /\ ArchivedAtMatchesStatus' /\ CountFresh'
  BY <1>1 DEF SerialInv, RequestFresh, ArchivedAtMatchesStatus, Existing, CountFresh
<1>3. \A i \in RunsOf(k) : Rank(RunsOf(k), i) > 0
  <2> SUFFICES ASSUME NEW i \in RunsOf(k) PROVE Rank(RunsOf(k), i) > 0
    OBVIOUS
  <2> DEFINE later == {j \in RunsOf(k) : j >= i}
  <2>1. IsFiniteSet(later)
    BY RunsOfType, FS_Subset DEF SerialInv, IInv
  <2>2. i \in later
    BY DEF RunsOf, SerialInv, IInv, TablesOK
  <2>3. Cardinality(later) \in Nat /\ Cardinality(later) # 0
    BY <2>1, <2>2, FS_CardinalityType, FS_EmptySet
  <2> QED
    BY <2>3 DEF Rank
<1>4. ReadingOK'
  <2>1. /\ paging'.project = k /\ paging'.size = size /\ paging'.next = 1
        /\ paging'.pages = 1 /\ paging'.due = RunsOf(k) /\ paging'.seen = {}
    BY <1>1
  <2>2. RunsOf(paging.project)' = RunsOf(k)
    BY <1>1, <2>1 DEF RunsOf
  <2>3. (paging'.next - 1) * paging'.size = 0
    BY <2>1
  <2> QED
    BY <1>3, <2>1, <2>2, <2>3 DEF ReadingOK, PagingEnded
<1> QED
  BY <1>2, <1>4

(* The page that is answered holds all that is due and has a place on it;  *)
(* after the last page no place is left.                                   *)
LEMMA SerialAnswerList ==
    ASSUME NoOverlap, SerialInv, NEW w \in Workers, AnswerList(w)
    PROVE  RequestFresh' /\ ArchivedAtMatchesStatus' /\ ReadingOK' /\ CountFresh'
<1> DEFINE rows == RunsOf(paging.project)
           size == paging.size
           n == paging.next
           p == normalize_pagination(n, size)
           pages == TotalPages(Cardinality(rows), size)
<1>0. IInv /\ ArchivedAtMatchesStatus /\ ReadingOK /\ CountFresh
  BY DEF SerialInv
<1>1. /\ n \in Nat \ {0} /\ size \in 1..MAX_PAGE_SIZE
      /\ size \in Nat \ {0}
  BY <1>0, PageSizeAssumption DEF IInv, PagingOK, Paging
<1>2. p.size = size /\ p.offset = (n - 1) * size
  BY <1>1, AskedPage
<1>3. IsFiniteSet(rows) /\ Cardinality(rows) \in Nat
  BY <1>0, RunsOfType DEF IInv
<1>4. pages \in Nat /\ Cardinality(rows) <= pages * size
  BY <1>1, <1>3, TotalPagesType, PagesCover
<1>5. /\ paging'.project = paging.project /\ paging'.size = size
      /\ paging'.due = paging.due
      /\ paging'.seen = paging.seen \cup Page(rows, p)
      /\ paging'.pages = pages /\ paging'.next = n + 1
  BY <1>0, <1>2 DEF AnswerList, CountFresh, IInv, PagingOK, Paging
<1>6. /\ Finish(w) /\ UNCHANGED <<projects, pipelineRuns, incidents>>
  BY DEF AnswerList
<1>7. RunsOf(paging.project)' = rows
  BY <1>5, <1>6 DEF RunsOf
<1> DEFINE off == (n - 1) * size
<1>8. off \in Nat /\ n * size = off + size
  <2>1. n - 1 \in Nat
    BY <1>1
  <2>2. off \in Nat
    BY <1>1, <2>1
  <2>3. n * size = off + size
    BY <1>1
  <2> QED
    BY <2>2, <2>3
<1>9. \A i \in paging.due : i \in paging'.seen \/ Rank(rows, i) > n * size
  <2> SUFFICES ASSUME NEW i \in paging.due, i \notin paging.seen
               PROVE  i \in Page(rows, p) \/ Rank(rows, i) > n * size
    BY <1>5
  <2>1. i \in rows /\ Rank(rows, i) > off
    BY <1>0 DEF ReadingOK
  <2>2. Rank(rows, i) \in Nat
    BY <1>3, RankType
  <2>3. CASE Rank(rows, i) <= off + size
    <3>1. Rank(rows, i) \in p.offset + 1 .. p.offset + p.size
      BY <1>1, <1>2, <1>8, <2>1, <2>2, <2>3
    <3> QED
      BY <2>1, <3>1 DEF Page
  <2>4. CASE Rank(rows, i) > off + size
    BY <1>8, <2>4
  <2> HIDE DEF off
  <2> QED
    BY <1>1, <1>8, <2>2, <2>3, <2>4
<1>10. n + 1 > pages => \A i \in rows : ~(Rank(rows, i) > n * size)
  <2> SUFFICES ASSUME n + 1 > pages, NEW i \in rows
               PROVE  ~(Rank(rows, i) > n * size)
    OBVIOUS
  <2>1. Rank(rows, i) \in Nat /\ Rank(rows, i) <= Cardinality(rows)
    BY <1>3, RankType
  <2>2. pages * size <= n * size
    <3> HIDE DEF pages
    <3>1. PICK d \in Nat : n = pages + d
      <4>1. n - pages \in Nat /\ n = pages + (n - pages)
        BY <1>1, <1>4
      <4> QED
        BY <4>1
    <3>2. n * size = pages * size + d * size /\ d * size \in Nat
      BY <1>1, <1>4, <3>1
    <3> QED
      BY <1>1, <1>4, <3>2
  <2>3. pages * size \in Nat /\ n * size \in Nat
    BY <1>1, <1>4
  <2> QED
    BY <1>3, <1>4, <2>1, <2>2, <2>3
<1>11. ReadingOK'
  <2>1. paging.due \subseteq rows
    BY <1>0 DEF ReadingOK
  <2>2. PagingEnded' => paging'.due \subseteq paging'.seen
    BY <1>5, <1>9, <1>10, <2>1 DEF PagingEnded
  <2>3. (paging'.next - 1) * paging'.size = n * size
    BY <1>1, <1>5
  <2> HIDE DEF rows, size, n, p, pages
  <2>4. \A i \in paging'.due \ paging'.seen :
          Rank(rows, i) > (paging'.next - 1) * paging'.size
    BY <1>5, <1>9, <2>3
  <2> QED
    BY <1>5, <1>7, <2>1, <2>2, <2>4 DEF ReadingOK
<1>12. ArchivedAtMatchesStatus'
  BY <1>0, <1>6 DEF ArchivedAtMatchesStatus, Existing
<1> QED
  BY <1>0, <1>6, <1>11, <1>12, NoneInFlight

LEMMA NextSerial == NoOverlap /\ SerialInv /\ [Next]_vars => SerialInv'
<1> SUFFICES ASSUME NoOverlap, SerialInv, [Next]_vars
             PROVE  RequestFresh' /\ ArchivedAtMatchesStatus' /\ ReadingOK' /\ CountFresh'
  BY NextIInv DEF SerialInv
<1>1. CASE UNCHANGED vars
  BY <1>1 DEF vars, SerialInv, RequestFresh, ArchivedAtMatchesStatus, Existing,
     ReadingOK, CountFresh, PagingEnded, RunsOf
<1> QED
  BY <1>1, SerialOpenList, SerialLoad, SerialLoadCreateIncident, SerialLoadList,
     SerialCommitOther, SerialCommitProject, SerialAnswerList, DetailsAssumption
     DEF Next

LEMMA SerialInvariance ==
    ASSUME NoOverlap
    PROVE  Spec => []SerialInv
BY InitSerial, NextSerial, NoOverlap, PTL DEF Spec

(* When requests do not overlap, a client that has read the last page has  *)
(* been given every run that was there when it opened the list, however    *)
(* many runs were created between its requests.                            *)
THEOREM SerialPagesMissNothing ==
    ASSUME NoOverlap
    PROVE  Spec => []PagesMissNothing
<1>1. SerialInv => PagesMissNothing
  BY DEF SerialInv, ReadingOK, PagesMissNothing
<1> QED
  BY <1>1, SerialInvariance, NoOverlap, PTL

(* When requests do not overlap, archived_at is set on the archived        *)
(* projects and on no other.                                               *)
THEOREM SerialArchivedAtMatchesStatus ==
    ASSUME NoOverlap
    PROVE  Spec => []ArchivedAtMatchesStatus
<1>1. SerialInv => ArchivedAtMatchesStatus
  BY DEF SerialInv
<1> QED
  BY <1>1, SerialInvariance, NoOverlap, PTL

-----------------------------------------------------------------------------
(* A request that is about to write into a project found it active, and    *)
(* nothing has happened since.                                             *)
OfActive ==
    \A w \in Workers : req[w].op \in {"update", "create_run", "create_incident"} =>
        Active(req[w].project)

LEMMA ReceivedOfActive ==
    ASSUME NoOverlap, SerialInv, NEW w \in Workers, NEW r, Receive(w, r),
           r.op \in {"update", "create_run", "create_incident"} => Active(r.project)
    PROVE  OfActive'
<1>1. \A v \in Workers : req'[v] = r
  BY DEF NoOverlap, Receive, SerialInv, IInv, RequestsOK
<1> QED
  BY <1>1 DEF Receive, OfActive, Active

LEMMA LoadedOfActive ==
    ASSUME NoOverlap, SerialInv, NEW w \in Workers, NEW k \in Keys, NEW d \in Details,
           \/ LoadCreate(w, k, d) \/ LoadUpdate(w, k, d)
           \/ LoadArchive(w, k) \/ LoadRestore(w, k) \/ LoadCreateRun(w, k)
    PROVE  OfActive'
<1>1. CASE LoadCreate(w, k, d)
  <2> DEFINE r == [NoRequest EXCEPT !.op = "create", !.project = k, !.details = d]
  <2>1. r.op = "create" /\ Receive(w, r)
    BY <1>1, NoRequestType DEF LoadCreate, Request
  <2> HIDE DEF r
  <2> QED
    BY <2>1, ReceivedOfActive
<1>2. CASE LoadUpdate(w, k, d)
  <2> DEFINE l == Loaded("update", k)
             r == [l EXCEPT !.details = d]
  <2>0. k \in Existing /\ Active(k) /\ Receive(w, r)
    BY <1>2 DEF LoadUpdate
  <2>1. l \in Request /\ l.project = k
    BY <2>0, LoadedType DEF SerialInv, IInv, Op
  <2> HIDE DEF l
  <2>2. r.project = k
    BY <2>1 DEF Request
  <2> HIDE DEF r
  <2> QED
    BY <2>0, <2>2, ReceivedOfActive
<1>3. ASSUME NEW op \in {"archive", "restore", "create_run"}, k \in Existing,
             op = "create_run" => Active(k), Receive(w, Loaded(op, k))
      PROVE  OfActive'
  <2>1. Loaded(op, k).op = op /\ Loaded(op, k).project = k
    BY <1>3, LoadedType DEF SerialInv, IInv, Op
  <2> QED
    BY <1>3, <2>1, ReceivedOfActive
<1> QED
  BY <1>1, <1>2, <1>3 DEF LoadArchive, LoadRestore, LoadCreateRun

LEMMA IncidentOfActive ==
    ASSUME NoOverlap, SerialInv, NEW w \in Workers, NEW k \in Keys,
           NEW run \in 0..MaxRuns, LoadCreateIncident(w, k, run)
    PROVE  OfActive'
<1> DEFINE l == Loaded("create_incident", k)
           r == [l EXCEPT !.run = run]
<1>0. k \in Existing /\ Active(k) /\ Receive(w, r)
  BY DEF LoadCreateIncident
<1>1. l \in Request /\ l.project = k
  BY <1>0, LoadedType DEF SerialInv, IInv, Op
<1> HIDE DEF l
<1>2. r.project = k
  BY <1>1 DEF Request
<1> HIDE DEF r
<1> QED
  BY <1>0, <1>2, ReceivedOfActive

LEMMA ListOfActive ==
    ASSUME NoOverlap, SerialInv, NEW w \in Workers, LoadList(w)
    PROVE  OfActive'
<1> DEFINE k == paging.project
           l == Loaded("list_runs", k)
           r == [l EXCEPT !.total = Cardinality(RunsOf(k))]
<1>0. k \in Existing /\ Receive(w, r)
  BY DEF LoadList, SerialInv, IInv, PagingOK
<1>1. l \in Request /\ l.op = "list_runs"
  BY <1>0, LoadedType DEF SerialInv, IInv, Op
<1> HIDE DEF l
<1>2. r.op = "list_runs"
  BY <1>1 DEF Request
<1> HIDE DEF r
<1> QED
  BY <1>0, <1>2, ReceivedOfActive

LEMMA FinishedOfActive ==
    ASSUME NoOverlap, IInv, NEW w \in Workers, Finish(w)
    PROVE  OfActive'
<1>1. \A v \in Workers : req'[v].op = "idle"
  BY NoRequestType DEF NoOverlap, IInv, RequestsOK, Finish
<1> QED
  BY <1>1 DEF OfActive

LEMMA NextOfActive == NoOverlap /\ SerialInv /\ OfActive /\ [Next]_vars => OfActive'
<1> SUFFICES ASSUME NoOverlap, SerialInv, OfActive, [Next]_vars PROVE OfActive'
  OBVIOUS
<1>1. CASE UNCHANGED vars
  BY <1>1 DEF vars, OfActive, Active
<1>2. ASSUME NEW k \in Keys, NEW size \in 1..MAX_PAGE_SIZE, OpenList(k, size)
      PROVE  OfActive'
  BY <1>2 DEF OpenList, OfActive, Active
<1>3. ASSUME NEW w \in Workers,
             \/ CommitCreate(w) \/ CommitUpdate(w) \/ CommitArchive(w)
             \/ CommitRestore(w) \/ CommitCreateRun(w) \/ CommitCreateIncident(w)
             \/ AnswerList(w) \/ Rollback(w)
      PROVE  OfActive'
  <2>1. Finish(w)
    BY <1>3 DEF CommitCreate, CommitUpdate, CommitArchive, CommitRestore,
       CommitCreateRun, CommitCreateIncident, AnswerList, Rollback
  <2> QED
    BY <2>1, FinishedOfActive DEF SerialInv
<1> QED
  BY <1>1, <1>2, <1>3, LoadedOfActive, IncidentOfActive, ListOfActive,
     DetailsAssumption DEF Next

-----------------------------------------------------------------------------
(* What an archived project holds, before and after a step.                *)
Frozen == \A k \in Existing : ~Active(k) => Contents(k)' = Contents(k)

LEMMA SameRows ==
    ASSUME UNCHANGED <<projects, pipelineRuns, incidents>>
    PROVE  Frozen
BY DEF Frozen, Contents, RunsOf, IncidentsOf

(* An UPDATE of a project changes its details only if it is active.        *)
LEMMA ProjectFrozen ==
    ASSUME SerialInv, OfActive, NEW w \in Workers,
           CommitUpdate(w) \/ CommitArchive(w) \/ CommitRestore(w)
    PROVE  Frozen
<1>1. UNCHANGED <<pipelineRuns, incidents>>
  BY DEF CommitUpdate, CommitArchive, CommitRestore
<1>2. /\ req[w].project \in Existing
      /\ projects \in [Existing -> Project]
  BY InFlight DEF CommitUpdate, CommitArchive, CommitRestore, SerialInv, IInv, TablesOK
<1>3. ASSUME NEW k \in Existing, ~Active(k)
      PROVE  projects'[k].details = projects[k].details
  <2>1. CASE CommitUpdate(w)
    <3>1. req[w].project # k
      BY <1>3, <2>1 DEF CommitUpdate, OfActive
    <3> QED
      BY <1>2, <2>1, <3>1 DEF CommitUpdate
  <2>2. CASE CommitArchive(w)
    BY <1>2, <2>2 DEF CommitArchive, Project
  <2>3. CASE CommitRestore(w)
    BY <1>2, <2>3 DEF CommitRestore, Project
  <2> QED
    BY <2>1, <2>2, <2>3
<1> QED
  BY <1>1, <1>3 DEF Frozen, Contents, RunsOf, IncidentsOf

LEMMA CreatedFrozen ==
    ASSUME SerialInv, NEW w \in Workers, CommitCreate(w)
    PROVE  Frozen
<1>1. UNCHANGED <<pipelineRuns, incidents>>
  BY DEF CommitCreate
<1>2. \A k \in Existing : projects'[k] = projects[k]
  BY DEF CommitCreate
<1> QED
  BY <1>1, <1>2 DEF Frozen, Contents, RunsOf, IncidentsOf

LEMMA RunFrozen ==
    ASSUME SerialInv, OfActive, NEW w \in Workers, CommitCreateRun(w)
    PROVE  Frozen
<1>p. PICK p : p = req[w].project
  OBVIOUS
<1>1. /\ Active(p)
      /\ pipelineRuns' = Append(pipelineRuns, p)
      /\ UNCHANGED <<projects, incidents>>
  BY <1>p DEF CommitCreateRun, OfActive
<1>2. pipelineRuns \in Seq(Existing) /\ p \in Existing
  BY <1>p, InFlight DEF CommitCreateRun, SerialInv, IInv, TablesOK
<1>3. /\ DOMAIN pipelineRuns' = DOMAIN pipelineRuns \cup {Len(pipelineRuns) + 1}
      /\ \A i \in DOMAIN pipelineRuns : pipelineRuns'[i] = pipelineRuns[i]
      /\ pipelineRuns'[Len(pipelineRuns) + 1] = p
  BY <1>1, <1>2, SeqAppended
<1>4. ASSUME NEW k \in Existing, ~Active(k)
      PROVE  RunsOf(k)' = RunsOf(k)
  BY <1>1, <1>3, <1>4 DEF RunsOf
<1> QED
  BY <1>1, <1>4 DEF Frozen, Contents, IncidentsOf

LEMMA IncidentFrozen ==
    ASSUME SerialInv, OfActive, NEW w \in Workers, CommitCreateIncident(w)
    PROVE  Frozen
<1>r. PICK row : row = [project |-> req[w].project, run |-> req[w].run]
  OBVIOUS
<1>1. /\ Active(row.project)
      /\ incidents' = Append(incidents, row)
      /\ UNCHANGED <<projects, pipelineRuns>>
  BY <1>r DEF CommitCreateIncident, OfActive
<1>2. incidents \in Seq([project: Existing, run: 0..Len(pipelineRuns)])
  BY DEF SerialInv, IInv, TablesOK
<1>3. /\ DOMAIN incidents' = DOMAIN incidents \cup {Len(incidents) + 1}
      /\ \A i \in DOMAIN incidents : incidents'[i] = incidents[i]
      /\ incidents'[Len(incidents) + 1] = row
  BY <1>1, <1>2
<1>4. ASSUME NEW k \in Existing, ~Active(k)
      PROVE  /\ IncidentsOf(k)' = IncidentsOf(k)
             /\ \A i \in IncidentsOf(k) : incidents'[i] = incidents[i]
  BY <1>1, <1>3, <1>4 DEF IncidentsOf
<1>5. ASSUME NEW k \in Existing, ~Active(k)
      PROVE  Contents(k)' = Contents(k)
  <2>1. RunsOf(k)' = RunsOf(k)
    BY <1>1 DEF RunsOf
  <2>2. {<<i, incidents'[i]>> : i \in IncidentsOf(k)'}
           = {<<i, incidents[i]>> : i \in IncidentsOf(k)}
    BY <1>4, <1>5
  <2> QED
    BY <1>1, <2>1, <2>2 DEF Contents
<1> QED
  BY <1>5 DEF Frozen

LEMMA NextFrozen ==
    ASSUME NoOverlap, SerialInv, OfActive, [Next]_vars
    PROVE  Frozen
<1>1. CASE UNCHANGED <<projects, pipelineRuns, incidents>>
  BY <1>1, SameRows
<1>2. ASSUME NEW w \in Workers,
             \/ CommitCreate(w) \/ CommitUpdate(w) \/ CommitArchive(w)
             \/ CommitRestore(w) \/ CommitCreateRun(w) \/ CommitCreateIncident(w)
      PROVE  Frozen
  BY <1>2, CreatedFrozen, ProjectFrozen, RunFrozen, IncidentFrozen
<1>3. ASSUME NEW w \in Workers, NEW k \in Keys,
             \/ \E d \in Details : LoadCreate(w, k, d) \/ LoadUpdate(w, k, d)
             \/ LoadArchive(w, k) \/ LoadRestore(w, k) \/ LoadCreateRun(w, k)
             \/ \E run \in 0..MaxRuns : LoadCreateIncident(w, k, run)
      PROVE  UNCHANGED <<projects, pipelineRuns, incidents>>
  BY <1>3 DEF LoadCreate, LoadUpdate, LoadArchive, LoadRestore, LoadCreateRun,
     LoadCreateIncident, Receive
<1>4. ASSUME NEW w \in Workers, LoadList(w) \/ AnswerList(w) \/ Rollback(w)
      PROVE  UNCHANGED <<projects, pipelineRuns, incidents>>
  BY <1>4 DEF LoadList, AnswerList, Rollback, Receive
<1>5. ASSUME NEW k \in Keys, NEW size \in 1..MAX_PAGE_SIZE, OpenList(k, size)
      PROVE  UNCHANGED <<projects, pipelineRuns, incidents>>
  BY <1>5 DEF OpenList
<1>6. CASE UNCHANGED vars
  BY <1>1, <1>6 DEF vars
<1>7. CASE Next
  BY <1>1, <1>2, <1>3, <1>4, <1>5, <1>7 DEF Next
<1> QED
  BY <1>6, <1>7

(* When requests do not overlap, an archived project gets no incident and  *)
(* no pipeline run, and its details do not change.                         *)
THEOREM SerialArchivedProjectsAreFrozen ==
    ASSUME NoOverlap
    PROVE  Spec => ArchivedProjectsAreFrozen
<1> DEFINE I == SerialInv /\ OfActive
<1>1. Init => I
  BY InitSerial, NoRequestType DEF Init, OfActive
<1>2. I /\ [Next]_vars => I'
  BY NextSerial, NextOfActive, NoOverlap
<1>3. I /\ [Next]_vars => [\A k \in Existing : ~Active(k) => Contents(k)' = Contents(k)]_vars
  BY NextFrozen, NoOverlap DEF Frozen
<1> QED
  BY <1>1, <1>2, <1>3, PTL DEF Spec, ArchivedProjectsAreFrozen
=============================================================================
