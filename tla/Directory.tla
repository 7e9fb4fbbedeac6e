----------------------------- MODULE Directory -----------------------------
(***************************************************************************)
(* Registration (AuthService.register with                                 *)
(* create_default_organization_for_user) and the seed (run_seed), as       *)
(* database transactions that overlap.                                     *)
(*                                                                         *)
(* A SELECT sees what is committed and what its own transaction has        *)
(* flushed.  A flush INSERTs the objects added to the session (want); an   *)
(* INSERT whose unique key another open transaction has inserted waits for *)
(* that transaction to end, and fails when the key is committed.  Nothing  *)
(* catches the IntegrityError: the transaction is rolled back.  When       *)
(* transactions wait for each other PostgreSQL aborts one of them.         *)
(*                                                                         *)
(* An organization is its slug and an account its address, since both are  *)
(* unique.  The UPDATEs of the seed are made by the flush of its commit,   *)
(* and no row lock of theirs is modelled: they never fail, and two seeds   *)
(* write the same values.  A registration of a known address and a         *)
(* bootstrap without a password are refused before anything is written.    *)
(***************************************************************************)
EXTENDS Naturals, Sequences, FiniteSets

CONSTANTS Workers,         \* transactions that may be open at a time
          Emails,          \* e-mail addresses
          Names,           \* the names people register with
          Slugs,           \* organization slugs
          Candidates,      \* name -> base slug, base slug-1, base slug-2, ...
          Codes,           \* the codes of APPROVED_FAILURE_CATEGORIES
          OwnerEmail,      \* BOOTSTRAP_OWNER_EMAIL
          BootstrapSlug,   \* BOOTSTRAP_ORG_SLUG
          MaxFaults,       \* bound: transactions lost to a crash
          Null

ASSUME SettingsAreKnown ==
    /\ OwnerEmail \in Emails /\ BootstrapSlug \in Slugs
    /\ Candidates \in [Names -> Seq(Slugs)]
    /\ \A name \in Names : Candidates[name] # << >>
    /\ MaxFaults \in Nat

VARIABLES rows,        \* committed rows, each by its unique key
          admins,      \* accounts whose platform_role is platform_admin
          outdated,    \* categories whose stored fields are not the approved
          request,     \* worker -> what its transaction is about to do, or Null
          held,        \* worker -> the rows it has inserted and not committed
          overlapped,  \* two transactions have been open at a time
          clashed,     \* an INSERT has failed on a unique constraint
          faults

vars == <<rows, admins, outdated, request, held, overlapped, clashed, faults>>

\* The rows, by table and unique key.  Every membership made here is the
\* active ORGANIZATION_OWNER of its organization.
User(e) == <<"user", e>>
Organization(s) == <<"organization", s>>
Owner(s, e) == <<"owner", s, e>>
Category(c) == <<"category", c>>

Row == {User(e) : e \in Emails} \union {Organization(s) : s \in Slugs}
        \union {Owner(s, e) : s \in Slugs, e \in Emails}
        \union {Category(c) : c \in Codes}

\* What a transaction is about to do: phase is the statement it executes next,
\* want the objects it has added to its session and not flushed.
Registration ==
    [kind : {"register"}, want : SUBSET Row,
     phase : {"flush user", "find slug", "flush organization",
              "flush membership", "commit registration"},
     email : Emails, name : Names, n : Nat \ {0}]

Seeding ==
    [kind : {"seed"}, want : SUBSET Row,
     phase : {"select organization", "create organization", "select owner",
              "create owner", "select membership", "commit seed"},
     updates : SUBSET Codes, promote : BOOLEAN]

ASSUME NullIsNoRequest == Null \notin Registration \union Seeding

-----------------------------------------------------------------------------
Open(w) == request[w] # Null
At(w, phase) == Open(w) /\ request[w].phase = phase

\* What a SELECT of w's transaction sees.
Visible(w) == rows \union held[w]

\* The open transactions whose end w's flush waits for.
WaitsFor(w) ==
    IF Open(w) THEN {v \in Workers \ {w} : request[w].want \intersect held[v] # {}}
    ELSE {}

\* Faulty variant: slug is not declared unique.
Clashes_SlugNotUnique(w) ==
    Open(w) /\ {k \in request[w].want \intersect rows : k[1] # "organization"} # {}

\* w's flush violates a unique constraint.
Clashes(w) == Open(w) /\ request[w].want \intersect rows # {}

Begin(w, r) ==
    /\ ~Open(w)
    /\ request' = [request EXCEPT ![w] = r]
    /\ overlapped' = (overlapped \/ \E v \in Workers : Open(v))
    /\ UNCHANGED <<rows, admins, outdated, held, clashed, faults>>

\* w goes on to phase, having added the objects want to its session.
Continue(w, phase, want) ==
    /\ request' = [request EXCEPT ![w].phase = phase, ![w].want = want]
    /\ UNCHANGED <<rows, admins, outdated, overlapped, clashed, faults>>

\* session.flush: the objects added so far are inserted.
Flush(w, phase, want) ==
    /\ WaitsFor(w) = {} /\ ~Clashes(w)
    /\ held' = [held EXCEPT ![w] = held[w] \union request[w].want]
    /\ Continue(w, phase, want)

Close(w) ==
    /\ request' = [request EXCEPT ![w] = Null]
    /\ held' = [held EXCEPT ![w] = {}]
    /\ UNCHANGED overlapped

\* The commit, with the flush it begins with.
Commit(w) ==
    /\ WaitsFor(w) = {} /\ ~Clashes(w)
    /\ rows' = rows \union held[w] \union request[w].want
    /\ Close(w)
    /\ UNCHANGED <<clashed, faults>>

-----------------------------------------------------------------------------
\* AuthService.register

\* No account has the address: SELECT, then session.add(user).
Register(w, e, name) ==
    /\ User(e) \notin rows
    /\ Begin(w, [kind |-> "register", phase |-> "flush user",
                 want |-> {User(e)}, email |-> e, name |-> name, n |-> 1])

\* Faulty variant: the account is committed before its organization is made.
FlushUser_Commits(w) ==
    /\ At(w, "flush user")
    /\ WaitsFor(w) = {} /\ ~Clashes(w)
    /\ rows' = rows \union request[w].want
    /\ request' = [request EXCEPT ![w].phase = "find slug", ![w].want = {}]
    /\ UNCHANGED <<admins, outdated, held, overlapped, clashed, faults>>

FlushUser(w) ==
    /\ At(w, "flush user")
    /\ Flush(w, "find slug", {})

Candidate(w) == Candidates[request[w].name][request[w].n]

\* Faulty variant: the suffix grows and the slug is not made anew.
SlugTaken_SameSlug(w) ==
    /\ At(w, "find slug")
    /\ Organization(Candidate(w)) \in Visible(w)
    /\ UNCHANGED vars

\* Faulty variant: the suffix grows by two.
SlugTaken_SkipsOne(w) ==
    /\ At(w, "find slug")
    /\ Organization(Candidate(w)) \in Visible(w)
    /\ request[w].n + 1 < Len(Candidates[request[w].name])
    /\ request' = [request EXCEPT ![w].n = request[w].n + 2]
    /\ UNCHANGED <<rows, admins, outdated, held, overlapped, clashed, faults>>

\* One SELECT of the loop over slugs.
SlugTaken(w) ==
    /\ At(w, "find slug")
    /\ Organization(Candidate(w)) \in Visible(w)
    /\ request[w].n < Len(Candidates[request[w].name])
    /\ request' = [request EXCEPT ![w].n = request[w].n + 1]
    /\ UNCHANGED <<rows, admins, outdated, held, overlapped, clashed, faults>>

\* Faulty variant: the base slug is used as it is.
SlugFree_Unchecked(w) ==
    /\ At(w, "find slug")
    /\ Continue(w, "flush organization", {Organization(Candidate(w))})
    /\ UNCHANGED held

SlugFree(w) ==
    /\ At(w, "find slug")
    /\ Organization(Candidate(w)) \notin Visible(w)
    /\ Continue(w, "flush organization", {Organization(Candidate(w))})
    /\ UNCHANGED held

FlushOrganization(w) ==
    /\ At(w, "flush organization")
    /\ Flush(w, "flush membership", {Owner(Candidate(w), request[w].email)})

FlushMembership(w) ==
    /\ At(w, "flush membership")
    /\ Flush(w, "commit registration", {})

CommitRegistration(w) ==
    /\ At(w, "commit registration")
    /\ Commit(w)
    /\ UNCHANGED <<admins, outdated>>

-----------------------------------------------------------------------------
\* run_seed

\* seed_failure_categories: the SELECT, and the objects it adds and changes.
Seed(w, bootstrap, production) ==
    Begin(w, [kind |-> "seed",
              phase |-> IF bootstrap THEN "select organization" ELSE "commit seed",
              want |-> {Category(c) : c \in Codes} \ rows,
              updates |-> outdated, promote |-> bootstrap /\ ~production])

\* seed_bootstrap: a SELECT; the object is added and flushed when it is missing.
SelectOrCreate(w, row, flushing, next) ==
    /\ IF row \in Visible(w)
       THEN Continue(w, next, request[w].want)
       ELSE Continue(w, flushing, request[w].want \union {row})
    /\ UNCHANGED held

SelectOrganization(w) ==
    /\ At(w, "select organization")
    /\ SelectOrCreate(w, Organization(BootstrapSlug),
                      "create organization", "select owner")

CreateOrganization(w) ==
    /\ At(w, "create organization")
    /\ Flush(w, "select owner", {})

SelectOwner(w) ==
    /\ At(w, "select owner")
    /\ SelectOrCreate(w, User(OwnerEmail), "create owner", "select membership")

CreateOwner(w) ==
    /\ At(w, "create owner")
    /\ Flush(w, "select membership", {})

\* The membership is added, and flushed by the commit.
SelectMembership(w) ==
    /\ At(w, "select membership")
    /\ SelectOrCreate(w, Owner(BootstrapSlug, OwnerEmail),
                      "commit seed", "commit seed")

CommitSeed(w) ==
    /\ At(w, "commit seed")
    /\ Commit(w)
    /\ admins' = IF request[w].promote THEN admins \union {OwnerEmail} ELSE admins
    /\ outdated' = outdated \ request[w].updates

-----------------------------------------------------------------------------
\* The rollbacks.

Undo(w) == Close(w) /\ UNCHANGED <<rows, admins, outdated>>

IntegrityError(w) ==
    /\ Clashes(w)
    /\ clashed' = TRUE
    /\ Undo(w) /\ UNCHANGED faults

\* w is in a set of transactions that wait for one another.
Deadlocked(w) ==
    \E S \in SUBSET Workers :
        /\ w \in S
        /\ \A v \in S : WaitsFor(v) \intersect S # {}
        /\ \A v \in S : \E u \in S : v \in WaitsFor(u)

DeadlockDetected(w) ==
    /\ Deadlocked(w)
    /\ Undo(w) /\ UNCHANGED <<clashed, faults>>

\* The process or its connection is lost.
Fault(w) ==
    /\ Open(w)
    /\ faults < MaxFaults
    /\ faults' = faults + 1
    /\ Undo(w) /\ UNCHANGED clashed

-----------------------------------------------------------------------------
Init ==
    /\ \E known \in SUBSET Codes :
          /\ rows = {Category(c) : c \in known}
          /\ outdated \in SUBSET known
    /\ admins = {}
    /\ request = [w \in Workers |-> Null]
    /\ held = [w \in Workers |-> {}]
    /\ overlapped = FALSE /\ clashed = FALSE
    /\ faults = 0

Receive(w) ==
    \/ \E e \in Emails, name \in Names : Register(w, e, name)
    \/ \E bootstrap, production \in BOOLEAN : Seed(w, bootstrap, production)

Step(w) ==
    \/ FlushUser(w) \/ SlugTaken(w) \/ SlugFree(w) \/ FlushOrganization(w)
    \/ FlushMembership(w) \/ CommitRegistration(w)
    \/ SelectOrganization(w) \/ CreateOrganization(w)
    \/ SelectOwner(w) \/ CreateOwner(w) \/ SelectMembership(w) \/ CommitSeed(w)
    \/ IntegrityError(w) \/ DeadlockDetected(w)

Next == \E w \in Workers : Receive(w) \/ Step(w) \/ Fault(w)

Spec == Init /\ [][Next]_vars

\* A transaction goes on: the event loop runs its coroutine, and PostgreSQL
\* aborts one of those that wait in a circle.  Fairness is strong since an INSERT
\* that waits is woken whenever the transaction it waits for ends.
FairSpec == Spec /\ \A w \in Workers : SF_vars(Step(w))

-----------------------------------------------------------------------------
\* Types, and: no unique key is held by two transactions, or held and committed.
TypeOK ==
    /\ rows \subseteq Row
    /\ admins \subseteq Emails /\ outdated \subseteq Codes
    /\ request \in [Workers -> Registration \union Seeding \union {Null}]
    /\ held \in [Workers -> SUBSET Row]
    /\ \A w \in Workers :
          /\ ~Open(w) => held[w] = {}
          /\ held[w] \intersect rows = {}
          /\ \A v \in Workers \ {w} : held[v] \intersect held[w] = {}
    /\ overlapped \in BOOLEAN /\ clashed \in BOOLEAN /\ faults \in 0 .. MaxFaults

\* Whatever overlaps, fails or crashes: every account owns an organization,
\* every organization is owned by an account, and administrators have one.
AccountsOwnOrganizations ==
    /\ \A e \in Emails : User(e) \in rows =>
          \E s \in Slugs : {Organization(s), Owner(s, e)} \subseteq rows
    /\ \A s \in Slugs : Organization(s) \in rows =>
          \E e \in Emails : {User(e), Owner(s, e)} \subseteq rows
    /\ \A e \in admins : User(e) \in rows

\* A registration or a seed that runs alone never meets a unique constraint:
\* what its SELECTs looked for covers every key it inserts.
OnlyOverlapClashes == clashed => overlapped

Atomic == INSTANCE DirectoryAtomic

\* Every commit is the whole registration, under the first slug that is free at
\* that moment, or the whole seed; nothing else changes the directory.
ImplementsAtomic == Atomic!Spec

\* Every registration and every seed ends, also when two of them have inserted
\* what the other is about to insert (register: address, then slug; seed: slug,
\* then address).
RequestsEnd == \A w \in Workers : Open(w) ~> ~Open(w)
=============================================================================
