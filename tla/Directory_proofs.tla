-------------------------- MODULE Directory_proofs --------------------------
(***************************************************************************)
(* Proofs about Directory, for any number of transactions, addresses,      *)
(* names and slugs: unique keys, the atomicity of registration and seed,   *)
(* and that no account is without an organization.                         *)
(***************************************************************************)
EXTENDS Directory, TLAPS

-----------------------------------------------------------------------------
\* How far a registration is: what it has inserted at each phase, and that the
\* slugs it has passed over are committed.
RegistrationOK(w) ==
    LET r == request[w]
        tried == Candidates[r.name]
        user == User(r.email)
        organization == Organization(tried[r.n])
        owner == Owner(tried[r.n], r.email)
    IN  /\ r.n \in 1 .. Len(tried)
        /\ \A k \in 1 .. r.n - 1 : Organization(tried[k]) \in rows
        /\ \/ /\ r.phase = "flush user" /\ r.n = 1
              /\ held[w] = {} /\ r.want = {user}
           \/ /\ r.phase = "find slug"
              /\ held[w] = {user} /\ r.want = {}
           \/ /\ r.phase = "flush organization"
              /\ held[w] = {user} /\ r.want = {organization}
           \/ /\ r.phase = "flush membership"
              /\ held[w] = {user, organization} /\ r.want = {owner}
           \/ /\ r.phase = "commit registration"
              /\ held[w] = {user, organization, owner} /\ r.want = {}

Categories == {Category(c) : c \in Codes}

Bootstrapped ==
    {User(OwnerEmail), Organization(BootstrapSlug),
     Owner(BootstrapSlug, OwnerEmail)}

Made(w) == held[w] \union request[w].want

\* How far a seed is: it makes nothing but the seeded rows, and what it has
\* passed over is there.
SeedingOK(w) ==
    LET r == request[w]
        there == rows \union Made(w)
    IN  /\ Made(w) \subseteq Categories \union Bootstrapped
        /\ Categories \subseteq there
        /\ outdated \subseteq r.updates
        /\ r.phase \in {"create organization", "select owner", "create owner",
                        "select membership"}
              => Organization(BootstrapSlug) \in there
        /\ r.phase \in {"create owner", "select membership"}
              => User(OwnerEmail) \in there
        /\ r.phase = "commit seed" =>
              \/ ~r.promote /\ Made(w) \subseteq Categories
              \/ Bootstrapped \subseteq there

IInv ==
    /\ TypeOK
    /\ \A w \in Workers : request[w] \in Registration => RegistrationOK(w)
    /\ \A w \in Workers : request[w] \in Seeding => SeedingOK(w)

-----------------------------------------------------------------------------
\* Rows of different tables differ, and a row determines its key.
LEMMA RowsDiffer ==
    /\ \A e, f : User(e) = User(f) => e = f
    /\ \A s, t : Organization(s) = Organization(t) => s = t
    /\ \A s, t, e, f : Owner(s, e) = Owner(t, f) => s = t /\ e = f
    /\ \A e, s : User(e) # Organization(s)
    /\ \A e, f, s : User(e) # Owner(s, f)
    /\ \A s, t, e : Organization(s) # Owner(t, e)
    /\ \A c, e : Category(c) # User(e)
    /\ \A c, s : Category(c) # Organization(s)
    /\ \A c, s, e : Category(c) # Owner(s, e)
BY DEF User, Organization, Owner, Category

LEMMA RowTypes ==
    /\ \A e \in Emails : User(e) \in Row
    /\ \A s \in Slugs : Organization(s) \in Row
    /\ \A s \in Slugs, e \in Emails : Owner(s, e) \in Row
    /\ \A c \in Codes : Category(c) \in Row
BY DEF Row

\* A transaction is a registration or a seed, never both, and its phase is one
\* of its kind.
LEMMA Kinds ==
    /\ Registration \intersect Seeding = {}
    /\ \A r \in Registration \union Seeding : r # Null
    /\ \A r \in Registration \union Seeding :
          r.phase \in {"flush user", "find slug", "flush organization",
                      "flush membership", "commit registration"}
            => r \in Registration
    /\ \A r \in Registration \union Seeding :
          r.phase \in {"select organization", "create organization",
                      "select owner", "create owner", "select membership",
                      "commit seed"}
            => r \in Seeding
BY NullIsNoRequest DEF Registration, Seeding

\* The parts a transaction is made of preserve the types.
LEMMA BeginTypes ==
    ASSUME TypeOK, NEW w \in Workers, NEW r \in Registration \union Seeding,
           Begin(w, r)
    PROVE  TypeOK'
BY DEF TypeOK, Begin, Open

LEMMA ContinueTypes ==
    ASSUME TypeOK, NEW w \in Workers, Open(w), UNCHANGED held,
           NEW phase, NEW want, Continue(w, phase, want),
           [request[w] EXCEPT !.phase = phase, !.want = want]
                \in Registration \union Seeding
    PROVE  TypeOK'
BY Kinds DEF TypeOK, Continue, Open

LEMMA FlushTypes ==
    ASSUME TypeOK, NEW w \in Workers, Open(w),
           NEW phase, NEW want, Flush(w, phase, want),
           [request[w] EXCEPT !.phase = phase, !.want = want]
                \in Registration \union Seeding
    PROVE  TypeOK'
BY Kinds DEF TypeOK, Flush, Continue, Open, WaitsFor, Clashes, Registration, Seeding

LEMMA UndoTypes ==
    ASSUME TypeOK, NEW w \in Workers, Undo(w),
           clashed' \in BOOLEAN, faults' \in 0 .. MaxFaults
    PROVE  TypeOK'
BY DEF TypeOK, Undo, Close, Open

LEMMA CommitTypes ==
    ASSUME TypeOK, NEW w \in Workers, Open(w), Commit(w),
           admins' \subseteq Emails, outdated' \subseteq Codes
    PROVE  TypeOK'
BY DEF TypeOK, Commit, Close, Open, WaitsFor, Clashes, Registration, Seeding

-----------------------------------------------------------------------------
\* What the candidates of a registration are.
LEMMA CandidateTypes ==
    ASSUME NEW r \in Registration, r.n \in 1 .. Len(Candidates[r.name])
    PROVE  Candidates[r.name][r.n] \in Slugs
<1>1. r.name \in Names
  BY DEF Registration
<1>2. Candidates[r.name] \in Seq(Slugs)
  BY <1>1, SettingsAreKnown
<1> QED
  BY <1>2

LEMMA FirstCandidate ==
    ASSUME NEW name \in Names
    PROVE  1 \in 1 .. Len(Candidates[name])
<1>1. Candidates[name] \in Seq(Slugs) /\ Candidates[name] # << >>
  BY SettingsAreKnown
<1> QED
  BY <1>1

\* The initial state.
LEMMA InitIInv == Init => IInv
<1> SUFFICES ASSUME Init PROVE IInv
  OBVIOUS
<1>1. TypeOK
  <2>1. PICK known \in SUBSET Codes :
           rows = {Category(c) : c \in known} /\ outdated \in SUBSET known
    BY DEF Init
  <2>2. rows \subseteq Row
    BY <2>1, RowTypes
  <2>3. faults \in 0 .. MaxFaults
    BY SettingsAreKnown DEF Init
  <2>4. request \in [Workers -> Registration \union Seeding \union {Null}]
    BY DEF Init
  <2> QED
    BY <2>1, <2>2, <2>3, <2>4 DEF Init, TypeOK, Open
<1>2. \A w \in Workers : request[w] \notin Registration \union Seeding
  BY NullIsNoRequest DEF Init
<1> QED
  BY <1>1, <1>2 DEF IInv

-----------------------------------------------------------------------------
\* How far the other transactions are does not change when rows are committed
\* and outdated categories brought up to date.
LEMMA OthersProgress ==
    ASSUME IInv, NEW w \in Workers,
           rows \subseteq rows', outdated' \subseteq outdated,
           \A v \in Workers \ {w} :
              request'[v] = request[v] /\ held'[v] = held[v]
    PROVE  \A v \in Workers \ {w} :
              /\ request'[v] \in Registration => RegistrationOK(v)'
              /\ request'[v] \in Seeding => SeedingOK(v)'
<1> TAKE v \in Workers \ {w}
<1>1. ASSUME request'[v] \in Registration PROVE RegistrationOK(v)'
  <2>1. RegistrationOK(v)
    BY <1>1 DEF IInv
  <2> QED
    BY <2>1 DEF RegistrationOK
<1>2. ASSUME request'[v] \in Seeding PROVE SeedingOK(v)'
  <2>1. SeedingOK(v)
    BY <1>2 DEF IInv
  <2> QED
    BY <2>1 DEF SeedingOK, Made
<1> QED
  BY <1>1, <1>2

LEMMA StepIInv ==
    ASSUME IInv, NEW w \in Workers, TypeOK',
           rows \subseteq rows', outdated' \subseteq outdated,
           \A v \in Workers \ {w} :
              request'[v] = request[v] /\ held'[v] = held[v],
           request'[w] \in Registration => RegistrationOK(w)',
           request'[w] \in Seeding => SeedingOK(w)'
    PROVE  IInv'
BY OthersProgress DEF IInv

\* The record of a transaction that goes on.
GoesOn(r, phase, want) == [r EXCEPT !.phase = phase, !.want = want]

NextSlug(r) == [r EXCEPT !.n = r.n + 1]

LEMMA NextSlugOfRegistration ==
    ASSUME NEW r \in Registration
    PROVE  /\ NextSlug(r) \in Registration
           /\ NextSlug(r).phase = r.phase
           /\ NextSlug(r).want = r.want
           /\ NextSlug(r).email = r.email
           /\ NextSlug(r).name = r.name
           /\ NextSlug(r).n = r.n + 1
<1>1. r.n + 1 \in Nat \ {0}
  <2>1. r.n \in Nat \ {0}
    BY DEF Registration
  <2>2. \A n \in Nat \ {0} : n + 1 \in Nat \ {0}
    OBVIOUS
  <2> QED
    BY <2>1, <2>2
<1>2. \A n \in Nat \ {0} : [r EXCEPT !.n = n] \in Registration
  BY DEF Registration
<1>3. NextSlug(r) \in Registration
  BY <1>1, <1>2 DEF NextSlug
<1>4. \A n \in Nat \ {0} :
        LET q == [r EXCEPT !.n = n]
        IN  /\ q.phase = r.phase /\ q.want = r.want /\ q.email = r.email
            /\ q.name = r.name /\ q.n = n
  BY DEF Registration
<1> QED
  BY <1>1, <1>3, <1>4 DEF NextSlug

\* A registration at one of its phases.
LEMMA AtRegistration ==
    ASSUME IInv, NEW w \in Workers, NEW phase, At(w, phase),
           phase \in {"flush user", "find slug", "flush organization",
                     "flush membership", "commit registration"}
    PROVE  /\ Open(w) /\ request[w] \in Registration /\ RegistrationOK(w)
           /\ Candidate(w) \in Slugs
<1>1. request[w] \in Registration
  BY Kinds DEF IInv, TypeOK, At, Open
<1>2. RegistrationOK(w)
  BY <1>1 DEF IInv
<1> QED
  BY <1>1, <1>2, CandidateTypes DEF At, RegistrationOK, Candidate

LEMMA AtSeeding ==
    ASSUME IInv, NEW w \in Workers, NEW phase, At(w, phase),
           phase \in {"select organization", "create organization",
                     "select owner", "create owner", "select membership",
                     "commit seed"}
    PROVE  Open(w) /\ request[w] \in Seeding /\ SeedingOK(w)
<1>1. request[w] \in Seeding
  BY Kinds DEF IInv, TypeOK, At, Open
<1> QED
  BY <1>1 DEF IInv, At

-----------------------------------------------------------------------------
\* The steps of a registration.
LEMMA RegisterStep ==
    ASSUME IInv, NEW w \in Workers, NEW e \in Emails, NEW name \in Names,
           Register(w, e, name)
    PROVE  IInv'
<1> DEFINE r == [kind |-> "register", phase |-> "flush user",
                 want |-> {User(e)}, email |-> e, name |-> name, n |-> 1]
<1>1. r \in Registration
  BY RowTypes DEF Registration
<1>2. Begin(w, r)
  BY DEF Register
<1>3. TypeOK'
  BY <1>1, <1>2, BeginTypes DEF IInv
<1>4. request'[w] = r /\ held'[w] = {}
  BY <1>2 DEF IInv, TypeOK, Begin
<1>5. RegistrationOK(w)'
  <2> DEFINE q == request'[w]
  <2>0. q = r
    BY <1>4
  <2>1. /\ q.phase = "flush user" /\ q.want = {User(e)}
        /\ q.email = e /\ q.name = name /\ q.n = 1
    <3> HIDE DEF q
    <3> QED
      BY <2>0
  <2>2. 1 .. 1 - 1 = {}
    OBVIOUS
  <2> QED
    BY <1>4, <2>1, <2>2, FirstCandidate DEF RegistrationOK
<1>6. request'[w] \notin Seeding
  BY <1>1, <1>4, Kinds
<1> QED
  BY <1>2, <1>3, <1>5, <1>6, StepIInv DEF Begin, IInv, TypeOK

LEMMA FlushUserStep ==
    ASSUME IInv, NEW w \in Workers, FlushUser(w)
    PROVE  IInv'
<1> DEFINE r == request[w]
           q == GoesOn(r, "find slug", {})
<1>1. Open(w) /\ r \in Registration /\ RegistrationOK(w)
  BY AtRegistration DEF FlushUser
<1>2. q \in Registration /\ q.phase = "find slug" /\ q.want = {}
      /\ q.email = r.email /\ q.name = r.name /\ q.n = r.n
  BY <1>1 DEF GoesOn, Registration
<1>3. Flush(w, "find slug", {})
  BY DEF FlushUser
<1>4. TypeOK'
  BY <1>1, <1>2, <1>3, FlushTypes DEF IInv, GoesOn
<1>5. request'[w] = q /\ held'[w] = held[w] \union r.want /\ rows' = rows
  BY <1>3 DEF IInv, TypeOK, Flush, Continue, GoesOn
<1>6. held'[w] = {User(r.email)}
  BY <1>1, <1>5 DEF FlushUser, At, RegistrationOK
<1>7. RegistrationOK(w)'
  BY <1>1, <1>2, <1>5, <1>6 DEF RegistrationOK
<1>8. request'[w] \notin Seeding
  BY <1>2, <1>5, Kinds
<1> QED
  BY <1>3, <1>4, <1>7, <1>8, StepIInv DEF Flush, Continue, IInv, TypeOK

LEMMA SlugTakenStep ==
    ASSUME IInv, NEW w \in Workers, SlugTaken(w)
    PROVE  IInv'
<1> DEFINE r == request[w]
           q == NextSlug(r)
<1>1. Open(w) /\ r \in Registration /\ RegistrationOK(w)
  BY AtRegistration DEF SlugTaken
<1>2. q \in Registration /\ q.phase = r.phase /\ q.want = r.want
      /\ q.email = r.email /\ q.name = r.name /\ q.n = r.n + 1
  BY <1>1, NextSlugOfRegistration
<1>3. request'[w] = q /\ UNCHANGED <<rows, held>>
  BY DEF IInv, TypeOK, SlugTaken, NextSlug
<1>4. TypeOK'
  BY <1>1, <1>2, Kinds DEF IInv, TypeOK, SlugTaken, Open, NextSlug
<1>5. Organization(Candidate(w)) \in rows
  <2>1. held[w] = {User(r.email)}
    BY <1>1 DEF SlugTaken, At, RegistrationOK
  <2> QED
    BY <2>1, RowsDiffer DEF SlugTaken, Visible
<1>6. r.n + 1 \in 1 .. Len(Candidates[r.name])
  <2>1. Candidates[r.name] \in Seq(Slugs)
    BY <1>1, SettingsAreKnown DEF Registration
  <2>2. Len(Candidates[r.name]) \in Nat
    BY <2>1
  <2>3. r.n \in Nat \ {0} /\ r.n < Len(Candidates[r.name])
    BY <1>1 DEF SlugTaken, Registration
  <2> HIDE DEF r
  <2> QED
    BY <2>2, <2>3
<1>7. \A k \in 1 .. q.n - 1 : Organization(Candidates[r.name][k]) \in rows
  <2> TAKE k \in 1 .. q.n - 1
  <2>1. r.n \in Nat \ {0}
    BY <1>1 DEF Registration
  <2>2. k = r.n \/ k \in 1 .. r.n - 1
    BY <1>2, <2>1
  <2> QED
    BY <1>1, <1>5, <2>2 DEF Candidate, RegistrationOK
<1>8. RegistrationOK(w)'
  BY <1>1, <1>2, <1>3, <1>6, <1>7 DEF SlugTaken, At, RegistrationOK
<1>9. request'[w] \notin Seeding
  BY <1>2, <1>3, Kinds
<1> QED
  BY <1>4, <1>8, <1>9, StepIInv DEF SlugTaken, IInv, TypeOK

LEMMA SlugFreeStep ==
    ASSUME IInv, NEW w \in Workers, SlugFree(w)
    PROVE  IInv'
<1> DEFINE r == request[w]
           want == {Organization(Candidate(w))}
           q == GoesOn(r, "flush organization", want)
<1>1. Open(w) /\ r \in Registration /\ RegistrationOK(w) /\ Candidate(w) \in Slugs
  BY AtRegistration DEF SlugFree
<1>2. want \in SUBSET Row
  BY <1>1, RowTypes
<1>3. q \in Registration /\ q.phase = "flush organization" /\ q.want = want
      /\ q.email = r.email /\ q.name = r.name /\ q.n = r.n
  <2> HIDE DEF want
  <2> QED
    BY <1>1, <1>2 DEF GoesOn, Registration
<1>4. Continue(w, "flush organization", want) /\ UNCHANGED held
  BY DEF SlugFree
<1>5. TypeOK'
  <2> HIDE DEF want
  <2> QED
    BY <1>1, <1>3, <1>4, ContinueTypes DEF IInv, GoesOn
<1>6. request'[w] = q /\ UNCHANGED <<rows, held>>
  BY <1>4 DEF IInv, TypeOK, Continue, GoesOn
<1>7. RegistrationOK(w)'
  <2>1. r.phase = "find slug"
    BY DEF SlugFree, At
  <2>2. want = {Organization(Candidates[q.name][q.n])}
    BY <1>3 DEF Candidate
  <2>3. /\ r.n \in 1 .. Len(Candidates[r.name])
        /\ \A k \in 1 .. r.n - 1 : Organization(Candidates[r.name][k]) \in rows
        /\ held[w] = {User(r.email)}
    BY <1>1, <2>1 DEF RegistrationOK
  <2> HIDE DEF r, want, q
  <2> QED
    BY <1>3, <1>6, <2>2, <2>3 DEF RegistrationOK
<1>8. request'[w] \notin Seeding
  BY <1>3, <1>6, Kinds
<1> QED
  BY <1>4, <1>5, <1>7, <1>8, StepIInv DEF Continue, IInv, TypeOK

LEMMA FlushOrganizationStep ==
    ASSUME IInv, NEW w \in Workers, FlushOrganization(w)
    PROVE  IInv'
<1> DEFINE r == request[w]
           want == {Owner(Candidate(w), r.email)}
           q == GoesOn(r, "flush membership", want)
<1>1. Open(w) /\ r \in Registration /\ RegistrationOK(w) /\ Candidate(w) \in Slugs
  BY AtRegistration DEF FlushOrganization
<1>2. want \in SUBSET Row
  BY <1>1, RowTypes DEF Registration
<1>3. q \in Registration /\ q.phase = "flush membership" /\ q.want = want
      /\ q.email = r.email /\ q.name = r.name /\ q.n = r.n
  <2> HIDE DEF want
  <2> QED
    BY <1>1, <1>2 DEF GoesOn, Registration
<1>4. Flush(w, "flush membership", want)
  BY DEF FlushOrganization
<1>5. TypeOK'
  <2> HIDE DEF want
  <2> QED
    BY <1>1, <1>3, <1>4, FlushTypes DEF IInv, GoesOn
<1>6. request'[w] = q /\ held'[w] = held[w] \union r.want /\ rows' = rows
  BY <1>4 DEF IInv, TypeOK, Flush, Continue, GoesOn
<1>7. RegistrationOK(w)'
  <2>1. r.phase = "flush organization"
    BY DEF FlushOrganization, At
  <2>2. want = {Owner(Candidates[q.name][q.n], q.email)}
    BY <1>3 DEF Candidate
  <2>3. /\ r.n \in 1 .. Len(Candidates[r.name])
        /\ \A k \in 1 .. r.n - 1 : Organization(Candidates[r.name][k]) \in rows
        /\ held[w] = {User(r.email)} /\ r.want = {Organization(Candidates[r.name][r.n])}
    BY <1>1, <2>1 DEF RegistrationOK
  <2>4. held'[w] = {User(q.email), Organization(Candidates[q.name][q.n])}
    BY <1>3, <1>6, <2>3
  <2> HIDE DEF r, want, q
  <2> QED
    BY <1>3, <1>6, <2>2, <2>3, <2>4 DEF RegistrationOK
<1>8. request'[w] \notin Seeding
  BY <1>3, <1>6, Kinds
<1> QED
  BY <1>4, <1>5, <1>7, <1>8, StepIInv DEF Flush, Continue, IInv, TypeOK

LEMMA FlushMembershipStep ==
    ASSUME IInv, NEW w \in Workers, FlushMembership(w)
    PROVE  IInv'
<1> DEFINE r == request[w]
           q == GoesOn(r, "commit registration", {})
<1>1. Open(w) /\ r \in Registration /\ RegistrationOK(w)
  BY AtRegistration DEF FlushMembership
<1>2. q \in Registration /\ q.phase = "commit registration" /\ q.want = {}
      /\ q.email = r.email /\ q.name = r.name /\ q.n = r.n
  BY <1>1 DEF GoesOn, Registration
<1>3. Flush(w, "commit registration", {})
  BY DEF FlushMembership
<1>4. TypeOK'
  BY <1>1, <1>2, <1>3, FlushTypes DEF IInv, GoesOn
<1>5. request'[w] = q /\ held'[w] = held[w] \union r.want /\ rows' = rows
  BY <1>3 DEF IInv, TypeOK, Flush, Continue, GoesOn
<1>6. RegistrationOK(w)'
  <2>1. r.phase = "flush membership"
    BY DEF FlushMembership, At
  <2>2. /\ r.n \in 1 .. Len(Candidates[r.name])
        /\ \A k \in 1 .. r.n - 1 : Organization(Candidates[r.name][k]) \in rows
        /\ held[w] = {User(r.email), Organization(Candidates[r.name][r.n])}
        /\ r.want = {Owner(Candidates[r.name][r.n], r.email)}
    BY <1>1, <2>1 DEF RegistrationOK
  <2>3. held'[w] = {User(q.email), Organization(Candidates[q.name][q.n]),
                    Owner(Candidates[q.name][q.n], q.email)}
    BY <1>2, <1>5, <2>2
  <2> HIDE DEF r, q
  <2> QED
    BY <1>2, <1>5, <2>2, <2>3 DEF RegistrationOK
<1>7. request'[w] \notin Seeding
  BY <1>2, <1>5, Kinds
<1> QED
  BY <1>3, <1>4, <1>6, <1>7, StepIInv DEF Flush, Continue, IInv, TypeOK

\* The end of a transaction, by commit or rollback, leaves the others as they are.
LEMMA CloseStep ==
    ASSUME IInv, NEW w \in Workers, Close(w), TypeOK',
           rows \subseteq rows', outdated' \subseteq outdated
    PROVE  IInv'
<1>1. request'[w] = Null
  BY DEF Close, IInv, TypeOK
<1>2. request'[w] \notin Registration /\ request'[w] \notin Seeding
  BY <1>1, NullIsNoRequest
<1> QED
  BY <1>2, StepIInv DEF Close, IInv, TypeOK

LEMMA CommitRegistrationStep ==
    ASSUME IInv, NEW w \in Workers, CommitRegistration(w)
    PROVE  IInv'
<1>1. Commit(w) /\ Open(w) /\ UNCHANGED <<admins, outdated>>
  BY DEF CommitRegistration, At
<1>2. TypeOK'
  BY <1>1, CommitTypes DEF IInv, TypeOK
<1> QED
  BY <1>1, <1>2, CloseStep DEF Commit

LEMMA CommitSeedStep ==
    ASSUME IInv, NEW w \in Workers, CommitSeed(w)
    PROVE  IInv'
<1>1. Commit(w) /\ Open(w)
  BY DEF CommitSeed, At
<1>2. admins' \subseteq Emails /\ outdated' \subseteq outdated
  BY SettingsAreKnown DEF CommitSeed, IInv, TypeOK
<1>3. TypeOK'
  BY <1>1, <1>2, CommitTypes DEF IInv, TypeOK
<1> QED
  BY <1>1, <1>2, <1>3, CloseStep DEF Commit

LEMMA UndoStep ==
    ASSUME IInv, NEW w \in Workers,
           IntegrityError(w) \/ DeadlockDetected(w) \/ Fault(w)
    PROVE  IInv'
<1>1. Undo(w)
  BY DEF IntegrityError, DeadlockDetected, Fault
<1>2. clashed' \in BOOLEAN
  BY DEF IntegrityError, DeadlockDetected, Fault, IInv, TypeOK
<1>3. faults' \in 0 .. MaxFaults
  <2>1. MaxFaults \in Nat /\ faults \in 0 .. MaxFaults
    BY SettingsAreKnown DEF IInv, TypeOK
  <2> QED
    BY <2>1 DEF IntegrityError, DeadlockDetected, Fault
<1>4. TypeOK'
  BY <1>1, <1>2, <1>3, UndoTypes DEF IInv
<1> QED
  BY <1>1, <1>4, CloseStep DEF Undo

-----------------------------------------------------------------------------
\* The steps of a seed.
LEMMA SeedStep ==
    ASSUME IInv, NEW w \in Workers, NEW bootstrap \in BOOLEAN,
           NEW production \in BOOLEAN, Seed(w, bootstrap, production)
    PROVE  IInv'
<1> DEFINE first == IF bootstrap THEN "select organization" ELSE "commit seed"
           missing == {Category(c) : c \in Codes} \ rows
           promote == bootstrap /\ ~production
           r == [kind |-> "seed", phase |-> first, want |-> missing,
                 updates |-> outdated, promote |-> promote]
<1>1. first \in {"select organization", "commit seed"}
      /\ (first = "commit seed" => ~promote)
      /\ missing \in SUBSET Row /\ promote \in BOOLEAN /\ outdated \in SUBSET Codes
  BY RowTypes DEF IInv, TypeOK
<1>2. r \in Seeding /\ r.phase = first /\ r.want = missing
      /\ r.updates = outdated /\ r.promote = promote
  <2> HIDE DEF first, missing, promote
  <2> QED
    BY <1>1 DEF Seeding
<1>3. Begin(w, r)
  BY DEF Seed
<1>4. TypeOK'
  <2> HIDE DEF r
  <2> QED
    BY <1>2, <1>3, BeginTypes DEF IInv
<1>5. request'[w] = r /\ held'[w] = {} /\ rows' = rows /\ outdated' = outdated
  <2> HIDE DEF r
  <2> QED
    BY <1>3 DEF IInv, TypeOK, Begin
<1>6. SeedingOK(w)'
  <2>1. Made(w)' = missing
    <3> HIDE DEF r
    <3> QED
      BY <1>2, <1>5 DEF Made
  <2>2. missing \subseteq Categories /\ Categories \subseteq rows \union missing
    BY DEF Categories
  <2> HIDE DEF r, first, missing, promote
  <2> QED
    BY <1>1, <1>2, <1>5, <2>1, <2>2 DEF SeedingOK
<1>7. request'[w] \notin Registration
  <2> HIDE DEF r
  <2> QED
    BY <1>2, <1>5, Kinds
<1> QED
  <2> HIDE DEF r
  <2> QED
    BY <1>3, <1>4, <1>6, <1>7, StepIInv DEF Begin, IInv, TypeOK

\* A seed that selects a row has it, or has added it.
LEMMA SelectOrCreateTypes ==
    ASSUME IInv, NEW w \in Workers, Open(w), request[w] \in Seeding,
           NEW row \in Row, NEW flushing, NEW next,
           {flushing, next} \subseteq
              {"select organization", "create organization", "select owner",
               "create owner", "select membership", "commit seed"},
           SelectOrCreate(w, row, flushing, next)
    PROVE  /\ TypeOK' /\ request'[w] \in Seeding
           /\ request'[w].phase \in {flushing, next}
           /\ request'[w].updates = request[w].updates
           /\ request'[w].promote = request[w].promote
           /\ UNCHANGED <<rows, outdated, held>>
           /\ \A v \in Workers \ {w} : request'[v] = request[v]
           /\ Made(w) \subseteq Made(w)' /\ Made(w)' \subseteq Made(w) \union {row}
           /\ row \in rows \union Made(w)'
<1> DEFINE r == request[w]
<1>1. PICK phase \in {flushing, next}, want \in {r.want, r.want \union {row}} :
         Continue(w, phase, want) /\ UNCHANGED held
         /\ row \in Visible(w) \union want
  BY DEF SelectOrCreate
<1>2. r.want \subseteq Row /\ want \in SUBSET Row
  BY <1>1 DEF Seeding
<1> DEFINE q == GoesOn(r, phase, want)
<1>3. q \in Seeding /\ q.phase = phase /\ q.want = want
      /\ q.updates = r.updates /\ q.promote = r.promote
  BY <1>2 DEF GoesOn, Seeding
<1>4. TypeOK'
  BY <1>1, <1>3, ContinueTypes DEF IInv, GoesOn
<1>5. request'[w] = q /\ UNCHANGED <<rows, outdated, held>>
      /\ \A v \in Workers \ {w} : request'[v] = request[v]
  BY <1>1 DEF IInv, TypeOK, Continue, GoesOn
<1>6. Made(w) = held[w] \union r.want /\ Made(w)' = held[w] \union want
  BY <1>3, <1>5 DEF Made
<1>7. row \in rows \union Made(w)'
  BY <1>1, <1>6 DEF Visible
<1> HIDE DEF q
<1> QED
  BY <1>1, <1>3, <1>4, <1>5, <1>6, <1>7

\* A seed that flushes makes what it made before.
LEMMA SeedFlushTypes ==
    ASSUME IInv, NEW w \in Workers, Open(w), request[w] \in Seeding,
           NEW phase \in {"select owner", "select membership"},
           Flush(w, phase, {})
    PROVE  /\ TypeOK' /\ request'[w] \in Seeding
           /\ request'[w].phase = phase
           /\ request'[w].updates = request[w].updates
           /\ request'[w].promote = request[w].promote
           /\ UNCHANGED <<rows, outdated>>
           /\ \A v \in Workers \ {w} :
                 request'[v] = request[v] /\ held'[v] = held[v]
           /\ Made(w)' = Made(w)
<1> DEFINE r == request[w]
           q == GoesOn(r, phase, {})
<1>1. q \in Seeding /\ q.phase = phase /\ q.want = {}
      /\ q.updates = r.updates /\ q.promote = r.promote
  BY DEF GoesOn, Seeding
<1>2. TypeOK'
  BY <1>1, FlushTypes DEF IInv, GoesOn
<1>3. request'[w] = q /\ held'[w] = held[w] \union r.want
      /\ UNCHANGED <<rows, outdated>>
      /\ \A v \in Workers \ {w} : request'[v] = request[v] /\ held'[v] = held[v]
  BY DEF IInv, TypeOK, Flush, Continue, GoesOn
<1>4. Made(w)' = Made(w)
  BY <1>1, <1>3 DEF Made
<1> HIDE DEF q
<1> QED
  BY <1>1, <1>2, <1>3, <1>4

\* The rows the seed makes.
LEMMA BootstrappedRows ==
    /\ Bootstrapped \subseteq Row
    /\ Organization(BootstrapSlug) \in Bootstrapped
    /\ User(OwnerEmail) \in Bootstrapped
    /\ Owner(BootstrapSlug, OwnerEmail) \in Bootstrapped
BY RowTypes, SettingsAreKnown DEF Bootstrapped

LEMMA SelectOrganizationStep ==
    ASSUME IInv, NEW w \in Workers, SelectOrganization(w)
    PROVE  IInv'
<1>1. Open(w) /\ request[w] \in Seeding /\ SeedingOK(w)
  BY AtSeeding DEF SelectOrganization
<1> DEFINE row == Organization(BootstrapSlug)
<1>2. row \in Row /\ row \in Bootstrapped
  BY BootstrappedRows
<1>3. SelectOrCreate(w, row, "create organization", "select owner")
  BY DEF SelectOrganization
<1> HIDE DEF row
<1>4. /\ TypeOK' /\ request'[w] \in Seeding
      /\ request'[w].phase \in {"create organization", "select owner"}
      /\ request'[w].updates = request[w].updates
      /\ UNCHANGED <<rows, outdated, held>>
      /\ \A v \in Workers \ {w} : request'[v] = request[v]
      /\ Made(w) \subseteq Made(w)' /\ Made(w)' \subseteq Made(w) \union {row}
      /\ row \in rows \union Made(w)'
  BY <1>1, <1>2, <1>3, SelectOrCreateTypes
<1>5. SeedingOK(w)'
  BY <1>1, <1>2, <1>4 DEF SeedingOK, row
<1>6. request'[w] \notin Registration
  BY <1>4, Kinds
<1> QED
  BY <1>4, <1>5, <1>6, StepIInv

LEMMA SelectOwnerStep ==
    ASSUME IInv, NEW w \in Workers, SelectOwner(w)
    PROVE  IInv'
<1>1. Open(w) /\ request[w] \in Seeding /\ SeedingOK(w)
      /\ request[w].phase = "select owner"
  BY AtSeeding DEF SelectOwner, At
<1> DEFINE row == User(OwnerEmail)
<1>2. row \in Row /\ row \in Bootstrapped
  BY BootstrappedRows
<1>3. SelectOrCreate(w, row, "create owner", "select membership")
  BY DEF SelectOwner
<1> HIDE DEF row
<1>4. /\ TypeOK' /\ request'[w] \in Seeding
      /\ request'[w].phase \in {"create owner", "select membership"}
      /\ request'[w].updates = request[w].updates
      /\ UNCHANGED <<rows, outdated, held>>
      /\ \A v \in Workers \ {w} : request'[v] = request[v]
      /\ Made(w) \subseteq Made(w)' /\ Made(w)' \subseteq Made(w) \union {row}
      /\ row \in rows \union Made(w)'
  BY <1>1, <1>2, <1>3, SelectOrCreateTypes
<1>5. SeedingOK(w)'
  BY <1>1, <1>2, <1>4 DEF SeedingOK, row
<1>6. request'[w] \notin Registration
  BY <1>4, Kinds
<1> QED
  BY <1>4, <1>5, <1>6, StepIInv

LEMMA SelectMembershipStep ==
    ASSUME IInv, NEW w \in Workers, SelectMembership(w)
    PROVE  IInv'
<1>1. Open(w) /\ request[w] \in Seeding /\ SeedingOK(w)
      /\ request[w].phase = "select membership"
  BY AtSeeding DEF SelectMembership, At
<1> DEFINE row == Owner(BootstrapSlug, OwnerEmail)
<1>2. row \in Row /\ row \in Bootstrapped
  BY BootstrappedRows
<1>3. SelectOrCreate(w, row, "commit seed", "commit seed")
  BY DEF SelectMembership
<1> HIDE DEF row
<1>4. /\ TypeOK' /\ request'[w] \in Seeding
      /\ request'[w].phase \in {"commit seed", "commit seed"}
      /\ request'[w].updates = request[w].updates
      /\ UNCHANGED <<rows, outdated, held>>
      /\ \A v \in Workers \ {w} : request'[v] = request[v]
      /\ Made(w) \subseteq Made(w)' /\ Made(w)' \subseteq Made(w) \union {row}
      /\ row \in rows \union Made(w)'
  BY <1>1, <1>2, <1>3, SelectOrCreateTypes
<1>5. SeedingOK(w)'
  <2>1. Bootstrapped \subseteq rows \union Made(w)'
    BY <1>1, <1>4 DEF SeedingOK, Bootstrapped, row
  <2> QED
    BY <1>1, <1>2, <1>4, <2>1 DEF SeedingOK
<1>6. request'[w] \notin Registration
  BY <1>4, Kinds
<1> QED
  BY <1>4, <1>5, <1>6, StepIInv

LEMMA CreateStep ==
    ASSUME IInv, NEW w \in Workers, CreateOrganization(w) \/ CreateOwner(w)
    PROVE  IInv'
<1>1. PICK phase \in {"select owner", "select membership"} :
         /\ Flush(w, phase, {})
         /\ \/ phase = "select owner" /\ At(w, "create organization")
            \/ phase = "select membership" /\ At(w, "create owner")
  BY DEF CreateOrganization, CreateOwner
<1>2. Open(w) /\ request[w] \in Seeding /\ SeedingOK(w)
  BY <1>1, AtSeeding
<1>3. /\ TypeOK' /\ request'[w] \in Seeding
      /\ request'[w].phase = phase
      /\ request'[w].updates = request[w].updates
      /\ UNCHANGED <<rows, outdated>>
      /\ \A v \in Workers \ {w} : request'[v] = request[v] /\ held'[v] = held[v]
      /\ Made(w)' = Made(w)
  BY <1>1, <1>2, SeedFlushTypes
<1>4. SeedingOK(w)'
  BY <1>1, <1>2, <1>3 DEF SeedingOK, At
<1>5. request'[w] \notin Registration
  BY <1>3, Kinds
<1> QED
  BY <1>3, <1>4, <1>5, StepIInv

-----------------------------------------------------------------------------
LEMMA Inductive == IInv /\ [Next]_vars => IInv'
<1> SUFFICES ASSUME IInv, [Next]_vars PROVE IInv'
  OBVIOUS
<1>1. CASE UNCHANGED vars
  <2>1. TypeOK'
    BY <1>1 DEF vars, IInv, TypeOK, Open
  <2>2. ASSUME NEW w \in Workers
        PROVE  /\ RegistrationOK(w) => RegistrationOK(w)'
               /\ SeedingOK(w) => SeedingOK(w)'
    BY <1>1 DEF vars, RegistrationOK, SeedingOK, Made
  <2> QED
    BY <1>1, <2>1, <2>2 DEF vars, IInv
<1>2. ASSUME NEW w \in Workers, Receive(w) PROVE IInv'
  BY <1>2, RegisterStep, SeedStep DEF Receive
<1>3. ASSUME NEW w \in Workers, Step(w) PROVE IInv'
  BY <1>3, FlushUserStep, SlugTakenStep, SlugFreeStep, FlushOrganizationStep,
     FlushMembershipStep, CommitRegistrationStep, SelectOrganizationStep,
     SelectOwnerStep, SelectMembershipStep, CreateStep, CommitSeedStep,
     UndoStep DEF Step
<1>4. ASSUME NEW w \in Workers, Fault(w) PROVE IInv'
  BY <1>4, UndoStep
<1> QED
  BY <1>1, <1>2, <1>3, <1>4 DEF Next

LEMMA Invariant == Spec => []IInv
BY InitIInv, Inductive, PTL DEF Spec

\* Types, and that no unique key is held twice: whatever transactions overlap,
\* a row that one has inserted is neither committed nor inserted by another.
THEOREM TypeCorrect == Spec => []TypeOK
<1>1. IInv => TypeOK
  BY DEF IInv
<1> QED
  BY <1>1, Invariant, PTL

-----------------------------------------------------------------------------
\* What the two commits add to the directory.
LEMMA RegistrationCommits ==
    ASSUME IInv, NEW w \in Workers, CommitRegistration(w)
    PROVE  /\ request[w].email \in Emails /\ request[w].name \in Names
           /\ request[w].n \in 1 .. Len(Candidates[request[w].name])
           /\ Candidate(w) \in Slugs
           /\ User(request[w].email) \notin rows
           /\ Organization(Candidate(w)) \notin rows
           /\ \A k \in 1 .. request[w].n - 1 :
                 Organization(Candidates[request[w].name][k]) \in rows
           /\ rows' = rows \union {User(request[w].email),
                                   Organization(Candidate(w)),
                                   Owner(Candidate(w), request[w].email)}
           /\ UNCHANGED <<admins, outdated>>
<1> DEFINE r == request[w]
<1>1. r \in Registration /\ RegistrationOK(w) /\ Candidate(w) \in Slugs
      /\ r.phase = "commit registration"
  BY AtRegistration DEF CommitRegistration, At
<1>2. /\ held[w] = {User(r.email), Organization(Candidate(w)),
                    Owner(Candidate(w), r.email)}
      /\ r.want = {} /\ r.n \in 1 .. Len(Candidates[r.name])
      /\ \A k \in 1 .. r.n - 1 : Organization(Candidates[r.name][k]) \in rows
  BY <1>1 DEF RegistrationOK, Candidate
<1>3. held[w] \intersect rows = {}
  BY DEF IInv, TypeOK
<1>4. r.email \in Emails /\ r.name \in Names
  BY <1>1 DEF Registration
<1>5. rows' = rows \union held[w] \union r.want /\ UNCHANGED <<admins, outdated>>
  BY DEF CommitRegistration, Commit
<1> HIDE DEF r
<1>6. rows' = rows \union held[w]
  BY <1>2, <1>5
<1> QED
  BY <1>1, <1>2, <1>3, <1>4, <1>5, <1>6 DEF r

LEMMA SeedCommits ==
    ASSUME IInv, NEW w \in Workers, CommitSeed(w)
    PROVE  /\ outdated' = {}
           /\ \/ /\ rows' = rows \union Categories
                 /\ admins' = admins
              \/ /\ rows' = rows \union Categories \union Bootstrapped
                 /\ admins' = admins \/ admins' = admins \union {OwnerEmail}
<1>1. request[w] \in Seeding /\ SeedingOK(w) /\ request[w].phase = "commit seed"
  BY AtSeeding DEF CommitSeed, At
<1>2. rows' = rows \union Made(w)
  BY DEF CommitSeed, Commit, Made
<1>3. /\ admins' = IF request[w].promote THEN admins \union {OwnerEmail} ELSE admins
      /\ outdated' = outdated \ request[w].updates
  BY DEF CommitSeed
<1>4. outdated' = {}
  BY <1>1, <1>3 DEF SeedingOK
<1>5. CASE ~request[w].promote /\ Made(w) \subseteq Categories
  BY <1>1, <1>2, <1>3, <1>4, <1>5 DEF SeedingOK
<1>6. CASE Bootstrapped \subseteq rows \union Made(w)
  BY <1>1, <1>2, <1>3, <1>4, <1>6 DEF SeedingOK
<1> QED
  BY <1>1, <1>5, <1>6 DEF SeedingOK

\* Nothing but the two commits changes the directory.
LEMMA OnlyCommitsChange ==
    ASSUME NEW w \in Workers, Receive(w) \/ Step(w) \/ Fault(w),
           ~CommitRegistration(w), ~CommitSeed(w)
    PROVE  UNCHANGED <<rows, admins, outdated>>
<1>1. CASE Receive(w)
  BY <1>1 DEF Receive, Register, Seed, Begin
<1>2. CASE Fault(w)
  BY <1>2 DEF Fault, Undo
<1>3. CASE Step(w)
  <2>1. CASE FlushUser(w) \/ SlugTaken(w) \/ SlugFree(w)
             \/ FlushOrganization(w) \/ FlushMembership(w)
    BY <2>1 DEF FlushUser, SlugTaken, SlugFree, FlushOrganization,
                FlushMembership, Flush, Continue
  <2>2. CASE CreateOrganization(w) \/ CreateOwner(w)
    BY <2>2 DEF CreateOrganization, CreateOwner, Flush, Continue
  <2>3. CASE SelectOrganization(w) \/ SelectOwner(w) \/ SelectMembership(w)
    BY <2>3 DEF SelectOrganization, SelectOwner, SelectMembership,
                SelectOrCreate, Continue
  <2>4. CASE IntegrityError(w) \/ DeadlockDetected(w)
    BY <2>4 DEF IntegrityError, DeadlockDetected, Undo
  <2> QED
    BY <1>3, <2>1, <2>2, <2>3, <2>4 DEF Step
<1> QED
  BY <1>1, <1>2, <1>3

-----------------------------------------------------------------------------
\* A directory to which categories are added, or an account with an organization
\* it owns, still has no account without one.
LEMMA StillOwned ==
    ASSUME AccountsOwnOrganizations, NEW s \in Slugs, NEW e \in Emails,
           NEW C \in SUBSET Categories,
           \/ rows' = rows \union C /\ admins' = admins
           \/ /\ rows' = rows \union C
                    \union {User(e), Organization(s), Owner(s, e)}
              /\ admins' = admins \/ admins' = admins \union {e}
    PROVE  AccountsOwnOrganizations'
<1>1. rows \subseteq rows'
  OBVIOUS
<1>2. ASSUME NEW f \in Emails, User(f) \in rows'
      PROVE  \E t \in Slugs : {Organization(t), Owner(t, f)} \subseteq rows'
  <2>1. CASE User(f) \in rows
    BY <1>1, <2>1 DEF AccountsOwnOrganizations
  <2>2. CASE User(f) \notin rows
    BY <1>2, <2>2, RowsDiffer DEF Categories
  <2> QED
    BY <2>1, <2>2
<1>3. ASSUME NEW t \in Slugs, Organization(t) \in rows'
      PROVE  \E f \in Emails : {User(f), Owner(t, f)} \subseteq rows'
  <2>1. CASE Organization(t) \in rows
    BY <1>1, <2>1 DEF AccountsOwnOrganizations
  <2>2. CASE Organization(t) \notin rows
    BY <1>3, <2>2, RowsDiffer DEF Categories
  <2> QED
    BY <2>1, <2>2
<1>4. \A f \in admins' : User(f) \in rows'
  BY <1>1 DEF AccountsOwnOrganizations
<1> QED
  BY <1>2, <1>3, <1>4 DEF AccountsOwnOrganizations

\* Every account owns an organization and every organization has an owner,
\* whatever registrations and seeds overlap, clash, deadlock or crash.
THEOREM AccountsAlwaysOwnOrganizations == Spec => []AccountsOwnOrganizations
<1>1. Init => AccountsOwnOrganizations
  BY RowsDiffer DEF Init, AccountsOwnOrganizations
<1>2. IInv /\ AccountsOwnOrganizations /\ [Next]_vars => AccountsOwnOrganizations'
  <2> SUFFICES ASSUME IInv, AccountsOwnOrganizations, [Next]_vars
               PROVE  AccountsOwnOrganizations'
    OBVIOUS
  <2>1. CASE UNCHANGED <<rows, admins, outdated>>
    BY <2>1 DEF AccountsOwnOrganizations
  <2>2. ASSUME NEW w \in Workers, CommitRegistration(w)
        PROVE  AccountsOwnOrganizations'
    <3> DEFINE e == request[w].email
               s == Candidate(w)
    <3>1. e \in Emails /\ s \in Slugs /\ UNCHANGED admins
          /\ rows' = rows \union {} \union {User(e), Organization(s), Owner(s, e)}
      BY <2>2, RegistrationCommits
    <3>2. {} \in SUBSET Categories
      OBVIOUS
    <3> HIDE DEF e, s
    <3> QED
      BY <3>1, <3>2, StillOwned
  <2>3. ASSUME NEW w \in Workers, CommitSeed(w)
        PROVE  AccountsOwnOrganizations'
    <3>1. Categories \in SUBSET Categories
      OBVIOUS
    <3> QED
      BY <2>3, <3>1, SeedCommits, StillOwned, SettingsAreKnown DEF Bootstrapped
  <2>4. CASE UNCHANGED vars
    BY <2>1, <2>4 DEF vars
  <2> QED
    BY <2>1, <2>2, <2>3, <2>4, OnlyCommitsChange DEF Next
<1> QED
  BY <1>1, <1>2, Invariant, PTL DEF Spec

-----------------------------------------------------------------------------
\* Every step of the directory is one registration, one seed, or nothing, of the
\* abstract directory.
LEMMA CommitRegistrationIsAtomic ==
    ASSUME IInv, NEW w \in Workers, CommitRegistration(w)
    PROVE  Atomic!Next
<1> DEFINE e == request[w].email
           name == request[w].name
           n == request[w].n
<1>1. n \in DOMAIN Candidates[name]
  <2>1. name \in Names /\ n \in 1 .. Len(Candidates[name])
    BY RegistrationCommits
  <2>2. Candidates[name] \in Seq(Slugs)
    BY <2>1, SettingsAreKnown
  <2> HIDE DEF name, n
  <2> QED
    BY <2>1, <2>2
<1>2. Candidate(w) = Candidates[name][n]
  BY DEF Candidate
<1>3. Atomic!Register(e, name, n)
  BY <1>2, RegistrationCommits
  DEF Atomic!Register, Atomic!User, Atomic!Organization, Atomic!Owner,
      User, Organization, Owner
<1>4. e \in Emails /\ name \in Names
  BY RegistrationCommits
<1> HIDE DEF e, name, n
<1> QED
  BY <1>1, <1>3, <1>4 DEF Atomic!Next

LEMMA CommitSeedIsAtomic ==
    ASSUME IInv, NEW w \in Workers, CommitSeed(w)
    PROVE  Atomic!Next
<1>1. Atomic!Bootstrapped = Bootstrapped
      /\ {Atomic!Category(c) : c \in Codes} = Categories
  BY DEF Atomic!Bootstrapped, Bootstrapped, Atomic!User, Atomic!Organization,
         Atomic!Owner, User, Organization, Owner, Atomic!Category, Category,
         Categories
<1>2. \/ Atomic!Seed(FALSE, TRUE)
      \/ Atomic!Seed(TRUE, TRUE)
      \/ Atomic!Seed(TRUE, FALSE)
  BY <1>1, SeedCommits DEF Atomic!Seed
<1> QED
  BY <1>2 DEF Atomic!Next

\* Registrations and seeds that overlap, clash, deadlock or crash have the
\* effect of some of them, one after the other, and of nothing else.
THEOREM DirectoryImplementsAtomic == Spec => ImplementsAtomic
<1>1. Init => Atomic!Init
  BY DEF Init, Atomic!Init, Atomic!Category, Category
<1>2. IInv /\ [Next]_vars => [Atomic!Next]_(Atomic!vars)
  <2> SUFFICES ASSUME IInv, [Next]_vars PROVE [Atomic!Next]_(Atomic!vars)
    OBVIOUS
  <2>1. CASE UNCHANGED vars
    BY <2>1 DEF vars, Atomic!vars
  <2>2. ASSUME NEW w \in Workers, Receive(w) \/ Step(w) \/ Fault(w)
        PROVE  [Atomic!Next]_(Atomic!vars)
    BY <2>2, CommitRegistrationIsAtomic, CommitSeedIsAtomic, OnlyCommitsChange
    DEF Atomic!vars
  <2> QED
    BY <2>1, <2>2 DEF Next
<1> QED
  BY <1>1, <1>2, Invariant, PTL DEF Spec, ImplementsAtomic, Atomic!Spec

-----------------------------------------------------------------------------
\* As long as no two transactions have been open at a time, nothing that the one
\* transaction is about to insert is there.
Alone == \A v, w \in Workers : Open(v) /\ Open(w) => v = w

WantsNew == \A w \in Workers : Open(w) => request[w].want \intersect rows = {}

OwnersHaveAccounts ==
    \A s \in Slugs, e \in Emails : Owner(s, e) \in rows => User(e) \in rows

SerialInv ==
    /\ OwnersHaveAccounts
    /\ OnlyOverlapClashes
    /\ ~overlapped => Alone /\ WantsNew

LEMMA BeginSerial ==
    ASSUME IInv, SerialInv, NEW w \in Workers, NEW r \in Registration \union Seeding,
           Begin(w, r), r.want \intersect rows = {}
    PROVE  SerialInv'
<1>1. /\ request' = [request EXCEPT ![w] = r]
      /\ request \in [Workers -> Registration \union Seeding \union {Null}]
  BY DEF Begin, IInv, TypeOK
<1>2. UNCHANGED <<rows, clashed>> /\ (overlapped => overlapped')
  BY DEF Begin
<1>3. ASSUME ~overlapped' PROVE Alone' /\ WantsNew'
  <2>1. \A v \in Workers : request[v] = Null
    BY <1>3 DEF Begin, Open
  <2>2. request'[w] = r /\ \A v \in Workers \ {w} : request'[v] = Null
    BY <1>1, <2>1
  <2> QED
    BY <1>2, <2>2 DEF Alone, WantsNew, Open
<1> QED
  BY <1>2, <1>3 DEF SerialInv, OwnersHaveAccounts, OnlyOverlapClashes

LEMMA StepSerial ==
    ASSUME IInv, SerialInv, NEW w \in Workers, Open(w),
           UNCHANGED <<overlapped, clashed>>, OwnersHaveAccounts',
           \A v \in Workers \ {w} : request'[v] = request[v],
           ~overlapped /\ request'[w] # Null
              => request'[w].want \intersect rows' = {}
    PROVE  SerialInv'
<1>1. ASSUME ~overlapped PROVE Alone' /\ WantsNew'
  <2>1. \A v \in Workers \ {w} : request'[v] = Null
    BY <1>1 DEF SerialInv, Alone, Open
  <2> QED
    BY <1>1, <2>1 DEF Alone, WantsNew, Open
<1> QED
  BY <1>1 DEF SerialInv, OnlyOverlapClashes

\* A statement that adds objects to the session, committing nothing.
LEMMA ContinueSerial ==
    ASSUME IInv, SerialInv, NEW w \in Workers, NEW phase, NEW want,
           Open(w), Continue(w, phase, want),
           ~overlapped => want \intersect rows = {}
    PROVE  SerialInv'
<1>1. UNCHANGED <<rows, overlapped, clashed>>
      /\ request'[w].want = want
      /\ \A v \in Workers \ {w} : request'[v] = request[v]
  <2>1. request \in [Workers -> Registration \union Seeding \union {Null}]
        /\ request[w] \in Registration \union Seeding
    BY DEF IInv, TypeOK, Open
  <2>2. request' = [request EXCEPT ![w].phase = phase, ![w].want = want]
    BY DEF Continue
  <2>3. \A v \in Workers \ {w} : request'[v] = request[v]
    BY <2>1, <2>2
  <2>4. request'[w] = [request[w] EXCEPT !.phase = phase, !.want = want]
    BY <2>1, <2>2
  <2>5. request'[w].want = want
    BY <2>1, <2>4 DEF Registration, Seeding
  <2> QED
    BY <2>3, <2>5 DEF Continue
<1> QED
  BY <1>1, StepSerial DEF SerialInv, OwnersHaveAccounts

LEMMA SelectSerial ==
    ASSUME IInv, SerialInv, NEW w \in Workers, NEW row, NEW flushing, NEW next,
           Open(w), SelectOrCreate(w, row, flushing, next)
    PROVE  SerialInv'
<1>1. ~overlapped => request[w].want \intersect rows = {}
  BY DEF SerialInv, WantsNew
<1>2. CASE row \in Visible(w)
  BY <1>1, <1>2, ContinueSerial DEF SelectOrCreate
<1>3. CASE row \notin Visible(w)
  <2>1. Continue(w, flushing, request[w].want \union {row}) /\ row \notin rows
    BY <1>3 DEF SelectOrCreate, Visible
  <2> QED
    BY <1>1, <2>1, ContinueSerial
<1> QED
  BY <1>2, <1>3

\* The end of a transaction.
LEMMA CloseSerial ==
    ASSUME IInv, SerialInv, NEW w \in Workers, Open(w), Close(w),
           UNCHANGED clashed, OwnersHaveAccounts'
    PROVE  SerialInv'
<1>1. request'[w] = Null
      /\ \A v \in Workers \ {w} : request'[v] = request[v]
  BY DEF Close, IInv, TypeOK
<1> QED
  BY <1>1, StepSerial DEF Close

LEMMA StepIsSerial ==
    ASSUME IInv, SerialInv, NEW w \in Workers, Step(w)
    PROVE  SerialInv'
<1>1. CASE FlushUser(w)
  <2>1. Open(w) /\ Continue(w, "find slug", {})
    BY <1>1 DEF FlushUser, At, Flush
  <2> QED
    BY <2>1, ContinueSerial
<1>2. CASE SlugTaken(w)
  <2>1. request \in [Workers -> Registration \union Seeding \union {Null}]
        /\ Open(w) /\ request[w] \in Registration
    BY <1>2, AtRegistration DEF SlugTaken, IInv, TypeOK
  <2>2. request'[w] = NextSlug(request[w])
        /\ \A v \in Workers \ {w} : request'[v] = request[v]
    BY <1>2, <2>1 DEF SlugTaken, NextSlug
  <2>3. request'[w].want = request[w].want
    BY <2>1, <2>2, NextSlugOfRegistration
  <2> QED
    BY <1>2, <2>1, <2>2, <2>3, StepSerial
    DEF SlugTaken, SerialInv, WantsNew, OwnersHaveAccounts
<1>3. CASE SlugFree(w)
  <2>1. Open(w)
        /\ Continue(w, "flush organization", {Organization(Candidate(w))})
        /\ {Organization(Candidate(w))} \intersect rows = {}
    BY <1>3 DEF SlugFree, At, Visible
  <2> QED
    BY <2>1, ContinueSerial
<1>4. CASE FlushOrganization(w)
  <2> DEFINE e == request[w].email
             s == Candidate(w)
  <2>1. Open(w) /\ request[w] \in Registration /\ RegistrationOK(w) /\ s \in Slugs
        /\ Continue(w, "flush membership", {Owner(s, e)})
    BY <1>4, AtRegistration DEF FlushOrganization, Flush
  <2>2. e \in Emails
    BY <2>1 DEF Registration
  <2>3. User(e) \in held[w]
    BY <1>4, <2>1 DEF FlushOrganization, At, RegistrationOK
  <2>4. User(e) \notin rows
    BY <2>3 DEF IInv, TypeOK
  <2> HIDE DEF e, s
  <2>5. Owner(s, e) \notin rows
    BY <2>1, <2>2, <2>4 DEF SerialInv, OwnersHaveAccounts
  <2> QED
    BY <2>1, <2>5, ContinueSerial
<1>5. CASE FlushMembership(w)
  <2>1. Open(w) /\ Continue(w, "commit registration", {})
    BY <1>5 DEF FlushMembership, At, Flush
  <2> QED
    BY <2>1, ContinueSerial
<1>6. CASE CommitRegistration(w)
  <2> DEFINE e == request[w].email
             s == Candidate(w)
  <2>1. Open(w) /\ Close(w) /\ UNCHANGED clashed
    BY <1>6 DEF CommitRegistration, At, Commit
  <2>2. rows' = rows \union {User(e), Organization(s), Owner(s, e)}
    BY <1>6, RegistrationCommits
  <2> HIDE DEF e, s
  <2>3. OwnersHaveAccounts'
    BY <2>2, RowsDiffer DEF SerialInv, OwnersHaveAccounts
  <2> QED
    BY <2>1, <2>3, CloseSerial
<1>7. CASE SelectOrganization(w) \/ SelectOwner(w) \/ SelectMembership(w)
  BY <1>7, SelectSerial
  DEF SelectOrganization, SelectOwner, SelectMembership, At
<1>8. CASE CreateOrganization(w) \/ CreateOwner(w)
  <2>1. PICK phase : Open(w) /\ Continue(w, phase, {})
    BY <1>8 DEF CreateOrganization, CreateOwner, At, Flush
  <2> QED
    BY <2>1, ContinueSerial
<1>9. CASE CommitSeed(w)
  <2>1. Open(w) /\ Close(w) /\ UNCHANGED clashed
    BY <1>9 DEF CommitSeed, At, Commit
  <2>2. \/ rows' = rows \union Categories
        \/ rows' = rows \union Categories \union Bootstrapped
    BY <1>9, SeedCommits
  <2>3. OwnersHaveAccounts'
    BY <2>2, RowsDiffer
    DEF SerialInv, OwnersHaveAccounts, Categories, Bootstrapped
  <2> QED
    BY <2>1, <2>3, CloseSerial
<1>10. CASE IntegrityError(w)
  <2>1. Open(w) /\ overlapped
    BY <1>10 DEF IntegrityError, Clashes, SerialInv, WantsNew
  <2>2. UNCHANGED <<rows, overlapped>>
    BY <1>10 DEF IntegrityError, Undo, Close
  <2> QED
    BY <2>1, <2>2 DEF SerialInv, OwnersHaveAccounts, OnlyOverlapClashes
<1>11. CASE DeadlockDetected(w)
  <2>1. WaitsFor(w) # {}
    BY <1>11 DEF DeadlockDetected, Deadlocked
  <2>2. Open(w)
    BY <2>1 DEF WaitsFor
  <2> QED
    BY <1>11, <2>2, CloseSerial
    DEF DeadlockDetected, Undo, SerialInv, OwnersHaveAccounts
<1> QED
  BY <1>1, <1>2, <1>3, <1>4, <1>5, <1>6, <1>7, <1>8, <1>9, <1>10, <1>11 DEF Step

\* A registration or a seed that runs alone never meets a unique constraint: the
\* checks of register, the slug loop and the seed cover every key they insert.
THEOREM SerialNeverClashes == Spec => []OnlyOverlapClashes
<1>1. Init => SerialInv
  <2> SUFFICES ASSUME Init PROVE SerialInv
    OBVIOUS
  <2>1. OwnersHaveAccounts
    BY RowsDiffer DEF Init, OwnersHaveAccounts
  <2>2. Alone /\ WantsNew /\ OnlyOverlapClashes
    BY DEF Init, Alone, WantsNew, Open, OnlyOverlapClashes
  <2> QED
    BY <2>1, <2>2 DEF SerialInv
<1>2. IInv /\ SerialInv /\ [Next]_vars => SerialInv'
  <2> SUFFICES ASSUME IInv, SerialInv, [Next]_vars PROVE SerialInv'
    OBVIOUS
  <2>1. CASE UNCHANGED vars
    BY <2>1 DEF vars, SerialInv, OwnersHaveAccounts, OnlyOverlapClashes, Alone,
                WantsNew, Open
  <2>2. ASSUME NEW w \in Workers, NEW e \in Emails, NEW name \in Names,
               Register(w, e, name)
        PROVE  SerialInv'
    <3> DEFINE r == [kind |-> "register", phase |-> "flush user",
                     want |-> {User(e)}, email |-> e, name |-> name, n |-> 1]
    <3>1. r \in Registration /\ r.want = {User(e)}
      BY RowTypes DEF Registration
    <3>2. Begin(w, r) /\ User(e) \notin rows
      BY <2>2 DEF Register
    <3> HIDE DEF r
    <3> QED
      BY <3>1, <3>2, BeginSerial
  <2>3. ASSUME NEW w \in Workers, NEW bootstrap \in BOOLEAN,
               NEW production \in BOOLEAN, Seed(w, bootstrap, production)
        PROVE  SerialInv'
    <3> DEFINE first == IF bootstrap THEN "select organization" ELSE "commit seed"
               missing == {Category(c) : c \in Codes} \ rows
               promote == bootstrap /\ ~production
               r == [kind |-> "seed", phase |-> first, want |-> missing,
                     updates |-> outdated, promote |-> promote]
    <3>1. first \in {"select organization", "commit seed"} /\ promote \in BOOLEAN
          /\ missing \in SUBSET Row /\ missing \intersect rows = {}
          /\ outdated \in SUBSET Codes
      BY RowTypes DEF IInv, TypeOK
    <3>2. Begin(w, r)
      BY <2>3 DEF Seed
    <3> HIDE DEF first, missing, promote
    <3>3. r \in Seeding /\ r.want = missing
      BY <3>1 DEF Seeding
    <3> HIDE DEF r
    <3> QED
      BY <3>1, <3>2, <3>3, BeginSerial
  <2>4. ASSUME NEW w \in Workers, Fault(w) PROVE SerialInv'
    BY <2>4, CloseSerial DEF Fault, Undo, SerialInv, OwnersHaveAccounts
  <2> QED
    BY <2>1, <2>2, <2>3, <2>4, StepIsSerial DEF Next, Receive
<1>3. SerialInv => OnlyOverlapClashes
  BY DEF SerialInv
<1> QED
  BY <1>1, <1>2, <1>3, Invariant, PTL DEF Spec
=============================================================================
