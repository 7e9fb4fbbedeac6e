-------------------------- MODULE DirectoryAtomic --------------------------
(***************************************************************************)
(* What registration and the seed promise: an account appears together     *)
(* with an organization it owns, under the first free slug of its name;    *)
(* the seed brings the directory to the seeded state, from any state and   *)
(* however often it is run.                                                *)
(***************************************************************************)
EXTENDS Naturals, Sequences

CONSTANTS Emails,          \* e-mail addresses
          Names,           \* the names people register with
          Candidates,      \* name -> the slugs tried for it, in their order
          Codes,           \* the approved failure categories
          OwnerEmail,      \* BOOTSTRAP_OWNER_EMAIL
          BootstrapSlug    \* BOOTSTRAP_ORG_SLUG

VARIABLES rows,       \* the rows of users, organizations, members, categories
          admins,     \* the accounts whose platform_role is platform_admin
          outdated    \* the stored categories that differ from the approved

vars == <<rows, admins, outdated>>

User(e) == <<"user", e>>
Organization(s) == <<"organization", s>>
Owner(s, e) == <<"owner", s, e>>
Category(c) == <<"category", c>>

Register(e, name, n) ==
    LET tried == Candidates[name]
    IN  /\ User(e) \notin rows
        /\ Organization(tried[n]) \notin rows
        /\ \A k \in 1 .. n - 1 : Organization(tried[k]) \in rows
        /\ rows' = rows \union {User(e), Organization(tried[n]), Owner(tried[n], e)}
        /\ UNCHANGED <<admins, outdated>>

Bootstrapped ==
    {User(OwnerEmail), Organization(BootstrapSlug),
     Owner(BootstrapSlug, OwnerEmail)}

Seed(bootstrap, production) ==
    /\ rows' = rows \union {Category(c) : c \in Codes}
                    \union (IF bootstrap THEN Bootstrapped ELSE {})
    /\ admins' = IF bootstrap /\ ~production
                 THEN admins \union {OwnerEmail} ELSE admins
    /\ outdated' = {}

Init ==
    /\ \E known \in SUBSET Codes :
          /\ rows = {Category(c) : c \in known}
          /\ outdated \in SUBSET known
    /\ admins = {}

Next ==
    \/ \E e \in Emails, name \in Names :
          \E n \in DOMAIN Candidates[name] : Register(e, name, n)
    \/ \E bootstrap, production \in BOOLEAN : Seed(bootstrap, production)

Spec == Init /\ [][Next]_vars
=============================================================================
