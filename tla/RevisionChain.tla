--------------------------- MODULE RevisionChain ---------------------------
(***************************************************************************)
(* What a chain of migrations promises: a command moves the database from  *)
(* one revision to another in a single step; the schema is a function of   *)
(* the revision, whichever way it was reached; and the accounts, with      *)
(* those of them that administer the platform, outlive every move that     *)
(* does not go back to the empty database.                                 *)
(***************************************************************************)
EXTENDS Naturals

CONSTANTS Revisions,   \* the revisions, 0 standing for the empty database
          SchemaOf     \* revision -> schema

VARIABLES revision, schema, accounts, admins

vars == <<revision, schema, accounts, admins>>

Init == /\ revision = 0
        /\ schema = SchemaOf[0]
        /\ accounts = {}
        /\ admins = {}

Move(r) ==
    /\ revision' = r
    /\ schema' = SchemaOf[r]
    /\ IF r = 0
       THEN accounts' = {} /\ admins' = {}
       ELSE UNCHANGED <<accounts, admins>>

\* An account is added, or becomes an administrator.
Enrol ==
    /\ revision # 0
    /\ accounts \subseteq accounts' /\ admins \subseteq admins'
    /\ UNCHANGED <<revision, schema>>

Next == Enrol \/ \E r \in Revisions : Move(r)

Spec == Init /\ [][Next]_vars
=============================================================================
