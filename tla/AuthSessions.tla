---------------------------- MODULE AuthSessions ----------------------------
(***************************************************************************)
(* The refresh tokens of one user account: login, rotation, logout and     *)
(* change of password (AuthService), each in a database session of its     *)
(* own.  As in module Incident a handler is a Load step, which SELECTs and *)
(* decides, and a Commit step, after which the others see its rows; no     *)
(* SELECT locks a row.                                                     *)
(*                                                                         *)
(* Passwords are numbered by the changes that set them: password = n is    *)
(* the hash the nth change has stored.  Clients present the password of    *)
(* the account as their request loads it, and tokens they were given.      *)
(***************************************************************************)
EXTENDS Naturals, FiniteSets

CONSTANTS
    Workers,     \* the concurrent requests
    Tokens,      \* the jti values that uuid4 draws
    NoToken,     \* replaced_by_jti IS NULL
    MaxPassword  \* bound: no password is changed more often

ASSUME NoTokenAssumption == NoToken \notin Tokens
ASSUME MaxPasswordAssumption == MaxPassword \in Nat

VARIABLES
    password,  \* users.password_hash
    tokens,    \* the committed rows of refresh_tokens, by jti
    lineage,   \* history: the login each token goes back to
    req,       \* what each request in flight has loaded
    overlapped \* history: two requests have been in flight at a time

vars == <<password, tokens, lineage, req, overlapped>>

Issued == DOMAIN tokens

(* revoked: revoked_at IS NOT NULL; expired: expires_at has passed.        *)
Token == [revoked: BOOLEAN, expired: BOOLEAN, replacedBy: Tokens \cup {NoToken}]

FreshToken == [revoked |-> FALSE, expired |-> FALSE, replacedBy |-> NoToken]

(* from: the token given in exchange; root: the token the login issued;    *)
(* password: the password that login verified.                             *)
Lineage == [from: Tokens \cup {NoToken}, root: Tokens, password: Nat]

Insert(rows, t, row) ==
    [x \in DOMAIN rows \cup {t} |-> IF x = t THEN row ELSE rows[x]]

-----------------------------------------------------------------------------
Op == {"idle", "login", "refresh", "logout", "change_password", "revoke_all"}

Request == [op: Op,
            password: Nat,                 \* users.password_hash as loaded
            token: Tokens \cup {NoToken},  \* the token presented
            found: SUBSET Tokens]          \* the sessions to revoke

NoRequest == [op |-> "idle", password |-> 0, token |-> NoToken, found |-> {}]

Idle(w) == req[w].op = "idle"

Receive(w, r) ==
    /\ Idle(w)
    /\ req' = [req EXCEPT ![w] = r]
    /\ overlapped' = (overlapped \/ \E v \in Workers : ~Idle(v))
    /\ UNCHANGED <<password, tokens, lineage>>

Finish(w) == req' = [req EXCEPT ![w] = NoRequest]

Stored(t) == t \in Issued /\ ~tokens[t].revoked

-----------------------------------------------------------------------------
Init ==
    /\ password = 0
    /\ tokens = << >>
    /\ lineage = << >>
    /\ req = [w \in Workers |-> NoRequest]
    /\ overlapped = FALSE

(* login: the password is verified against the row as loaded ...           *)
LoadLogin(w) ==
    Receive(w, [NoRequest EXCEPT !.op = "login", !.password = password])

(* ... and _issue_tokens stores the new token.                             *)
CommitLogin(w, t) ==
    /\ req[w].op = "login"
    /\ t \in Tokens \ Issued
    /\ tokens' = Insert(tokens, t, FreshToken)
    /\ lineage' = Insert(lineage, t, [from |-> NoToken, root |-> t,
                                      password |-> req[w].password])
    /\ Finish(w)
    /\ UNCHANGED <<password, overlapped>>

(* Faulty variant: a revoked token is not refused.                         *)
LoadRefresh_Unguarded(w, t) ==
    /\ t \in Issued
    /\ ~tokens[t].expired
    /\ Receive(w, [NoRequest EXCEPT !.op = "refresh", !.token = t])

(* refresh: the stored token is neither revoked nor expired ...            *)
LoadRefresh(w, t) ==
    /\ Stored(t)
    /\ ~tokens[t].expired
    /\ Receive(w, [NoRequest EXCEPT !.op = "refresh", !.token = t])

(* Faulty variants: the old token is left usable; the successor is         *)
(* recorded and never stored.                                              *)
CommitRefresh_KeepsOld(w, t) ==
    LET old == req[w].token
    IN  /\ req[w].op = "refresh"
        /\ t \in Tokens \ Issued
        /\ tokens' = Insert([tokens EXCEPT ![old] =
                                [tokens[old] EXCEPT !.replacedBy = t]],
                            t, FreshToken)
        /\ lineage' = Insert(lineage, t, [lineage[old] EXCEPT !.from = old])
        /\ Finish(w)
        /\ UNCHANGED <<password, overlapped>>

CommitRefresh_NotStored(w, t) ==
    LET old == req[w].token
    IN  /\ req[w].op = "refresh"
        /\ t \in Tokens \ Issued
        /\ tokens' = [tokens EXCEPT ![old] =
                         [tokens[old] EXCEPT !.revoked = TRUE, !.replacedBy = t]]
        /\ Finish(w)
        /\ UNCHANGED <<password, lineage, overlapped>>

(* ... and is exchanged for a new one.  A concurrent exchange of the same  *)
(* token overwrites replaced_by_jti.                                       *)
CommitRefresh(w, t) ==
    LET old == req[w].token
    IN  /\ req[w].op = "refresh"
        /\ t \in Tokens \ Issued
        /\ tokens' = Insert([tokens EXCEPT ![old] =
                                [tokens[old] EXCEPT !.revoked = TRUE, !.replacedBy = t]],
                            t, FreshToken)
        /\ lineage' = Insert(lineage, t, [lineage[old] EXCEPT !.from = old])
        /\ Finish(w)
        /\ UNCHANGED <<password, overlapped>>

(* logout: a token that is unknown or already revoked is answered with the *)
(* same success and changes nothing, so only the other case is a step.     *)
LoadLogout(w, t) ==
    /\ Stored(t)
    /\ ~tokens[t].expired
    /\ Receive(w, [NoRequest EXCEPT !.op = "logout", !.token = t])

(* Faulty variant: the whole row is written back as it was loaded.         *)
CommitLogout_WholeRow(w) ==
    /\ req[w].op = "logout"
    /\ tokens' = [tokens EXCEPT ![req[w].token] =
                     [tokens[req[w].token] EXCEPT !.revoked = TRUE,
                                            !.replacedBy = NoToken]]
    /\ Finish(w)
    /\ UNCHANGED <<password, lineage, overlapped>>

CommitLogout(w) ==
    /\ req[w].op = "logout"
    /\ tokens' = [tokens EXCEPT ![req[w].token] =
                     [tokens[req[w].token] EXCEPT !.revoked = TRUE]]
    /\ Finish(w)
    /\ UNCHANGED <<password, lineage, overlapped>>

(* change_password: get_current_user has loaded the account; the current   *)
(* password is verified against that row ...                               *)
LoadChangePassword(w) ==
    /\ password < MaxPassword
    /\ Receive(w, [NoRequest EXCEPT !.op = "change_password", !.password = password])

(* Faulty variant: tokens that were exchanged once are passed over.        *)
SelectSessions_Roots(w) ==
    /\ req[w].op = "change_password"
    /\ req' = [req EXCEPT ![w] = [req[w] EXCEPT
                  !.op = "revoke_all",
                  !.found = {t \in Issued : Stored(t) /\ lineage[t].root = t}]]
    /\ UNCHANGED <<password, tokens, lineage, overlapped>>

(* ... the tokens to revoke are SELECTed after the new hash is computed    *)
SelectSessions(w) ==
    /\ req[w].op = "change_password"
    /\ req' = [req EXCEPT ![w] = [req[w] EXCEPT
                  !.op = "revoke_all",
                  !.found = {t \in Issued : Stored(t)}]]
    /\ UNCHANGED <<password, tokens, lineage, overlapped>>

(* ... and one flush writes the hash and the revocations.                  *)
CommitChangePassword(w) ==
    /\ req[w].op = "revoke_all"
    /\ password < MaxPassword
    /\ password' = password + 1
    /\ tokens' = [t \in Issued |-> IF t \in req[w].found
                                   THEN [tokens[t] EXCEPT !.revoked = TRUE]
                                   ELSE tokens[t]]
    /\ Finish(w)
    /\ UNCHANGED <<lineage, overlapped>>

(* The clock passes expires_at.                                            *)
Expire(t) ==
    /\ t \in Issued
    /\ ~tokens[t].expired
    /\ tokens' = [tokens EXCEPT ![t] = [tokens[t] EXCEPT !.expired = TRUE]]
    /\ UNCHANGED <<password, lineage, req, overlapped>>

(* get_db_session rolls back, or the process stops before the commit.      *)
Rollback(w) ==
    /\ ~Idle(w)
    /\ Finish(w)
    /\ UNCHANGED <<password, tokens, lineage, overlapped>>

Next ==
    \/ \E w \in Workers :
          \/ LoadLogin(w)
          \/ LoadChangePassword(w) \/ SelectSessions(w) \/ CommitChangePassword(w)
          \/ CommitLogout(w)
          \/ Rollback(w)
          \/ \E t \in Tokens :
                \/ CommitLogin(w, t)
                \/ LoadRefresh(w, t) \/ CommitRefresh(w, t)
                \/ LoadLogout(w, t)
    \/ \E t \in Tokens : Expire(t)

Spec == Init /\ [][Next]_vars

-----------------------------------------------------------------------------
(* Type invariant, with the references between rows: replaced_by_jti and   *)
(* the tokens that requests hold name rows that exist.                     *)
TypeOK ==
    /\ password \in Nat
    /\ Issued \subseteq Tokens
    /\ tokens \in [Issued -> Token]
    /\ lineage \in [Issued -> Lineage]
    /\ \A t \in Issued : tokens[t].replacedBy \in Issued \cup {NoToken}
    /\ req \in [Workers -> Request]
    /\ overlapped \in BOOLEAN
    /\ \A w \in Workers :
          /\ req[w].op \in {"refresh", "logout"} => req[w].token \in Issued
          /\ req[w].found \subseteq Issued

(* refresh: a token that was exchanged is revoked and names one of the     *)
(* tokens it was exchanged for, however exchanges, logouts and changes of  *)
(* password overlap.                                                       *)
ExchangedTokensAreSpent ==
    \A t \in Issued :
        LET old == lineage[t].from
        IN  old # NoToken =>
               /\ old \in Issued
               /\ tokens[old].revoked
               /\ tokens[old].replacedBy \in Issued
               /\ lineage[tokens[old].replacedBy].from = old

(* refresh, "test_refresh_rotates_and_revokes_old_token": unless requests   *)
(* have overlapped, a token was exchanged once.                            *)
TokensAreSingleUse ==
    ~overlapped =>
        \A s, t \in Issued :
            lineage[s].from = lineage[t].from /\ lineage[s].from # NoToken => s = t

(* change_password, "Revoke all refresh sessions after password change":   *)
(* the tokens that are not revoked go back to logins that verified the     *)
(* password the account has now.                                           *)
LiveTokensHaveCurrentPassword ==
    \A t \in Issued : Stored(t) => lineage[t].password = password

(* ... which holds of requests that do not overlap.                        *)
SerialTokensHaveCurrentPassword ==
    ~overlapped => LiveTokensHaveCurrentPassword

(* logout and change_password: when no token of a login is left, because   *)
(* they revoked the last one, the login never gets a token again, unless   *)
(* requests have overlapped.                                               *)
Ended(root) == /\ root \in Issued
               /\ \A t \in Issued : lineage[t].root = root => tokens[t].revoked

SessionsEndForGood ==
    [][~overlapped' => \A root \in Tokens : Ended(root) => Ended(root)']_vars
=============================================================================
