------------------------ MODULE AuthSessions_proofs -------------------------
(***************************************************************************)
(* Proofs about AuthSessions, for any number of requests and tokens.       *)
(* Whatever overlaps: the rows that others refer to exist, and a token     *)
(* that was exchanged is revoked and names one of its successors.  While   *)
(* no two requests have overlapped: a token is exchanged once, the tokens  *)
(* that are not revoked go back to the current password, and a session     *)
(* that was ended stays ended.                                             *)
(***************************************************************************)
EXTENDS AuthSessions, TLAPS

-----------------------------------------------------------------------------
(* What a request holds refers to rows that exist.                         *)
RequestOK(r) ==
    /\ r.op \in {"refresh", "logout"} => r.token \in Issued
    /\ r.found \subseteq Issued

TablesOK ==
    /\ password \in Nat
    /\ Issued \subseteq Tokens
    /\ tokens \in [Issued -> Token]
    /\ lineage \in [Issued -> Lineage]
    /\ \A t \in Issued : tokens[t].replacedBy \in Issued \cup {NoToken}

RequestsOK ==
    /\ req \in [Workers -> Request]
    /\ \A w \in Workers : RequestOK(req[w])

IInv ==
    /\ TablesOK
    /\ RequestsOK
    /\ overlapped \in BOOLEAN
    /\ ExchangedTokensAreSpent

(* Rows are added to refresh_tokens and never removed, a token stays with  *)
(* its login, and revoked_at is never cleared.                             *)
Grows ==
    /\ Issued \subseteq Issued'
    /\ \A t \in Issued : /\ lineage'[t] = lineage[t]
                         /\ tokens[t].revoked => tokens'[t].revoked

-----------------------------------------------------------------------------
(* A step that adds no token and exchanges none: it may revoke tokens or   *)
(* let them expire.                                                        *)
OnlyMarks ==
    /\ Issued' = Issued
    /\ lineage' = lineage
    /\ tokens' \in [Issued -> Token]
    /\ \A t \in Issued : /\ tokens[t].revoked => tokens'[t].revoked
                         /\ tokens'[t].replacedBy = tokens[t].replacedBy

LEMMA OnlyMarksTables ==
    ASSUME TablesOK, ExchangedTokensAreSpent, OnlyMarks, password' \in Nat
    PROVE  TablesOK' /\ ExchangedTokensAreSpent' /\ Grows
<1>1. TablesOK'
  BY DEF TablesOK, OnlyMarks, Issued
<1>2. ExchangedTokensAreSpent'
  BY DEF TablesOK, OnlyMarks, ExchangedTokensAreSpent, Issued
<1>3. Grows
  BY DEF TablesOK, OnlyMarks, Grows, Issued
<1> QED
  BY <1>1, <1>2, <1>3

LEMMA UnchangedTables ==
    ASSUME TablesOK, UNCHANGED <<tokens, lineage>>
    PROVE  OnlyMarks
BY DEF TablesOK, OnlyMarks, Issued

(* A login adds one token, which was exchanged for none.                   *)
LEMMA LoginTables ==
    ASSUME TablesOK, RequestsOK, ExchangedTokensAreSpent, NEW w \in Workers,
           NEW t \in Tokens, CommitLogin(w, t)
    PROVE  /\ TablesOK' /\ ExchangedTokensAreSpent' /\ Grows
           /\ Issued' = Issued \cup {t}
           /\ \A x \in Issued : tokens'[x] = tokens[x]
           /\ lineage'[t].from = NoToken
           /\ lineage'[t].root = t
           /\ lineage'[t].password = req[w].password
<1> DEFINE origin == [from |-> NoToken, root |-> t, password |-> req[w].password]
<1>1. FreshToken \in Token /\ FreshToken.replacedBy = NoToken
  BY DEF FreshToken, Token
<1>2. /\ origin \in Lineage /\ origin.from = NoToken /\ origin.root = t
      /\ origin.password = req[w].password
  BY DEF RequestsOK, Request, Lineage
<1> HIDE DEF origin
<1>3. /\ t \in Tokens \ Issued
      /\ tokens' = Insert(tokens, t, FreshToken)
      /\ lineage' = Insert(lineage, t, origin)
      /\ UNCHANGED password
  BY DEF CommitLogin, origin
<1>4. /\ tokens' \in [Issued \cup {t} -> Token]
      /\ DOMAIN tokens' = Issued \cup {t}
      /\ tokens'[t] = FreshToken
      /\ \A x \in Issued : tokens'[x] = tokens[x]
  <2>1. tokens \in [Issued -> Token] /\ t \notin Issued
    BY <1>3 DEF TablesOK
  <2>2. LET new == Insert(tokens, t, FreshToken)
         IN  /\ new \in [Issued \cup {t} -> Token]
             /\ DOMAIN new = Issued \cup {t}
             /\ new[t] = FreshToken
             /\ \A x \in Issued : new[x] = tokens[x]
    BY <2>1, <1>1 DEF Insert
  <2> QED
    BY <2>2, <1>3
<1>5. /\ lineage' \in [Issued \cup {t} -> Lineage]
      /\ lineage'[t] = origin
      /\ \A x \in Issued : lineage'[x] = lineage[x]
  <2>1. lineage \in [Issued -> Lineage] /\ t \notin Issued
    BY <1>3 DEF TablesOK
  <2>2. LET new == Insert(lineage, t, origin)
         IN  /\ new \in [Issued \cup {t} -> Lineage]
             /\ DOMAIN new = Issued \cup {t}
             /\ new[t] = origin
             /\ \A x \in Issued : new[x] = lineage[x]
    BY <2>1, <1>2 DEF Insert
  <2> QED
    BY <2>2, <1>3
<1>6. Issued' = Issued \cup {t}
  BY <1>4 DEF Issued
<1>7. TablesOK'
  BY <1>1, <1>3, <1>4, <1>5, <1>6 DEF TablesOK
<1>8. ExchangedTokensAreSpent'
  BY <1>2, <1>4, <1>5, <1>6 DEF ExchangedTokensAreSpent, TablesOK
<1>9. Grows
  BY <1>4, <1>5, <1>6 DEF Grows
<1> QED
  BY <1>2, <1>4, <1>5, <1>6, <1>7, <1>8, <1>9

(* A refresh adds one token of the same login and revokes the token it is  *)
(* exchanged for.                                                          *)
LEMMA RefreshTables ==
    ASSUME TablesOK, RequestsOK, ExchangedTokensAreSpent, NEW w \in Workers,
           NEW t \in Tokens, CommitRefresh(w, t)
    PROVE  /\ TablesOK' /\ ExchangedTokensAreSpent' /\ Grows
           /\ Issued' = Issued \cup {t}
           /\ \A x \in Issued \ {req[w].token} : tokens'[x] = tokens[x]
           /\ tokens'[req[w].token].revoked
           /\ lineage'[t].from = req[w].token
           /\ lineage'[t].root = lineage[req[w].token].root
           /\ lineage'[t].password = lineage[req[w].token].password
<1> DEFINE old == req[w].token
           spent == [tokens[old] EXCEPT !.revoked = TRUE, !.replacedBy = t]
           origin == [lineage[old] EXCEPT !.from = old]
           marked == [tokens EXCEPT ![old] = spent]
<1>0. old \in Issued /\ old \in Tokens
  BY DEF CommitRefresh, RequestsOK, RequestOK, TablesOK
<1>1. spent \in Token /\ spent.revoked /\ spent.replacedBy = t
  BY <1>0 DEF TablesOK, Token
<1>2. /\ origin \in Lineage /\ origin.from = old
      /\ origin.root = lineage[old].root
      /\ origin.password = lineage[old].password
  BY <1>0 DEF TablesOK, Lineage
<1>3. /\ t \in Tokens \ Issued
      /\ tokens' = Insert(marked, t, FreshToken)
      /\ lineage' = Insert(lineage, t, origin)
      /\ UNCHANGED password
  BY DEF CommitRefresh
<1>4. FreshToken \in Token /\ FreshToken.replacedBy = NoToken
  BY DEF FreshToken, Token
<1> HIDE DEF spent, origin
<1>5. /\ marked \in [Issued -> Token]
      /\ DOMAIN marked = Issued
      /\ marked[old] = spent
      /\ \A x \in Issued \ {old} : marked[x] = tokens[x]
  BY <1>0, <1>1 DEF TablesOK
<1> HIDE DEF marked
<1>6. /\ tokens' \in [Issued \cup {t} -> Token]
      /\ DOMAIN tokens' = Issued \cup {t}
      /\ tokens'[t] = FreshToken
      /\ \A x \in Issued : tokens'[x] = marked[x]
  <2>1. LET new == Insert(marked, t, FreshToken)
         IN  /\ new \in [Issued \cup {t} -> Token]
             /\ DOMAIN new = Issued \cup {t}
             /\ new[t] = FreshToken
             /\ \A x \in Issued : new[x] = marked[x]
    BY <1>3, <1>4, <1>5 DEF Insert
  <2> QED
    BY <2>1, <1>3
<1>7. /\ lineage' \in [Issued \cup {t} -> Lineage]
      /\ lineage'[t] = origin
      /\ \A x \in Issued : lineage'[x] = lineage[x]
  <2>1. lineage \in [Issued -> Lineage]
    BY DEF TablesOK
  <2>2. LET new == Insert(lineage, t, origin)
         IN  /\ new \in [Issued \cup {t} -> Lineage]
             /\ DOMAIN new = Issued \cup {t}
             /\ new[t] = origin
             /\ \A x \in Issued : new[x] = lineage[x]
    BY <2>1, <1>2, <1>3 DEF Insert
  <2> QED
    BY <2>2, <1>3
<1>8. Issued' = Issued \cup {t}
  BY <1>6 DEF Issued
<1> HIDE DEF old
<1>9. TablesOK'
  BY <1>0, <1>1, <1>3, <1>4, <1>5, <1>6, <1>7, <1>8 DEF TablesOK
<1>10. ExchangedTokensAreSpent'
  <2> SUFFICES ASSUME NEW s \in Issued', lineage'[s].from # NoToken
               PROVE  LET p == lineage'[s].from
                      IN  /\ p \in Issued'
                          /\ tokens'[p].revoked
                          /\ tokens'[p].replacedBy \in Issued'
                          /\ lineage'[tokens'[p].replacedBy].from = p
    BY DEF ExchangedTokensAreSpent
  <2>1. CASE lineage'[s].from = old
    BY <2>1, <1>0, <1>1, <1>2, <1>5, <1>6, <1>7, <1>8
  <2>2. CASE lineage'[s].from # old
    <3>1. s \in Issued /\ lineage'[s] = lineage[s]
      BY <2>2, <1>2, <1>6, <1>7, <1>8
    <3>2. PICK p : p = lineage[s].from
      OBVIOUS
    <3>3. /\ p \in Issued /\ tokens[p].revoked
          /\ tokens[p].replacedBy \in Issued
          /\ lineage[tokens[p].replacedBy].from = p
      BY <3>1, <3>2 DEF ExchangedTokensAreSpent
    <3>4. tokens'[p] = tokens[p]
      BY <2>2, <3>1, <3>2, <3>3, <1>5, <1>6
    <3> QED
      BY <3>1, <3>2, <3>3, <3>4, <1>6, <1>7, <1>8
  <2> QED
    BY <2>1, <2>2
<1>11. Grows
  BY <1>0, <1>1, <1>5, <1>6, <1>7, <1>8 DEF Grows
<1> QED
  BY <1>0, <1>1, <1>2, <1>5, <1>6, <1>7, <1>8, <1>9, <1>10, <1>11 DEF old

-----------------------------------------------------------------------------
(* The requests.                                                           *)
LEMMA NoRequestType ==
    /\ NoRequest \in Request
    /\ NoRequest.op = "idle" /\ NoRequest.found = {}
BY DEF NoRequest, Request, Op

LEMMA FinishStep ==
    ASSUME RequestsOK, Issued \subseteq Issued', NEW w \in Workers, Finish(w)
    PROVE  RequestsOK'
<1>1. req' \in [Workers -> Request] /\ req'[w] = NoRequest
  BY NoRequestType DEF RequestsOK, Finish
<1>2. \A v \in Workers \ {w} : req'[v] = req[v]
  BY DEF RequestsOK, Finish
<1> QED
  BY <1>1, <1>2, NoRequestType DEF RequestsOK, RequestOK

LEMMA KeptRequests ==
    ASSUME RequestsOK, Issued \subseteq Issued', UNCHANGED req
    PROVE  RequestsOK'
BY DEF RequestsOK, RequestOK

LEMMA ReceiveStep ==
    ASSUME IInv, NEW w \in Workers, NEW r \in Request, RequestOK(r), Receive(w, r)
    PROVE  IInv'
<1>1. OnlyMarks /\ password' \in Nat
  BY UnchangedTables DEF IInv, Receive, TablesOK
<1>2. TablesOK' /\ ExchangedTokensAreSpent'
  BY <1>1, OnlyMarksTables DEF IInv
<1>3. RequestsOK'
  <2>1. Issued' = Issued
    BY <1>1 DEF OnlyMarks
  <2>2. req' = [req EXCEPT ![w] = r]
    BY DEF Receive
  <2> QED
    BY <2>1, <2>2 DEF IInv, RequestsOK, RequestOK
<1>4. overlapped' \in BOOLEAN
  BY DEF Receive, IInv
<1> QED
  BY <1>2, <1>3, <1>4 DEF IInv

(* The requests as they are received.                                      *)
LEMMA ReceivedType ==
    ASSUME IInv
    PROVE  /\ \A op \in {"login", "change_password"} :
                 LET r == [NoRequest EXCEPT !.op = op, !.password = password]
                 IN  r \in Request /\ RequestOK(r)
                     /\ r.op = op /\ r.password = password
           /\ \A op \in {"refresh", "logout"}, t \in Issued :
                 LET r == [NoRequest EXCEPT !.op = op, !.token = t]
                 IN  r \in Request /\ RequestOK(r) /\ r.op = op /\ r.token = t
<1>1. password \in Nat /\ Issued \subseteq Tokens
  BY DEF IInv, TablesOK
<1>2. {"login", "change_password", "refresh", "logout"} \subseteq Op
  BY DEF Op
<1>3. ASSUME NEW op \in {"login", "change_password"}
      PROVE  LET r == [NoRequest EXCEPT !.op = op, !.password = password]
             IN  r \in Request /\ RequestOK(r)
                 /\ r.op = op /\ r.password = password
  <2> DEFINE r == [NoRequest EXCEPT !.op = op, !.password = password]
  <2>1. op \in Op /\ op \notin {"refresh", "logout"}
    BY <1>2
  <2>2. r \in Request /\ r.op = op /\ r.password = password /\ r.found = {}
    BY <2>1, <1>1, NoTokenAssumption DEF NoRequest, Request
  <2> HIDE DEF r
  <2>3. RequestOK(r)
    BY <2>1, <2>2 DEF RequestOK
  <2> QED
    BY <2>2, <2>3 DEF r
<1>4. ASSUME NEW op \in {"refresh", "logout"}, NEW t \in Issued
      PROVE  LET r == [NoRequest EXCEPT !.op = op, !.token = t]
             IN  r \in Request /\ RequestOK(r) /\ r.op = op /\ r.token = t
  <2> DEFINE r == [NoRequest EXCEPT !.op = op, !.token = t]
  <2>1. op \in Op /\ t \in Tokens
    BY <1>1, <1>2
  <2>2. r \in Request /\ r.op = op /\ r.token = t /\ r.found = {}
    BY <2>1, NoTokenAssumption DEF NoRequest, Request
  <2> HIDE DEF r
  <2>3. RequestOK(r)
    BY <2>2 DEF RequestOK
  <2> QED
    BY <2>2, <2>3 DEF r
<1> QED
  BY <1>3, <1>4

LEMMA LoadStep ==
    ASSUME IInv, NEW w \in Workers,
           \/ LoadLogin(w) \/ LoadChangePassword(w)
           \/ \E t \in Tokens : LoadRefresh(w, t) \/ LoadLogout(w, t)
    PROVE  IInv' /\ OnlyMarks /\ Grows
<1>1. OnlyMarks /\ password' \in Nat
  BY UnchangedTables
     DEF IInv, TablesOK, Receive, LoadLogin, LoadChangePassword, LoadRefresh, LoadLogout
<1>2. Grows
  BY <1>1, OnlyMarksTables DEF IInv
<1>3. \E r \in Request : RequestOK(r) /\ Receive(w, r)
  <2>1. CASE LoadLogin(w)
    BY <2>1, ReceivedType DEF LoadLogin
  <2>2. CASE LoadChangePassword(w)
    BY <2>2, ReceivedType DEF LoadChangePassword
  <2>3. CASE \E t \in Tokens : LoadRefresh(w, t)
    BY <2>3, ReceivedType DEF LoadRefresh, Stored
  <2>4. CASE \E t \in Tokens : LoadLogout(w, t)
    BY <2>4, ReceivedType DEF LoadLogout, Stored
  <2> QED
    BY <2>1, <2>2, <2>3, <2>4
<1> QED
  BY <1>1, <1>2, <1>3, ReceiveStep

LEMMA SelectSessionsStep ==
    ASSUME IInv, NEW w \in Workers, SelectSessions(w)
    PROVE  /\ IInv' /\ OnlyMarks /\ Grows
           /\ req'[w].op = "revoke_all"
           /\ req'[w].found = {t \in Issued : Stored(t)}
           /\ \A v \in Workers \ {w} : req'[v] = req[v]
<1> DEFINE live == {t \in Issued : Stored(t)}
           r == [req[w] EXCEPT !.op = "revoke_all", !.found = live]
<1>0. live \subseteq Issued /\ live \subseteq Tokens
  BY DEF IInv, TablesOK
<1>1. r \in Request /\ r.op = "revoke_all" /\ r.found = live
  <2> HIDE DEF live
  <2>1. \A q \in Request :
          LET p == [q EXCEPT !.op = "revoke_all", !.found = live]
          IN  p \in Request /\ p.op = "revoke_all" /\ p.found = live
    BY <1>0 DEF Request, Op
  <2> QED
    BY <2>1 DEF IInv, RequestsOK
<1>2. /\ req' = [req EXCEPT ![w] = r]
      /\ UNCHANGED <<password, tokens, lineage, overlapped>>
  BY DEF SelectSessions
<1> HIDE DEF r
<1>3. OnlyMarks
  BY <1>2, UnchangedTables DEF IInv
<1>4. TablesOK' /\ ExchangedTokensAreSpent' /\ Grows
  BY <1>2, <1>3, OnlyMarksTables DEF IInv, TablesOK
<1>5. /\ req' \in [Workers -> Request] /\ req'[w] = r
      /\ \A v \in Workers \ {w} : req'[v] = req[v]
  BY <1>1, <1>2 DEF IInv, RequestsOK
<1>6. RequestsOK'
  <2>1. Issued' = Issued
    BY <1>3 DEF OnlyMarks
  <2> QED
    BY <2>1, <1>0, <1>1, <1>5 DEF IInv, RequestsOK, RequestOK
<1> QED
  BY <1>1, <1>2, <1>3, <1>4, <1>5, <1>6 DEF IInv

LEMMA CommitLogoutStep ==
    ASSUME IInv, NEW w \in Workers, CommitLogout(w)
    PROVE  IInv' /\ OnlyMarks /\ Grows
<1> DEFINE t == req[w].token
           row == [tokens[t] EXCEPT !.revoked = TRUE]
<1>0. t \in Issued
  BY DEF CommitLogout, IInv, RequestsOK, RequestOK
<1>1. row \in Token /\ row.revoked /\ row.replacedBy = tokens[t].replacedBy
  BY <1>0 DEF IInv, TablesOK, Token
<1>2. tokens' = [tokens EXCEPT ![t] = row] /\ Finish(w)
      /\ UNCHANGED <<password, lineage, overlapped>>
  BY DEF CommitLogout
<1> HIDE DEF t, row
<1>3. OnlyMarks
  BY <1>0, <1>1, <1>2 DEF OnlyMarks, IInv, TablesOK, Issued
<1>4. TablesOK' /\ ExchangedTokensAreSpent' /\ Grows
  BY <1>2, <1>3, OnlyMarksTables DEF IInv, TablesOK
<1>5. RequestsOK'
  BY <1>2, <1>3, FinishStep DEF IInv, OnlyMarks
<1> QED
  BY <1>2, <1>3, <1>4, <1>5 DEF IInv

LEMMA CommitChangePasswordStep ==
    ASSUME IInv, NEW w \in Workers, CommitChangePassword(w)
    PROVE  /\ IInv' /\ OnlyMarks /\ Grows
           /\ \A t \in req[w].found : tokens'[t].revoked
           /\ \A t \in Issued \ req[w].found : tokens'[t] = tokens[t]
<1> DEFINE row(t) == [tokens[t] EXCEPT !.revoked = TRUE]
<1>1. ASSUME NEW t \in Issued
      PROVE  /\ row(t) \in Token /\ row(t).revoked
             /\ row(t).replacedBy = tokens[t].replacedBy
  BY DEF IInv, TablesOK, Token
<1>2. /\ tokens' = [t \in Issued |-> IF t \in req[w].found
                                     THEN row(t) ELSE tokens[t]]
      /\ Finish(w)
      /\ password' = password + 1
      /\ UNCHANGED <<lineage, overlapped>>
  BY DEF CommitChangePassword
<1>3. req[w].found \subseteq Issued /\ tokens \in [Issued -> Token]
  BY DEF IInv, TablesOK, RequestsOK, RequestOK
<1> HIDE DEF row
<1>4. OnlyMarks
  BY <1>1, <1>2, <1>3 DEF OnlyMarks, Issued
<1>5. TablesOK' /\ ExchangedTokensAreSpent' /\ Grows
  <2>1. password' \in Nat
    BY <1>2 DEF IInv, TablesOK
  <2> QED
    BY <2>1, <1>4, OnlyMarksTables DEF IInv
<1>6. RequestsOK'
  BY <1>2, <1>4, FinishStep DEF IInv, OnlyMarks
<1> QED
  BY <1>1, <1>2, <1>3, <1>4, <1>5, <1>6 DEF IInv

LEMMA ExpireStep ==
    ASSUME IInv, NEW t \in Tokens, Expire(t)
    PROVE  /\ IInv' /\ OnlyMarks /\ Grows
           /\ \A x \in Issued : tokens'[x].revoked = tokens[x].revoked
<1> DEFINE row == [tokens[t] EXCEPT !.expired = TRUE]
<1>0. /\ t \in Issued
      /\ tokens' = [tokens EXCEPT ![t] = row]
      /\ UNCHANGED <<password, lineage, req, overlapped>>
  BY DEF Expire
<1>1. /\ row \in Token /\ row.revoked = tokens[t].revoked
      /\ row.replacedBy = tokens[t].replacedBy
  BY <1>0 DEF IInv, TablesOK, Token
<1> HIDE DEF row
<1>2. OnlyMarks /\ \A x \in Issued : tokens'[x].revoked = tokens[x].revoked
  BY <1>0, <1>1 DEF OnlyMarks, IInv, TablesOK, Issued
<1>3. TablesOK' /\ ExchangedTokensAreSpent' /\ Grows
  BY <1>0, <1>2, OnlyMarksTables DEF IInv, TablesOK
<1>4. RequestsOK'
  BY <1>0, <1>2, KeptRequests DEF IInv, OnlyMarks
<1> QED
  BY <1>0, <1>2, <1>3, <1>4 DEF IInv

LEMMA RollbackStep ==
    ASSUME IInv, NEW w \in Workers, Rollback(w)
    PROVE  IInv' /\ OnlyMarks /\ Grows
<1>1. OnlyMarks
  BY UnchangedTables DEF IInv, Rollback
<1>2. TablesOK' /\ ExchangedTokensAreSpent' /\ Grows
  BY <1>1, OnlyMarksTables DEF IInv, TablesOK, Rollback
<1>3. RequestsOK'
  BY <1>1, FinishStep DEF IInv, OnlyMarks, Rollback
<1> QED
  BY <1>2, <1>1, <1>3 DEF IInv, Rollback

LEMMA StutterStep ==
    ASSUME IInv, UNCHANGED vars
    PROVE  IInv' /\ OnlyMarks /\ Grows
<1>1. OnlyMarks
  BY UnchangedTables DEF IInv, vars
<1>2. TablesOK' /\ ExchangedTokensAreSpent' /\ Grows
  BY <1>1, OnlyMarksTables DEF IInv, TablesOK, vars
<1>3. RequestsOK'
  BY <1>1, KeptRequests DEF IInv, OnlyMarks, vars
<1> QED
  BY <1>1, <1>2, <1>3 DEF IInv, vars

LEMMA CommitLoginStep ==
    ASSUME IInv, NEW w \in Workers, NEW t \in Tokens, CommitLogin(w, t)
    PROVE  IInv' /\ Grows
<1>1. TablesOK' /\ ExchangedTokensAreSpent' /\ Grows
  BY LoginTables DEF IInv
<1>2. RequestsOK'
  BY <1>1, FinishStep DEF IInv, Grows, CommitLogin
<1> QED
  BY <1>1, <1>2 DEF IInv, CommitLogin

LEMMA CommitRefreshStep ==
    ASSUME IInv, NEW w \in Workers, NEW t \in Tokens, CommitRefresh(w, t)
    PROVE  IInv' /\ Grows
<1>1. TablesOK' /\ ExchangedTokensAreSpent' /\ Grows
  BY RefreshTables DEF IInv
<1>2. RequestsOK'
  BY <1>1, FinishStep DEF IInv, Grows, CommitRefresh
<1> QED
  BY <1>1, <1>2 DEF IInv, CommitRefresh

-----------------------------------------------------------------------------
LEMMA InitIInv == Init => IInv
<1> SUFFICES ASSUME Init PROVE IInv
  OBVIOUS
<1>1. Issued = {} /\ tokens \in [Issued -> Token] /\ lineage \in [Issued -> Lineage]
  BY DEF Init, Issued
<1>2. RequestsOK
  BY NoRequestType DEF Init, RequestsOK, RequestOK
<1> QED
  BY <1>1, <1>2 DEF Init, IInv, TablesOK, ExchangedTokensAreSpent

LEMMA NextIInv == IInv /\ [Next]_vars => IInv'
BY LoadStep, SelectSessionsStep, CommitLogoutStep, CommitChangePasswordStep,
   ExpireStep, RollbackStep, StutterStep, CommitLoginStep, CommitRefreshStep DEF Next

LEMMA Invariance == Spec => []IInv
BY InitIInv, NextIInv, PTL DEF Spec

(* Whatever the requests in flight: the rows that others refer to exist.   *)
THEOREM TypeCorrect == Spec => []TypeOK
<1>1. IInv => TypeOK
  BY DEF IInv, TablesOK, RequestsOK, RequestOK, TypeOK
<1> QED
  BY <1>1, Invariance, PTL

(* refresh: whatever exchanges, logouts and changes of password overlap, a *)
(* token that was exchanged is revoked and names one of its successors.    *)
THEOREM ExchangedSpent == Spec => []ExchangedTokensAreSpent
<1>1. IInv => ExchangedTokensAreSpent
  BY DEF IInv
<1> QED
  BY <1>1, Invariance, PTL

-----------------------------------------------------------------------------
(* While no two requests have overlapped.                                  *)
AtMostOneInFlight == \A v, w \in Workers : ~Idle(v) /\ ~Idle(w) => v = w

(* What the request in flight has loaded is still what is stored.          *)
RequestFresh(r) ==
    /\ r.op = "login" => r.password = password
    /\ r.op \in {"refresh", "logout"} => Stored(r.token)
    /\ r.op = "revoke_all" => \A t \in Issued : Stored(t) => t \in r.found

ExchangedOnce ==
    \A s, t \in Issued :
        lineage[s].from = lineage[t].from /\ lineage[s].from # NoToken => s = t

SerialOK ==
    /\ AtMostOneInFlight
    /\ \A w \in Workers : RequestFresh(req[w])
    /\ LiveTokensHaveCurrentPassword
    /\ ExchangedOnce

SerialInv == IInv /\ (~overlapped => SerialOK)

(* When the only request ends there is none in flight.                     *)
LEMMA NoneInFlight ==
    ASSUME IInv, AtMostOneInFlight, NEW w \in Workers, ~Idle(w), Finish(w)
    PROVE  AtMostOneInFlight' /\ \A v \in Workers : RequestFresh(req[v])'
<1>1. req' = [req EXCEPT ![w] = NoRequest] /\ req \in [Workers -> Request]
  BY DEF Finish, IInv, RequestsOK
<1>2. \A v \in Workers : req'[v].op = "idle"
  BY <1>1, NoRequestType DEF AtMostOneInFlight, Idle
<1> QED
  BY <1>2 DEF AtMostOneInFlight, RequestFresh, Idle

(* Revoking tokens, or letting them expire, leaves what is said of the     *)
(* others.                                                                 *)
LEMMA MarksKeepTables ==
    ASSUME OnlyMarks, UNCHANGED password, LiveTokensHaveCurrentPassword, ExchangedOnce
    PROVE  LiveTokensHaveCurrentPassword' /\ ExchangedOnce'
BY DEF OnlyMarks, LiveTokensHaveCurrentPassword, ExchangedOnce, Stored, Issued

LEMMA MarksKeepRequests ==
    ASSUME OnlyMarks, UNCHANGED password, NEW r, RequestFresh(r),
           \A t \in Issued : tokens'[t].revoked = tokens[t].revoked
    PROVE  /\ r.op = "login" => r.password = password'
           /\ r.op \in {"refresh", "logout"} => Stored(r.token)'
           /\ r.op = "revoke_all" => \A t \in Issued' : Stored(t)' => t \in r.found
<1>1. Issued' = Issued
  BY DEF OnlyMarks
<1>2. \A t : Stored(t) <=> t \in Issued /\ ~tokens[t].revoked
  BY DEF Stored
<1>3. Stored(r.token)' <=> r.token \in Issued' /\ ~tokens'[r.token].revoked
  BY DEF Stored
<1>4. ASSUME NEW t \in Issued', Stored(t)' PROVE Stored(t)
  BY <1>1, <1>4 DEF Stored
<1> QED
  BY <1>1, <1>2, <1>3, <1>4 DEF RequestFresh

LEMMA SerialLoad ==
    ASSUME SerialInv, ~overlapped', NEW w \in Workers,
           \/ LoadLogin(w) \/ LoadChangePassword(w)
           \/ \E t \in Tokens : LoadRefresh(w, t) \/ LoadLogout(w, t)
    PROVE  SerialOK'
<1>1. \E r \in Request : /\ Receive(w, r)
                         /\ RequestFresh(r)
  <2>1. CASE LoadLogin(w)
    <3> DEFINE r == [NoRequest EXCEPT !.op = "login", !.password = password]
    <3>1. r \in Request /\ r.op = "login" /\ r.password = password
      BY ReceivedType DEF SerialInv
    <3> HIDE DEF r
    <3>2. RequestFresh(r)
      BY <3>1 DEF RequestFresh
    <3> QED
      BY <2>1, <3>1, <3>2 DEF LoadLogin, r
  <2>2. CASE LoadChangePassword(w)
    <3> DEFINE r == [NoRequest EXCEPT !.op = "change_password", !.password = password]
    <3>1. r \in Request /\ r.op = "change_password"
      BY ReceivedType DEF SerialInv
    <3> HIDE DEF r
    <3>2. RequestFresh(r)
      BY <3>1 DEF RequestFresh
    <3> QED
      BY <2>2, <3>1, <3>2 DEF LoadChangePassword, r
  <2>3. ASSUME NEW t \in Tokens, NEW op \in {"refresh", "logout"}, Stored(t),
               Receive(w, [NoRequest EXCEPT !.op = op, !.token = t])
        PROVE  \E r \in Request : Receive(w, r) /\ RequestFresh(r)
    <3> DEFINE r == [NoRequest EXCEPT !.op = op, !.token = t]
    <3>1. r \in Request /\ r.op = op /\ r.token = t
      BY <2>3 DEF Stored, SerialInv, IInv, TablesOK, NoRequest, Request, Op
    <3>2. Receive(w, r)
      BY <2>3
    <3> HIDE DEF r
    <3>3. RequestFresh(r)
      BY <2>3, <3>1 DEF RequestFresh
    <3> QED
      BY <3>1, <3>2, <3>3
  <2> QED
    BY <2>1, <2>2, <2>3 DEF LoadRefresh, LoadLogout
<1>2. PICK r \in Request : Receive(w, r) /\ RequestFresh(r)
  BY <1>1
<1>3. /\ ~overlapped /\ \A v \in Workers : Idle(v)
      /\ req' = [req EXCEPT ![w] = r]
      /\ UNCHANGED <<password, tokens, lineage>>
  BY <1>2 DEF Receive
<1>4. req'[w] = r /\ \A v \in Workers \ {w} : req'[v] = req[v]
  BY <1>3 DEF SerialInv, IInv, RequestsOK
<1>5. AtMostOneInFlight'
  BY <1>3, <1>4 DEF AtMostOneInFlight, Idle
<1>6. \A v \in Workers : RequestFresh(req[v])'
  BY <1>2, <1>3, <1>4 DEF SerialInv, SerialOK, RequestFresh, Stored, Issued
<1>7. LiveTokensHaveCurrentPassword' /\ ExchangedOnce'
  BY <1>3 DEF SerialInv, SerialOK, LiveTokensHaveCurrentPassword, ExchangedOnce,
              Stored, Issued
<1> QED
  BY <1>5, <1>6, <1>7 DEF SerialOK

LEMMA SerialSelect ==
    ASSUME IInv, SerialOK, NEW w \in Workers, SelectSessions(w)
    PROVE  SerialOK'
<1>1. /\ req'[w].op = "revoke_all"
      /\ req'[w].found = {t \in Issued : Stored(t)}
      /\ \A v \in Workers \ {w} : req'[v] = req[v]
      /\ UNCHANGED <<password, tokens, lineage>>
  BY SelectSessionsStep DEF SelectSessions
<1>2. ~Idle(w)
  BY DEF SelectSessions, Idle
<1>3. AtMostOneInFlight'
  BY <1>1, <1>2 DEF SerialOK, AtMostOneInFlight, Idle
<1>4. \A v \in Workers : RequestFresh(req[v])'
  BY <1>1 DEF SerialOK, RequestFresh, Stored, Issued
<1>5. LiveTokensHaveCurrentPassword' /\ ExchangedOnce'
  BY <1>1 DEF SerialOK, LiveTokensHaveCurrentPassword, ExchangedOnce, Stored, Issued
<1> QED
  BY <1>3, <1>4, <1>5 DEF SerialOK

LEMMA SerialEnd ==
    ASSUME IInv, SerialOK, NEW w \in Workers, CommitLogout(w) \/ Rollback(w)
    PROVE  SerialOK'
<1>1. OnlyMarks /\ ~Idle(w) /\ Finish(w) /\ UNCHANGED password
  BY CommitLogoutStep, RollbackStep DEF CommitLogout, Rollback, Idle
<1> QED
  BY <1>1, NoneInFlight, MarksKeepTables DEF SerialOK

LEMMA SerialChangePassword ==
    ASSUME IInv, SerialOK, NEW w \in Workers, CommitChangePassword(w)
    PROVE  SerialOK'
<1>1. OnlyMarks /\ ~Idle(w) /\ Finish(w)
  BY CommitChangePasswordStep DEF CommitChangePassword, Idle
<1>2. \A t \in Issued : tokens'[t].revoked
  <2>1. \A t \in Issued : Stored(t) => t \in req[w].found
    BY DEF SerialOK, RequestFresh, CommitChangePassword
  <2> QED
    BY <2>1, CommitChangePasswordStep DEF Stored
<1>3. LiveTokensHaveCurrentPassword'
  BY <1>1, <1>2 DEF LiveTokensHaveCurrentPassword, Stored, OnlyMarks
<1>4. ExchangedOnce'
  BY <1>1 DEF SerialOK, ExchangedOnce, OnlyMarks
<1> QED
  BY <1>1, <1>3, <1>4, NoneInFlight DEF SerialOK

LEMMA SerialKept ==
    ASSUME IInv, SerialOK, UNCHANGED vars \/ \E t \in Tokens : Expire(t)
    PROVE  SerialOK'
<1>1. /\ OnlyMarks /\ UNCHANGED <<password, req>>
      /\ \A x \in Issued : tokens'[x].revoked = tokens[x].revoked
  BY StutterStep, ExpireStep DEF Expire, vars
<1>2. \A v \in Workers : RequestFresh(req[v])'
  BY <1>1, MarksKeepRequests DEF SerialOK, RequestFresh
<1> QED
  BY <1>1, <1>2, MarksKeepTables DEF SerialOK, AtMostOneInFlight, Idle

LEMMA SerialLogin ==
    ASSUME IInv, SerialOK, NEW w \in Workers, NEW t \in Tokens, CommitLogin(w, t)
    PROVE  SerialOK'
<1>1. /\ Issued' = Issued \cup {t}
      /\ \A x \in Issued : tokens'[x] = tokens[x] /\ lineage'[x] = lineage[x]
      /\ lineage'[t].from = NoToken
      /\ lineage'[t].password = req[w].password
  BY LoginTables DEF IInv, Grows
<1>2. ~Idle(w) /\ Finish(w) /\ UNCHANGED password /\ req[w].password = password
  BY DEF CommitLogin, Idle, SerialOK, RequestFresh
<1>3. LiveTokensHaveCurrentPassword'
  BY <1>1, <1>2 DEF SerialOK, LiveTokensHaveCurrentPassword, Stored
<1>4. ExchangedOnce'
  BY <1>1 DEF SerialOK, ExchangedOnce
<1> QED
  BY <1>2, <1>3, <1>4, NoneInFlight DEF SerialOK

(* The token exchanged is not revoked, so no token was exchanged for it.   *)
LEMMA SerialRefresh ==
    ASSUME IInv, SerialOK, NEW w \in Workers, NEW t \in Tokens, CommitRefresh(w, t)
    PROVE  SerialOK'
<1> DEFINE old == req[w].token
<1>1. /\ Issued' = Issued \cup {t} /\ t \notin Issued
      /\ \A x \in Issued \ {old} : tokens'[x] = tokens[x]
      /\ \A x \in Issued : lineage'[x] = lineage[x]
      /\ tokens'[old].revoked
      /\ lineage'[t].from = old
      /\ lineage'[t].password = lineage[old].password
  BY RefreshTables DEF IInv, Grows, CommitRefresh
<1>2. ~Idle(w) /\ Finish(w) /\ UNCHANGED password /\ Stored(old)
  BY DEF CommitRefresh, Idle, SerialOK, RequestFresh
<1> HIDE DEF old
<1>3. lineage[old].password = password
  BY <1>2 DEF SerialOK, LiveTokensHaveCurrentPassword, Stored
<1>4. LiveTokensHaveCurrentPassword'
  BY <1>1, <1>2, <1>3 DEF SerialOK, LiveTokensHaveCurrentPassword, Stored
<1>5. \A x \in Issued : lineage[x].from # old
  <2>1. old # NoToken /\ ~tokens[old].revoked
    BY <1>2, NoTokenAssumption DEF Stored, IInv, TablesOK
  <2> QED
    BY <2>1 DEF IInv, ExchangedTokensAreSpent
<1>6. ExchangedOnce'
  BY <1>1, <1>5 DEF SerialOK, ExchangedOnce
<1> QED
  BY <1>2, <1>4, <1>6, NoneInFlight DEF SerialOK

LEMMA OverlappedStays == [Next]_vars => (overlapped => overlapped')
BY DEF Next, vars, LoadLogin, LoadChangePassword, LoadRefresh, LoadLogout, Receive,
       SelectSessions, CommitLogin, CommitRefresh, CommitLogout,
       CommitChangePassword, Expire, Rollback

LEMMA InitSerialInv == Init => SerialInv
<1> SUFFICES ASSUME Init PROVE SerialInv
  OBVIOUS
<1>1. \A w \in Workers : req[w].op = "idle"
  BY NoRequestType DEF Init
<1>2. Issued = {}
  BY DEF Init, Issued
<1>3. SerialOK
  BY <1>1, <1>2 DEF SerialOK, AtMostOneInFlight, Idle, RequestFresh,
                    LiveTokensHaveCurrentPassword, ExchangedOnce
<1> QED
  BY <1>3, InitIInv DEF SerialInv

LEMMA NextSerialInv == SerialInv /\ [Next]_vars => SerialInv'
<1> SUFFICES ASSUME SerialInv, [Next]_vars PROVE SerialInv'
  OBVIOUS
<1>1. IInv'
  BY NextIInv DEF SerialInv
<1>2. ASSUME ~overlapped' PROVE SerialOK'
  <2>1. IInv /\ SerialOK
    BY <1>2, OverlappedStays DEF SerialInv
  <2> QED
    BY <1>2, <2>1, SerialLoad, SerialSelect, SerialEnd, SerialChangePassword,
       SerialKept, SerialLogin, SerialRefresh DEF Next
<1> QED
  BY <1>1, <1>2 DEF SerialInv

LEMMA SerialInvariance == Spec => []SerialInv
BY InitSerialInv, NextSerialInv, PTL DEF Spec

(* refresh: while no two requests have overlapped, a token is exchanged    *)
(* once.                                                                   *)
THEOREM SingleUse == Spec => []TokensAreSingleUse
<1>1. SerialInv => TokensAreSingleUse
  BY DEF SerialInv, SerialOK, ExchangedOnce, TokensAreSingleUse
<1> QED
  BY <1>1, SerialInvariance, PTL

(* change_password: while no two requests have overlapped, the tokens that *)
(* are not revoked go back to logins with the password the account has.    *)
THEOREM CurrentPassword == Spec => []SerialTokensHaveCurrentPassword
<1>1. SerialInv => SerialTokensHaveCurrentPassword
  BY DEF SerialInv, SerialOK, SerialTokensHaveCurrentPassword
<1> QED
  BY <1>1, SerialInvariance, PTL

-----------------------------------------------------------------------------
(* A login all of whose tokens are revoked gets no other: only a token     *)
(* that is not revoked is exchanged.                                       *)
LEMMA EndedStays ==
    ASSUME SerialInv, [Next]_vars, ~overlapped', NEW root \in Tokens, Ended(root)
    PROVE  Ended(root)'
<1>0. IInv /\ SerialOK
  BY OverlappedStays DEF SerialInv
<1>1. CASE OnlyMarks
  BY <1>1 DEF Ended, OnlyMarks
<1>2. ASSUME NEW w \in Workers, NEW t \in Tokens, CommitLogin(w, t)
      PROVE  Ended(root)'
  <2>1. /\ Issued' = Issued \cup {t} /\ t \notin Issued
        /\ \A x \in Issued : tokens'[x] = tokens[x] /\ lineage'[x] = lineage[x]
        /\ lineage'[t].root = t
    BY <1>0, <1>2, LoginTables DEF IInv, Grows, CommitLogin
  <2> QED
    BY <2>1 DEF Ended
<1>3. ASSUME NEW w \in Workers, NEW t \in Tokens, CommitRefresh(w, t)
      PROVE  Ended(root)'
  <2> DEFINE old == req[w].token
  <2>1. /\ Issued' = Issued \cup {t}
        /\ \A x \in Issued : /\ lineage'[x] = lineage[x]
                             /\ tokens[x].revoked => tokens'[x].revoked
        /\ lineage'[t].root = lineage[old].root
    BY <1>0, <1>3, RefreshTables DEF IInv, Grows
  <2>2. Stored(old)
    BY <1>0, <1>3 DEF SerialOK, RequestFresh, CommitRefresh
  <2> HIDE DEF old
  <2>3. lineage[old].root # root
    BY <2>2 DEF Stored, Ended
  <2> QED
    BY <2>1, <2>3 DEF Ended
<1> QED
  BY <1>0, <1>1, <1>2, <1>3, LoadStep, SelectSessionsStep, CommitLogoutStep,
     CommitChangePasswordStep, ExpireStep, RollbackStep, StutterStep DEF Next

(* logout and change_password: while no two requests have overlapped, a    *)
(* session that was ended stays ended.                                     *)
THEOREM EndedForGood == Spec => SessionsEndForGood
<1>1. SerialInv /\ [Next]_vars
          => [~overlapped' => \A root \in Tokens : Ended(root) => Ended(root)']_vars
  BY EndedStays
<1> QED
  BY <1>1, SerialInvariance, PTL DEF Spec, SessionsEndForGood
=============================================================================
