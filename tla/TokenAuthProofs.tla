-------------------------- MODULE TokenAuthProofs --------------------------
(***************************************************************************)
(* What holds of TokenAuth for any users, tokens and workers.              *)
(***************************************************************************)
EXTENDS TokenAuth, TLAPS

\* The request types say of a step which fields the request has.
LEMMA RequestTypes ==
    ASSUME TypeOK, NEW w \in Workers
    PROVE  /\ Serve(w, "idle") => req[w] = Idle
           /\ Serve(w, "find") \/ Serve(w, "save") => req[w] \in LoginRequest
           /\ Serve(w, "lookup") \/ Serve(w, "serve") => req[w] \in ApiRequest
  BY DEF TypeOK, Serve, LoginRequest, ApiRequest, Idle

\* A token in use is the row of its user.
LEMMA UsableRow ==
    ASSUME TypeOK, NEW t \in TokenIds, Issued(t)
    PROVE  tokens[t] \in TokenRow
  BY DEF TypeOK, Issued

\* wortuser's maketoken is a login whose password is right.
LEMMA MakeTokenIsLogin ==
    ASSUME NEW w \in Workers, BeginMakeToken(w)
    PROVE  BeginLogin(w)
  BY DEF BeginMakeToken, BeginLogin

\* Every step keeps every variable in its type.
LEMMA TypeStep == TypeOK /\ [Next]_vars => TypeOK'
<1> SUFFICES ASSUME TypeOK, [Next]_vars
             PROVE  TypeOK'
  OBVIOUS
<1> USE DEF Absent
<1>1. ASSUME NEW w \in Workers, BeginLogin(w)
      PROVE  TypeOK'
  BY <1>1 DEF BeginLogin, TypeOK, LoginRequest
<1>2. ASSUME NEW w \in Workers, FindUser(w)
      PROVE  TypeOK'
  <2>1. req[w] \in LoginRequest
    BY <1>2, RequestTypes DEF FindUser
  <2>2. [req[w] EXCEPT !.step = "save"] \in LoginRequest
    BY <2>1 DEF LoginRequest
  <2> QED
    BY <1>2, <2>2 DEF FindUser, TypeOK, Reply
<1>3. ASSUME NEW w \in Workers, SaveToken(w)
      PROVE  TypeOK'
  <2>1. req[w] \in LoginRequest
    BY <1>3, RequestTypes DEF SaveToken
  <2>2. [user |-> req[w].user, expired |-> FALSE] \in TokenRow /\ req[w].user \in Users
    BY <2>1 DEF LoginRequest, TokenRow
  <2> QED
    BY <1>3, <2>2 DEF SaveToken, TypeOK, Reply
<1>4. ASSUME NEW w \in Workers, BeginRequest(w)
      PROVE  TypeOK'
  <2>1. PICK h \in Header :
            req' = [req EXCEPT ![w] =
                 [step |-> "lookup", header |-> h,
                  revoked |-> h \in Token /\ tokens[h[1]] # Unborn /\ ~Usable(h[1]),
                  user |-> NULL, failed |-> FALSE, logged |-> FALSE]]
    BY <1>4 DEF BeginRequest
  <2>2. \A x : (h \in Token /\ tokens[h[1]] # Unborn /\ ~Usable(h[1])) \in BOOLEAN
    BY Zenon
  <2>3. [step |-> "lookup", header |-> h,
         revoked |-> h \in Token /\ tokens[h[1]] # Unborn /\ ~Usable(h[1]),
         user |-> NULL, failed |-> FALSE, logged |-> FALSE] \in ApiRequest
    BY <2>2 DEF ApiRequest
  <2> QED
    BY <1>4, <2>1, <2>3 DEF BeginRequest, TypeOK
<1>5. ASSUME NEW w \in Workers, Authenticate(w)
      PROVE  TypeOK'
  <2> DEFINE h == req[w].header
  <2>1. req[w] \in ApiRequest
    BY <1>5, RequestTypes DEF Authenticate
  <2>2. PICK fails \in BOOLEAN :
            req' = [req EXCEPT
                ![w].step = "serve",
                ![w].user = IF h \in Token /\ TokenError(h, fails) = "none"
                            THEN tokens[h[1]].user ELSE NULL,
                ![w].failed = fails,
                ![w].logged = TokenError(h, fails) \notin {"none", "invalid"}]
    BY <1>5, Zenon DEF Authenticate
  <2>3. ASSUME h \in Token, TokenError(h, fails) = "none"
        PROVE  tokens[h[1]].user \in Users
    <3>1. h # NULL /\ h # Malformed
      BY <2>3, TokenAssumption DEF Token
    <3>2. Authentic(h)
      BY <2>3, <3>1 DEF TokenError
    <3> QED
      BY <2>3, <3>2, UsableRow DEF Authentic, Usable, Token, TokenRow
  <2>4. (IF h \in Token /\ TokenError(h, fails) = "none"
         THEN tokens[h[1]].user ELSE NULL) \in Users \cup {NULL}
    BY <2>3
  <2>5. (TokenError(h, fails) \notin {"none", "invalid"}) \in BOOLEAN
    BY Zenon
  <2>6. [req[w] EXCEPT !.step = "serve",
                       !.user = IF h \in Token /\ TokenError(h, fails) = "none"
                                THEN tokens[h[1]].user ELSE NULL,
                       !.failed = fails,
                       !.logged = TokenError(h, fails) \notin {"none", "invalid"}]
            \in ApiRequest
    BY <2>1, <2>4, <2>5 DEF ApiRequest
  <2> QED
    BY <1>5, <2>2, <2>6 DEF Authenticate, TypeOK
<1>6. ASSUME NEW w \in Workers, Respond(w) \/ Abort(w)
      PROVE  TypeOK'
  BY <1>6 DEF Respond, Abort, Reply, TypeOK
<1>7. ASSUME NEW u \in Users, DeleteUser(u)
      PROVE  TypeOK'
  BY <1>7 DEF DeleteUser, TypeOK
<1>8. ASSUME NEW t \in TokenIds, DeleteToken(t)
      PROVE  TypeOK'
  BY <1>8 DEF DeleteToken, TypeOK
<1>9. ASSUME NEW t \in TokenIds, Expire(t)
      PROVE  TypeOK'
  <2>1. [tokens[t] EXCEPT !.expired = TRUE] \in TokenRow
    BY <1>9, UsableRow DEF Expire, Usable, TokenRow
  <2> QED
    BY <1>9, <2>1 DEF Expire, TypeOK
<1>10. CASE UNCHANGED vars
  BY <1>10 DEF vars, TypeOK
<1> QED
  BY <1>1, <1>2, <1>3, <1>4, <1>5, <1>6, <1>7, <1>8, <1>9, <1>10, MakeTokenIsLogin
  DEF Next, LoginStep, ApiStep

\* Rows and local variables always hold values of their types.
THEOREM TypeCorrect == Spec => []TypeOK
<1>1. Init => TypeOK
  BY DEF Init, TypeOK, Absent
<1> QED
  BY <1>1, TypeStep, PTL DEF Spec

-----------------------------------------------------------------------------

\* A token's user is on record from the moment the row exists, and for good.
Recorded == \A t \in TokenIds : issued[t] # NULL => tokens[t] # Unborn

\* What a waiting request knows of its token stays true: a revoked token is
\* never usable again.
RevokedForGood ==
    \A w \in Workers :
        /\ Serve(w, "lookup") /\ req[w].revoked =>
             /\ req[w].header \in Token
             /\ tokens[req[w].header[1]] # Unborn
             /\ ~Usable(req[w].header[1])
        /\ Serve(w, "lookup") => req[w].user = NULL

AuthInv ==
    /\ TypeOK
    /\ TokensHaveUsers
    /\ Recorded
    /\ RevokedForGood
    /\ ActsAsIssued
    /\ RevokedActsAsNobody

\* What a step may do to a token's row and its record as other requests see it.
TokenKept(t) ==
    /\ tokens[t] # Unborn => tokens'[t] # Unborn
    /\ tokens[t] # Unborn /\ ~Usable(t) => ~Usable(t)'
    /\ issued[t] # NULL => issued'[t] = issued[t]

\* No step takes a token back to a state it has left.
LEMMA TokensKept ==
    ASSUME TypeOK, Recorded, [Next]_vars, NEW t \in TokenIds
    PROVE  TokenKept(t)
<1> USE DEF TokenKept
<1>1. ASSUME UNCHANGED <<tokens, issued>>
      PROVE  TokenKept(t)
  BY <1>1 DEF Usable, Issued
<1>2. ASSUME NEW w \in Workers, SaveToken(w)
      PROVE  TokenKept(t)
  <2>1. CASE UNCHANGED <<tokens, issued>>
    BY <1>1, <2>1
  <2>2. CASE ~UNCHANGED <<tokens, issued>>
    <3>1. PICK n \in TokenIds :
            /\ tokens[n] = Unborn
            /\ tokens' = [tokens EXCEPT ![n] = [user |-> req[w].user, expired |-> FALSE]]
            /\ issued' = [issued EXCEPT ![n] = req[w].user]
      BY <1>2, <2>2 DEF SaveToken
    <3>2. CASE t = n
      BY <3>1, <3>2, TokenAssumption DEF Usable, Issued, Recorded, Absent, TypeOK
    <3>3. CASE t # n
      BY <3>1, <3>3 DEF Usable, Issued, TypeOK
    <3> QED
      BY <3>2, <3>3
  <2> QED
    BY <2>1, <2>2
<1>3. ASSUME NEW u \in Users, DeleteUser(u)
      PROVE  TokenKept(t)
  BY <1>3, TokenAssumption DEF DeleteUser, Usable, Issued, Absent, TypeOK
<1>4. ASSUME NEW d \in TokenIds, DeleteToken(d)
      PROVE  TokenKept(t)
  BY <1>4, TokenAssumption DEF DeleteToken, Usable, Issued, Absent, TypeOK
<1>5. ASSUME NEW d \in TokenIds, Expire(d)
      PROVE  TokenKept(t)
  <2>1. CASE t # d
    BY <1>5, <2>1 DEF Expire, Usable, Issued, TypeOK
  <2>2. CASE t = d
    <3>1. tokens[t] \in TokenRow
      BY <1>5, <2>2, UsableRow DEF Expire, Usable
    <3>2. tokens'[t] = [tokens[t] EXCEPT !.expired = TRUE]
      BY <1>5, <2>2 DEF Expire, TypeOK
    <3>3. tokens'[t] \in TokenRow /\ tokens'[t].expired
      BY <3>1, <3>2 DEF TokenRow
    <3> QED
      BY <1>5, <3>3, TokenAssumption DEF Expire, Usable, Issued, Absent
  <2> QED
    BY <2>1, <2>2
<1> QED
  BY <1>1, <1>2, <1>3, <1>4, <1>5, MakeTokenIsLogin
  DEF Next, LoginStep, ApiStep, BeginLogin, FindUser, BeginRequest, Authenticate,
      Respond, Abort, vars

\* A login that loses its user saves nothing, and a deleted user takes the
\* tokens along.
LEMMA OwnersStep ==
    TypeOK /\ TokensHaveUsers /\ Recorded /\ [Next]_vars => TokensHaveUsers' /\ Recorded'
<1> SUFFICES ASSUME TypeOK, TokensHaveUsers, Recorded, [Next]_vars
             PROVE  TokensHaveUsers' /\ Recorded'
  OBVIOUS
<1> USE DEF Absent
<1>1. ASSUME UNCHANGED <<users, tokens, issued>>
      PROVE  TokensHaveUsers' /\ Recorded'
  BY <1>1 DEF TokensHaveUsers, Recorded, Issued
<1>2. ASSUME NEW w \in Workers, SaveToken(w)
      PROVE  TokensHaveUsers' /\ Recorded'
  <2>1. req[w] \in LoginRequest
    BY <1>2, RequestTypes DEF SaveToken
  <2>2. [user |-> req[w].user, expired |-> FALSE] \in TokenRow
    BY <2>1 DEF LoginRequest, TokenRow
  <2>3. CASE UNCHANGED <<tokens, issued>>
    BY <1>1, <1>2, <2>3 DEF SaveToken
  <2>4. CASE ~UNCHANGED <<tokens, issued>>
    <3> DEFINE r == [user |-> req[w].user, expired |-> FALSE]
    <3>1. PICK n \in TokenIds :
            /\ tokens' = [tokens EXCEPT ![n] = r]
            /\ issued' = [issued EXCEPT ![n] = req[w].user]
      BY <1>2, <2>4 DEF SaveToken
    <3>2. users' = users /\ r.user \in users
      BY <1>2, <2>4 DEF SaveToken
    <3>3. tokens'[n] = r /\ issued'[n] = r.user /\ r # Unborn
      BY <2>2, <3>1, TokenAssumption DEF TypeOK
    <3>4. ASSUME NEW t \in TokenIds, t # n
          PROVE  tokens'[t] = tokens[t] /\ issued'[t] = issued[t]
      BY <3>1, <3>4 DEF TypeOK
    <3> HIDE DEF r
    <3> QED
      BY <3>2, <3>3, <3>4 DEF TokensHaveUsers, Recorded, Issued
  <2> QED
    BY <2>3, <2>4
<1>3. ASSUME NEW u \in Users, DeleteUser(u)
      PROVE  TokensHaveUsers' /\ Recorded'
  BY <1>3, TokenAssumption DEF DeleteUser, TokensHaveUsers, Recorded, Issued, TypeOK
<1>4. ASSUME NEW t \in TokenIds, DeleteToken(t)
      PROVE  TokensHaveUsers' /\ Recorded'
  BY <1>4, TokenAssumption DEF DeleteToken, TokensHaveUsers, Recorded, Issued, TypeOK
<1>5. ASSUME NEW t \in TokenIds, Expire(t)
      PROVE  TokensHaveUsers' /\ Recorded'
  <2>1. tokens[t] \in TokenRow
    BY <1>5, UsableRow DEF Expire, Usable
  <2>2. /\ [tokens[t] EXCEPT !.expired = TRUE].user = tokens[t].user
        /\ [tokens[t] EXCEPT !.expired = TRUE] \in TokenRow
    BY <2>1 DEF TokenRow
  <2>3. /\ users' = users /\ issued' = issued
        /\ tokens'[t].user = tokens[t].user /\ tokens'[t] # Unborn /\ Issued(t)
    BY <1>5, <2>2, TokenAssumption DEF Expire, Usable, TypeOK
  <2>4. ASSUME NEW x \in TokenIds, x # t
        PROVE  tokens'[x] = tokens[x]
    BY <1>5, <2>4 DEF Expire, TypeOK
  <2> QED
    BY <2>3, <2>4 DEF TokensHaveUsers, Recorded, Issued
<1> QED
  BY <1>1, <1>2, <1>3, <1>4, <1>5, MakeTokenIsLogin
  DEF Next, LoginStep, ApiStep, BeginLogin, FindUser, BeginRequest, Authenticate,
      Respond, Abort, vars

\* The claims about the request of one worker.
WorkerInv(w) ==
    /\ Serve(w, "lookup") /\ req[w].revoked =>
         /\ req[w].header \in Token
         /\ tokens[req[w].header[1]] # Unborn
         /\ ~Usable(req[w].header[1])
    /\ Serve(w, "lookup") => req[w].user = NULL
    /\ Serve(w, "serve") /\ req[w].user # NULL =>
         \E t \in TokenIds : req[w].header = <<t, t>> /\ issued[t] = req[w].user
    /\ Serve(w, "serve") /\ req[w].revoked => req[w].user = NULL

\* Of a worker that does nothing, the claims stay true whatever others do.
LEMMA OthersStep ==
    ASSUME TypeOK, Recorded, [Next]_vars, NEW w \in Workers,
           WorkerInv(w), req'[w] = req[w]
    PROVE  WorkerInv(w)'
<1>1. ASSUME NEW h \in Token
      PROVE  h[1] \in TokenIds
  BY DEF Token
<1>2. \A t \in TokenIds : TokenKept(t)
  BY TokensKept
<1>3. Serve(w, "lookup")' = Serve(w, "lookup") /\ Serve(w, "serve")' = Serve(w, "serve")
  BY DEF Serve
<1>4. ASSUME Serve(w, "serve"), req[w].user # NULL
      PROVE  \E t \in TokenIds : req[w].header = <<t, t>> /\ issued'[t] = req[w].user
  <2>1. PICK t \in TokenIds : req[w].header = <<t, t>> /\ issued[t] = req[w].user
    BY <1>4 DEF WorkerInv
  <2> QED
    BY <1>2, <1>4, <2>1 DEF TokenKept
<1>5. ASSUME Serve(w, "lookup"), req[w].revoked
      PROVE  /\ req[w].header \in Token
             /\ tokens'[req[w].header[1]] # Unborn
             /\ ~Usable(req[w].header[1])'
  <2>1. /\ req[w].header \in Token
        /\ tokens[req[w].header[1]] # Unborn
        /\ ~Usable(req[w].header[1])
    BY <1>5 DEF WorkerInv
  <2> DEFINE t == req[w].header[1]
  <2>2. t \in TokenIds
    BY <1>1, <2>1
  <2>3. tokens'[t] # Unborn /\ ~Usable(t)'
    BY <1>2, <2>1, <2>2 DEF TokenKept
  <2> QED
    BY <2>1, <2>3 DEF Usable, Issued
<1> QED
  BY <1>3, <1>4, <1>5 DEF WorkerInv, Usable, Issued

\* The step of the worker itself.
LEMMA OwnStep ==
    ASSUME TypeOK, TokensHaveUsers, NEW w \in Workers, WorkerInv(w),
           LoginStep(w) \/ ApiStep(w) \/ Abort(w)
    PROVE  WorkerInv(w)'
<1>1. CASE BeginLogin(w) \/ FindUser(w) \/ SaveToken(w) \/ Respond(w) \/ Abort(w)
  <2>1. ASSUME Reply(w)
        PROVE  WorkerInv(w)'
    BY <2>1 DEF Reply, Idle, Serve, WorkerInv, TypeOK
  <2>2. CASE BeginLogin(w)
    BY <2>2 DEF BeginLogin, WorkerInv, Serve, TypeOK
  <2>3. CASE FindUser(w)
    <3>1. CASE Reply(w)
      BY <2>1, <3>1
    <3>2. CASE req' = [req EXCEPT ![w].step = "save"]
      <4>1. req[w] \in LoginRequest
        BY <2>3, RequestTypes DEF FindUser
      <4>2. req'[w].step = "save"
        BY <3>2, <4>1 DEF TypeOK, LoginRequest
      <4> QED
        BY <4>2 DEF WorkerInv, Serve
    <3> QED
      BY <2>3, <3>1, <3>2 DEF FindUser
  <2> QED
    BY <1>1, <2>1, <2>2, <2>3 DEF SaveToken, Respond, Abort
<1>2. CASE BeginRequest(w)
  <2>1. PICK h \in Header :
            req' = [req EXCEPT ![w] =
                 [step |-> "lookup", header |-> h,
                  revoked |-> h \in Token /\ tokens[h[1]] # Unborn /\ ~Usable(h[1]),
                  user |-> NULL, failed |-> FALSE, logged |-> FALSE]]
    BY <1>2 DEF BeginRequest
  <2>2. /\ req'[w].step = "lookup" /\ req'[w].header = h /\ req'[w].user = NULL
        /\ req'[w].revoked = (h \in Token /\ tokens[h[1]] # Unborn /\ ~Usable(h[1]))
    BY <2>1 DEF TypeOK
  <2> QED
    BY <1>2, <2>2 DEF BeginRequest, WorkerInv, Serve, Usable, Issued
<1>3. CASE Authenticate(w)
  <2> DEFINE h == req[w].header
  <2>1. req[w] \in ApiRequest
    BY <1>3, RequestTypes DEF Authenticate
  <2>2. PICK fails \in BOOLEAN :
            req' = [req EXCEPT
                ![w].step = "serve",
                ![w].user = IF h \in Token /\ TokenError(h, fails) = "none"
                            THEN tokens[h[1]].user ELSE NULL,
                ![w].failed = fails,
                ![w].logged = TokenError(h, fails) \notin {"none", "invalid"}]
    BY <1>3, Zenon DEF Authenticate
  <2>3. /\ req'[w].step = "serve" /\ req'[w].header = h
        /\ req'[w].revoked = req[w].revoked
        /\ req'[w].user = IF h \in Token /\ TokenError(h, fails) = "none"
                          THEN tokens[h[1]].user ELSE NULL
    BY <2>1, <2>2 DEF TypeOK, ApiRequest
  <2>4. ASSUME h \in Token, TokenError(h, fails) = "none"
        PROVE  Authentic(h)
    BY <2>4, TokenAssumption DEF Token, TokenError
  <2>5. ASSUME req'[w].user # NULL
        PROVE  /\ Usable(h[1])
               /\ \E t \in TokenIds : h = <<t, t>> /\ issued[t] = req'[w].user
    <3>1. h \in Token /\ Usable(h[1]) /\ h[1] = h[2] /\ req'[w].user = tokens[h[1]].user
      BY <2>3, <2>4, <2>5 DEF Authentic, Matches
    <3>2. h[1] \in TokenIds /\ h = <<h[1], h[1]>>
      BY <3>1 DEF Token
    <3>3. issued[h[1]] = req'[w].user
      BY <3>1, <3>2 DEF TokensHaveUsers, Usable
    <3> QED
      BY <3>1, <3>2, <3>3
  <2>6. req[w].revoked => ~Usable(h[1])
    BY <1>3 DEF Authenticate, WorkerInv
  <2> QED
    BY <1>3, <2>3, <2>5, <2>6 DEF Authenticate, WorkerInv, Serve
<1> QED
  BY <1>1, <1>2, <1>3, MakeTokenIsLogin DEF LoginStep, ApiStep

\* AuthInv is inductive.
LEMMA AuthStep == AuthInv /\ [Next]_vars => AuthInv'
<1> SUFFICES ASSUME AuthInv, [Next]_vars
             PROVE  AuthInv'
  OBVIOUS
<1>1. TypeOK' /\ TokensHaveUsers' /\ Recorded'
  BY TypeStep, OwnersStep DEF AuthInv
<1>2. \A w \in Workers : WorkerInv(w)
  BY DEF AuthInv, WorkerInv, RevokedForGood, ActsAsIssued, RevokedActsAsNobody
<1>3. ASSUME NEW w \in Workers
      PROVE  WorkerInv(w)'
  <2>1. CASE req'[w] = req[w]
    BY <1>2, <2>1, OthersStep DEF AuthInv
  <2>2. CASE LoginStep(w) \/ ApiStep(w) \/ Abort(w)
    BY <1>2, <2>2, OwnStep DEF AuthInv
  <2>3. ASSUME NEW v \in Workers, v # w, LoginStep(v) \/ ApiStep(v) \/ Abort(v)
        PROVE  req'[w] = req[w]
    BY <2>3, MakeTokenIsLogin
       DEF LoginStep, ApiStep, BeginLogin, FindUser, SaveToken, BeginRequest,
           Authenticate, Respond, Abort, Reply, AuthInv, TypeOK
  <2>4. ASSUME UNCHANGED req
        PROVE  req'[w] = req[w]
    BY <2>4
  <2> QED
    BY <2>1, <2>2, <2>3, <2>4 DEF Next, vars, DeleteUser, DeleteToken, Expire
<1> QED
  BY <1>1, <1>3 DEF AuthInv, WorkerInv, RevokedForGood, ActsAsIssued, RevokedActsAsNobody

LEMMA AuthenticationInvariant == Spec => []AuthInv
<1>1. Init => AuthInv
  BY DEF Init, AuthInv, TypeOK, Absent, TokensHaveUsers, Issued, Recorded,
         RevokedForGood, ActsAsIssued, RevokedActsAsNobody, Serve, Idle
<1> QED
  BY <1>1, AuthStep, PTL DEF Spec

\* Of any number of users, tokens and workers: a request acts only as the user
\* its token was made for.
THEOREM ActsAsIssuedAlways == Spec => []ActsAsIssued
BY AuthenticationInvariant, PTL DEF AuthInv

\* A request that came in with a revoked token acts as nobody.
THEOREM RevokedAlwaysNobody == Spec => []RevokedActsAsNobody
BY AuthenticationInvariant, PTL DEF AuthInv

\* No token outlives its user.
THEOREM TokensAlwaysHaveUsers == Spec => []TokensHaveUsers
BY AuthenticationInvariant, PTL DEF AuthInv

-----------------------------------------------------------------------------
(* TokenAuth implements Access. *)

AccessVars == <<users, Grants, Acting>>

\* What a worker that serves nothing before and after does, nobody acts by.
LEMMA ActingKept ==
    ASSUME NEW w \in Workers, ~Serve(w, "serve"), ~Serve(w, "serve")',
           \A v \in Workers : v # w => req'[v] = req[v]
    PROVE  Acting' = Acting
<1>1. ASSUME NEW v \in Workers
      PROVE  Acting'[v] = Acting[v]
  BY DEF Acting, Serve
<1> QED
  BY <1>1 DEF Acting

LEMMA ReplyKeepsActing ==
    ASSUME TypeOK, NEW w \in Workers, ~Serve(w, "serve"), Reply(w)
    PROVE  Acting' = Acting
<1>1. req'[w].step = "idle" /\ \A v \in Workers : v # w => req'[v] = req[v]
  BY DEF Reply, Idle, TypeOK
<1> QED
  BY <1>1, ActingKept DEF Serve

LEMMA ActingBecomes ==
    ASSUME NEW w \in Workers, NEW a, Acting'[w] = a,
           \A v \in Workers : v # w => Acting'[v] = Acting[v]
    PROVE  Acting' = [Acting EXCEPT ![w] = a]
<1>1. Acting = [v \in Workers |-> Acting[v]] /\ Acting' = [v \in Workers |-> Acting'[v]]
  BY DEF Acting
<1> QED
  BY <1>1

\* The rights depend on the rows of user_authtokens only.
LEMMA GrantsKept == tokens' = tokens => Grants' = Grants
  BY DEF Grants, Usable, Issued

\* A token that is usable stands for a user, and any other for none.
LEMMA GrantOf ==
    ASSUME TypeOK, NEW t \in TokenIds
    PROVE  /\ Usable(t) => Grants[t] = tokens[t].user /\ Grants[t] \in Users
           /\ tokens[t] = Unborn => Grants[t] = Unborn
           /\ tokens[t] # Unborn /\ ~Usable(t) => Grants[t] = Dead
  BY UsableRow DEF Grants, Usable, Issued, Absent, TokenRow

LEMMA GiveStep ==
    ASSUME TypeOK, NEW w \in Workers, SaveToken(w)
    PROVE  [Promise!Next]_AccessVars
<1>1. Acting' = Acting
  BY ReplyKeepsActing DEF SaveToken, Serve
<1>2. CASE UNCHANGED tokens
  BY <1>1, <1>2, GrantsKept DEF AccessVars, SaveToken
<1>3. CASE ~UNCHANGED tokens
  <2>1. PICK t \in TokenIds :
            /\ tokens[t] = Unborn
            /\ tokens' = [tokens EXCEPT ![t] = [user |-> req[w].user, expired |-> FALSE]]
    BY <1>3 DEF SaveToken
  <2>2. req[w].user \in users /\ users' = users /\ req[w].user \in Users
    BY <1>3 DEF SaveToken, TypeOK
  <2> DEFINE row == [user |-> req[w].user, expired |-> FALSE]
  <2>3. row \in TokenRow /\ row.user = req[w].user /\ ~row.expired
    BY <2>2 DEF TokenRow
  <2>4. tokens'[t] = row /\ \A x \in TokenIds : x # t => tokens'[x] = tokens[x]
    BY <2>1 DEF TypeOK
  <2> HIDE DEF row
  <2>5. Grants' = [Grants EXCEPT ![t] = req[w].user]
    BY <2>3, <2>4, TokenAssumption DEF Grants, Usable, Issued, Absent
  <2>6. Grants[t] = Unborn
    BY <2>1, GrantOf
  <2>7. Promise!Give(t, req[w].user)
    BY <1>1, <2>2, <2>5, <2>6 DEF Promise!Give
  <2> QED
    BY <2>2, <2>7 DEF Promise!Next
<1> QED
  BY <1>2, <1>3

LEMMA ActStep ==
    ASSUME TypeOK, NEW w \in Workers, Authenticate(w)
    PROVE  [Promise!Next]_AccessVars
<1> DEFINE h == req[w].header
<1>1. req[w] \in ApiRequest /\ req[w].step = "lookup"
  BY RequestTypes DEF Authenticate, Serve
<1>2. PICK fails \in BOOLEAN :
          req' = [req EXCEPT
              ![w].step = "serve",
              ![w].user = IF h \in Token /\ TokenError(h, fails) = "none"
                          THEN tokens[h[1]].user ELSE NULL,
              ![w].failed = fails,
              ![w].logged = TokenError(h, fails) \notin {"none", "invalid"}]
  BY Zenon DEF Authenticate
<1>3. /\ req'[w].step = "serve" /\ req'[w].header = h
      /\ req'[w].user = IF h \in Token /\ TokenError(h, fails) = "none"
                        THEN tokens[h[1]].user ELSE NULL
  BY <1>1, <1>2 DEF TypeOK, ApiRequest
<1>4. ASSUME NEW v \in Workers, v # w
      PROVE  req'[v] = req[v]
  BY <1>2, <1>4 DEF TypeOK
<1>5. Grants' = Grants /\ users' = users
  BY GrantsKept DEF Authenticate
<1>6. CASE req'[w].user = NULL
  <2>1. Acting' = Acting
    BY <1>1, <1>4, <1>6 DEF Acting, Serve
  <2> QED
    BY <1>5, <2>1 DEF AccessVars
<1>7. CASE req'[w].user # NULL
  <2>1. h \in Token /\ TokenError(h, fails) = "none" /\ req'[w].user = tokens[h[1]].user
    BY <1>3, <1>7
  <2>2. Authentic(h)
    BY <2>1, TokenAssumption DEF Token, TokenError
  <2>3. h[1] \in TokenIds /\ h[2] = h[1] /\ Usable(h[1])
    BY <2>1, <2>2 DEF Authentic, Matches, Token
  <2>4. Grants[h[1]] = req'[w].user /\ Grants[h[1]] \in Users
    BY <2>1, <2>3, GrantOf
  <2>5. Acting[w] = NULL
    BY <1>1 DEF Acting, Serve
  <2>6. Acting' = [Acting EXCEPT ![w] = [token |-> h[1], user |-> Grants[h[1]]]]
    <3> DEFINE a == [token |-> h[1], user |-> Grants[h[1]]]
    <3>1. a = [token |-> req'[w].header[2], user |-> req'[w].user]
      BY <1>3, <2>3, <2>4
    <3> HIDE DEF a
    <3>2. Acting'[w] = a
      BY <1>3, <1>7, <3>1 DEF Acting, Serve
    <3>3. \A v \in Workers : v # w => Acting'[v] = Acting[v]
      BY <1>4 DEF Acting, Serve
    <3>4. Acting' = [Acting EXCEPT ![w] = a]
      BY <3>2, <3>3, ActingBecomes
    <3> QED
      BY <3>4 DEF a
  <2>7. Promise!Act(w, h[1])
    BY <1>5, <2>4, <2>5, <2>6 DEF Promise!Act
  <2> QED
    BY <2>3, <2>7 DEF Promise!Next
<1> QED
  BY <1>6, <1>7

LEMMA FinishStep ==
    ASSUME TypeOK, NEW w \in Workers, Respond(w)
    PROVE  [Promise!Next]_AccessVars
<1>1. req'[w] = Idle /\ \A v \in Workers : v # w => req'[v] = req[v]
  BY DEF Respond, Reply, TypeOK
<1>2. Acting'[w] = NULL
  BY <1>1 DEF Acting, Serve, Idle
<1>3. \A v \in Workers : v # w => Acting'[v] = Acting[v]
  BY <1>1 DEF Acting, Serve
<1>4. Acting' = [Acting EXCEPT ![w] = NULL]
  BY <1>2, <1>3, ActingBecomes
<1>5. Promise!Finish(w)
  BY <1>4, GrantsKept DEF Respond, Promise!Finish
<1> QED
  BY <1>5 DEF Promise!Next

LEMMA LeaveStep ==
    ASSUME TypeOK, NEW u \in Users, DeleteUser(u)
    PROVE  [Promise!Next]_AccessVars
<1>1. Acting' = Acting
  BY DEF DeleteUser, Acting, Serve
<1>2. ASSUME NEW t \in TokenIds
      PROVE  Grants'[t] = IF Grants[t] = u THEN Dead ELSE Grants[t]
  <2>1. tokens'[t] = IF Issued(t) /\ tokens[t].user = u THEN Dead ELSE tokens[t]
    BY DEF DeleteUser
  <2>2. CASE Issued(t) /\ tokens[t].user = u
    BY <2>1, <2>2, GrantOf, TokenAssumption DEF Grants, Usable, Issued, Absent
  <2>3. CASE ~(Issued(t) /\ tokens[t].user = u)
    <3>1. Grants'[t] = Grants[t]
      BY <2>1, <2>3 DEF Grants, Usable, Issued
    <3>2. Grants[t] # u
      BY <2>3, GrantOf, TokenAssumption DEF Usable, Issued
    <3> QED
      BY <3>1, <3>2
  <2> QED
    BY <2>2, <2>3
<1>3. Grants' = [t \in TokenIds |-> IF Grants[t] = u THEN Dead ELSE Grants[t]]
  BY <1>2 DEF Grants
<1>4. Promise!Leave(u)
  BY <1>1, <1>3 DEF DeleteUser, Promise!Leave
<1> QED
  BY <1>4 DEF Promise!Next

LEMMA WithdrawStep ==
    ASSUME TypeOK, NEW t \in TokenIds, DeleteToken(t) \/ Expire(t)
    PROVE  [Promise!Next]_AccessVars
<1>1. Acting' = Acting /\ users' = users
  BY DEF DeleteToken, Expire, Acting, Serve
<1>2. tokens'[t] # Unborn /\ ~Usable(t)' /\ Issued(t)
  <2>1. CASE DeleteToken(t)
    BY <2>1, TokenAssumption DEF DeleteToken, Usable, Issued, Absent, TypeOK
  <2>2. CASE Expire(t)
    <3>1. tokens[t] \in TokenRow
      BY <2>2, UsableRow DEF Expire, Usable
    <3>2. tokens'[t] = [tokens[t] EXCEPT !.expired = TRUE]
      BY <2>2 DEF Expire, TypeOK
    <3>3. tokens'[t] \in TokenRow /\ tokens'[t].expired
      BY <3>1, <3>2 DEF TokenRow
    <3> QED
      BY <2>2, <3>3, TokenAssumption DEF Expire, Usable
  <2> QED
    BY <2>1, <2>2
<1>3. \A x \in TokenIds : x # t => tokens'[x] = tokens[x]
  BY DEF DeleteToken, Expire, TypeOK
<1>4. Grants' = [Grants EXCEPT ![t] = Dead]
  BY <1>2, <1>3 DEF Grants, Usable, Issued
<1>5. CASE Usable(t)
  <2>1. Grants[t] \in Users
    BY <1>5, GrantOf
  <2>2. Promise!Withdraw(t)
    BY <1>1, <1>4, <2>1 DEF Promise!Withdraw
  <2> QED
    BY <2>2 DEF Promise!Next
<1>6. CASE ~Usable(t)
  <2>1. Grants[t] = Dead
    BY <1>2, <1>6, GrantOf DEF Issued, Absent
  <2>2. Grants' = Grants
    BY <1>4, <2>1 DEF Grants
  <2> QED
    BY <1>1, <2>2 DEF AccessVars
<1> QED
  BY <1>5, <1>6

\* Every statement is one step on rights, or none.
LEMMA AccessStep == TypeOK /\ [Next]_vars => [Promise!Next]_AccessVars
<1> SUFFICES ASSUME TypeOK, [Next]_vars
             PROVE  [Promise!Next]_AccessVars
  OBVIOUS
<1>1. ASSUME NEW w \in Workers, BeginLogin(w) \/ FindUser(w) \/ BeginRequest(w) \/ Abort(w)
      PROVE  [Promise!Next]_AccessVars
  <2>1. Acting' = Acting
    <3>1. CASE BeginLogin(w)
      <4>1. PICK u \in Users, right \in BOOLEAN :
                req' = [req EXCEPT ![w] = [step |-> "find", user |-> u, password |-> right]]
        BY <3>1 DEF BeginLogin
      <4>2. req'[w].step = "find" /\ \A v \in Workers : v # w => req'[v] = req[v]
        BY <4>1 DEF TypeOK
      <4> QED
        BY <3>1, <4>2, ActingKept DEF BeginLogin, Serve
    <3>2. CASE FindUser(w)
      <4>1. req[w] \in LoginRequest
        BY <3>2, RequestTypes DEF FindUser
      <4>2. CASE Reply(w)
        BY <3>2, <4>2, ReplyKeepsActing DEF FindUser, Serve
      <4>3. CASE req' = [req EXCEPT ![w].step = "save"]
        <5>1. req'[w].step = "save" /\ \A v \in Workers : v # w => req'[v] = req[v]
          BY <4>1, <4>3 DEF TypeOK, LoginRequest
        <5> QED
          BY <3>2, <5>1, ActingKept DEF FindUser, Serve
      <4> QED
        BY <3>2, <4>2, <4>3 DEF FindUser
    <3>3. CASE BeginRequest(w)
      <4>1. PICK h \in Header :
                req' = [req EXCEPT ![w] =
                     [step |-> "lookup", header |-> h,
                      revoked |-> h \in Token /\ tokens[h[1]] # Unborn /\ ~Usable(h[1]),
                      user |-> NULL, failed |-> FALSE, logged |-> FALSE]]
        BY <3>3 DEF BeginRequest
      <4>2. req'[w].step = "lookup" /\ \A v \in Workers : v # w => req'[v] = req[v]
        BY <4>1 DEF TypeOK
      <4> QED
        BY <3>3, <4>2, ActingKept DEF BeginRequest, Serve
    <3>4. CASE Abort(w)
      BY <3>4, ReplyKeepsActing DEF Abort, Serve
    <3> QED
      BY <1>1, <3>1, <3>2, <3>3, <3>4
  <2>2. users' = users /\ tokens' = tokens
    BY <1>1 DEF BeginLogin, FindUser, BeginRequest, Abort
  <2> QED
    BY <2>1, <2>2, GrantsKept DEF AccessVars
<1>2. CASE UNCHANGED vars
  BY <1>2, GrantsKept DEF vars, AccessVars, Acting, Serve
<1> QED
  BY <1>1, <1>2, GiveStep, ActStep, FinishStep, LeaveStep, WithdrawStep, MakeTokenIsLogin
  DEF Next, LoginStep, ApiStep

\* For any number of users, tokens and workers, the statements of logins and
\* lookups and the deletions under them have the effect of single steps on
\* rights: a request takes up a right that stands, by its own secret.
THEOREM AccessImplemented == Spec => ImplementsAccess
<1>1. Init => Promise!Init
  BY DEF Init, Promise!Init, Grants, Acting, Serve, Idle
<1>2. TypeOK /\ [Next]_vars => [Promise!Next]_Promise!vars
  BY AccessStep DEF AccessVars, Promise!vars
<1> QED
  BY <1>1, <1>2, TypeCorrect, PTL DEF Spec, ImplementsAccess, Promise!Spec

-----------------------------------------------------------------------------
(* What Access promises of a right over time, and TokenAuth therefore keeps *)

\* A right that was withdrawn stays withdrawn, and one that stands is never
\* handed to another user.
RightFinal(t) ==
    /\ Grants[t] \in Users => Grants'[t] \in {Grants[t], Dead}
    /\ Grants[t] = Dead => Grants'[t] = Dead

\* A request acts as one user, by one right, until it ends; and it takes up
\* a right that stands in the very step.
IdentityFixed(w) ==
    /\ Acting[w] # NULL => Acting'[w] \in {Acting[w], NULL}
    /\ Acting[w] = NULL /\ Acting'[w] # NULL =>
          \E t \in TokenIds :
              Grants[t] \in Users /\ Acting'[w] = [token |-> t, user |-> Grants[t]]

LEMMA PromisedSteps ==
    ASSUME [Promise!Next]_AccessVars
    PROVE  /\ \A t \in TokenIds : RightFinal(t)
           /\ \A w \in Workers : IdentityFixed(w)
<1>1. /\ DOMAIN Grants = TokenIds /\ DOMAIN Acting = Workers
      /\ Unborn \notin Users /\ Dead \notin Users /\ Unborn # Dead
  BY TokenAssumption DEF Grants, Acting
<1>2. ASSUME UNCHANGED <<Grants, Acting>>
      PROVE  /\ \A t \in TokenIds : RightFinal(t)
             /\ \A w \in Workers : IdentityFixed(w)
  BY <1>2 DEF RightFinal, IdentityFixed
<1>3. ASSUME UNCHANGED Acting, \A t \in TokenIds : RightFinal(t)
      PROVE  /\ \A t \in TokenIds : RightFinal(t)
             /\ \A w \in Workers : IdentityFixed(w)
  BY <1>3 DEF IdentityFixed
<1>4. ASSUME UNCHANGED Grants, \A w \in Workers : IdentityFixed(w)
      PROVE  /\ \A t \in TokenIds : RightFinal(t)
             /\ \A w \in Workers : IdentityFixed(w)
  BY <1>4 DEF RightFinal
<1>5. ASSUME NEW t \in TokenIds, NEW u \in Users, Promise!Give(t, u)
      PROVE  \A x \in TokenIds : RightFinal(x)
  BY <1>1, <1>5 DEF Promise!Give, RightFinal
<1>6. ASSUME NEW t \in TokenIds, Promise!Withdraw(t)
      PROVE  \A x \in TokenIds : RightFinal(x)
  BY <1>1, <1>6 DEF Promise!Withdraw, RightFinal
<1>7. ASSUME NEW u \in Users, Promise!Leave(u)
      PROVE  \A x \in TokenIds : RightFinal(x)
  BY <1>1, <1>7 DEF Promise!Leave, RightFinal
<1>8. ASSUME NEW w \in Workers, NEW t \in TokenIds, Promise!Act(w, t)
      PROVE  \A v \in Workers : IdentityFixed(v)
  BY <1>1, <1>8 DEF Promise!Act, IdentityFixed
<1>9. ASSUME NEW w \in Workers, Promise!Finish(w)
      PROVE  \A v \in Workers : IdentityFixed(v)
  BY <1>1, <1>9 DEF Promise!Finish, IdentityFixed
<1> QED
  BY <1>2, <1>3, <1>4, <1>5, <1>6, <1>7, <1>8, <1>9
     DEF Promise!Next, AccessVars, Promise!Give, Promise!Withdraw, Promise!Leave,
         Promise!Act, Promise!Finish

\* Expiry and deletion are for good: no later login, deletion or expiry brings
\* a token back to life or makes it stand for somebody else.
THEOREM RightsAreFinal == Spec => [][\A t \in TokenIds : RightFinal(t)]_vars
<1>1. TypeOK /\ [Next]_vars => [\A t \in TokenIds : RightFinal(t)]_vars
  BY AccessStep, PromisedSteps
<1> QED
  BY <1>1, TypeCorrect, PTL DEF Spec

\* Whoever a request is found to act as, it acts as until its answer, and the
\* right was still standing, in the same statement, when it was taken up.
THEOREM IdentitiesAreFixed == Spec => [][\A w \in Workers : IdentityFixed(w)]_vars
<1>1. TypeOK /\ [Next]_vars => [\A w \in Workers : IdentityFixed(w)]_vars
  BY AccessStep, PromisedSteps
<1> QED
  BY <1>1, TypeCorrect, PTL DEF Spec
=============================================================================
