----------------------------- MODULE TokenAuth -----------------------------
(***************************************************************************)
(* Who a request acts as: the rows of user_authtokens, the login mutation  *)
(* and wortuser that add to them, and the middleware that turns an         *)
(* Authorization header into the user of the request's context.            *)
(*                                                                         *)
(* A token row holds the hash of a secret that only the reply to a login   *)
(* carries; the header is "id:secret".  Hashes are taken to be free of     *)
(* collisions, so the secret of a row is named by the row's key.  Each     *)
(* action is one SQL statement with the Go code up to the next one.        *)
(*                                                                         *)
(* A definition marked "Faulty" is a slip the code could have had instead  *)
(* of the definition below it; nothing uses it but the runs that show      *)
(* which property would notice.                                            *)
(***************************************************************************)
CONSTANTS
    Users,          \* primary keys of the users
    TokenIds,       \* keys a token row can get
    Workers,        \* goroutines serving requests
    NULL,           \* nil, or no Authorization header
    Malformed,      \* a token that is not of the form id:secret
    Unborn, Dead    \* the states of a key before INSERT and after DELETE

Absent == {Unborn, Dead}

TokenRow == [user : Users, expired : BOOLEAN]

ASSUME TokenAssumption ==
    /\ NULL \notin Users /\ Unborn \notin Users /\ Dead \notin Users
    /\ NULL \notin TokenIds \X TokenIds /\ Malformed \notin TokenIds \X TokenIds
    /\ Unborn # Dead /\ Unborn \notin TokenRow /\ Dead \notin TokenRow

VARIABLES
    users,          \* user rows
    tokens,         \* user_authtokens rows
    issued,         \* history: the user each token was made for
    req             \* the request each worker is serving

vars == <<users, tokens, issued, req>>

\* What the Authorization header holds: a token id and a secret, which a client
\* with several tokens can mix up, something else, or nothing.
Token == TokenIds \X TokenIds
Header == Token \cup {Malformed, NULL}

Idle == [step |-> "idle"]

LoginRequest == [step : {"find", "save"}, user : Users, password : BOOLEAN]

\* revoked: whether the token had been deleted or had expired when the request
\* came in.  failed, logged: what the lookup met and whether it was logged.
ApiRequest == [step : {"lookup", "serve"}, header : Header, revoked : BOOLEAN,
               user : Users \cup {NULL}, failed : BOOLEAN, logged : BOOLEAN]

Issued(t) == tokens[t] \notin Absent

\* WHERE t.id = ? AND (t.expires_at IS NULL OR t.expires_at > ?)
Usable(t) == Issued(t) /\ ~tokens[t].expired

\* Compare: the hash of the secret is the one in the row.
Matches(t, secret) == t = secret

\* Faulty: takes the row for the proof.
AuthenticRow(h) == h \in Token /\ Usable(h[1])

\* Faulty: reads the row whether it has expired or not.
AuthenticOnce(h) == h \in Token /\ Issued(h[1]) /\ Matches(h[1], h[2])

\* The header names a usable row and carries its secret.
Authentic(h) == h \in Token /\ Usable(h[1]) /\ Matches(h[1], h[2])

\* The error of AuthenticateUserByToken.  After no row, as after a failure of
\* the database, the token is empty, the secret does not match it, and
\* ErrInvalidToken replaces whatever error there was.
TokenError(h, fails) ==
    CASE h = NULL -> "none"
      [] h = Malformed -> "format"
      [] h \in Token -> IF Authentic(h) /\ ~fails THEN "none" ELSE "invalid"

-----------------------------------------------------------------------------

Serve(w, step) == req[w].step = step

\* Faulty: the local variables outlive the request.
ReplyKeeping(w) == req' = [req EXCEPT ![w].step = "idle"]
Reply(w) == req' = [req EXCEPT ![w] = Idle]

Init ==
    /\ users = Users
    /\ tokens = [t \in TokenIds |-> Unborn]
    /\ issued = [t \in TokenIds |-> NULL]
    /\ req = [w \in Workers |-> Idle]

-----------------------------------------------------------------------------
(* login, and wortuser maketoken, which asks for no password               *)

BeginLogin(w) ==
    /\ Serve(w, "idle")
    /\ \E u \in Users, right \in BOOLEAN :
         req' = [req EXCEPT ![w] = [step |-> "find", user |-> u, password |-> right]]
    /\ UNCHANGED <<users, tokens, issued>>

\* wortuser maketoken runs in a process of its own.
BeginMakeToken(w) ==
    /\ Serve(w, "idle")
    /\ \E u \in Users :
         req' = [req EXCEPT ![w] = [step |-> "find", user |-> u, password |-> TRUE]]
    /\ UNCHANGED <<users, tokens, issued>>

FindUser(w) ==
    /\ Serve(w, "find")
    /\ IF req[w].user \in users /\ req[w].password
       THEN req' = [req EXCEPT ![w].step = "save"]
       ELSE Reply(w)                    \* ErrUserNotFound, or bcrypt's mismatch
    /\ UNCHANGED <<users, tokens, issued>>

\* Faulty: user_id has no foreign key.
SaveUnchecked(w) ==
    /\ Serve(w, "save")
    /\ Reply(w)
    /\ \E t \in TokenIds :
         /\ tokens[t] = Unborn
         /\ tokens' = [tokens EXCEPT ![t] = [user |-> req[w].user, expired |-> FALSE]]
         /\ issued' = [issued EXCEPT ![t] = req[w].user]
    /\ UNCHANGED users

\* A new token has no expires_at.  The foreign key refuses the row when the
\* user has gone since the password was compared.
SaveToken(w) ==
    /\ Serve(w, "save")
    /\ Reply(w)
    /\ \/ /\ req[w].user \in users
          /\ \E t \in TokenIds :
               /\ tokens[t] = Unborn
               /\ tokens' = [tokens EXCEPT ![t] = [user |-> req[w].user, expired |-> FALSE]]
               /\ issued' = [issued EXCEPT ![t] = req[w].user]
       \/ /\ req[w].user \notin users
          /\ UNCHANGED <<tokens, issued>>
    /\ UNCHANGED users

-----------------------------------------------------------------------------
(* The middleware in front of every handler                                *)

BeginRequest(w) ==
    /\ Serve(w, "idle")
    /\ \E h \in Header :
         req' = [req EXCEPT ![w] =
             [step |-> "lookup", header |-> h,
              revoked |-> h \in Token /\ tokens[h[1]] # Unborn /\ ~Usable(h[1]),
              user |-> NULL, failed |-> FALSE, logged |-> FALSE]]
    /\ UNCHANGED <<users, tokens, issued>>

\* newContextWithUser logs every error but ErrInvalidToken, and goes on without
\* a user after any.  fails: the database answers with an error.
Authenticate(w) ==
    /\ Serve(w, "lookup")
    /\ \E fails \in IF req[w].header \in Token THEN BOOLEAN ELSE {FALSE} :
         LET h == req[w].header
             err == TokenError(h, fails)
         IN req' = [req EXCEPT
                ![w].step = "serve",
                ![w].user = IF h \in Token /\ err = "none" THEN tokens[h[1]].user ELSE NULL,
                ![w].failed = fails,
                ![w].logged = err \notin {"none", "invalid"}]
    /\ UNCHANGED <<users, tokens, issued>>

\* NewLoginRequiredHandler or the resolver refuses a request without a user;
\* any other one is served, in as many statements as it takes, as req[w].user.
Respond(w) ==
    /\ Serve(w, "serve")
    /\ Reply(w)
    /\ UNCHANGED <<users, tokens, issued>>

\* A statement of a login fails, or the process ends under a request.
Abort(w) ==
    /\ Serve(w, "find") \/ Serve(w, "save") \/ Serve(w, "lookup")
    /\ Reply(w)
    /\ UNCHANGED <<users, tokens, issued>>

-----------------------------------------------------------------------------
(* Rows changed by an operator: the code never deletes or expires a token.  *)

\* Faulty: ON DELETE SET NULL leaves the token.
DeleteUserAlone(u) ==
    /\ u \in users
    /\ users' = users \ {u}
    /\ UNCHANGED <<tokens, issued, req>>

DeleteUser(u) ==
    /\ u \in users
    /\ users' = users \ {u}
    /\ tokens' = [t \in TokenIds |->
                    IF Issued(t) /\ tokens[t].user = u THEN Dead ELSE tokens[t]]
    /\ UNCHANGED <<issued, req>>

DeleteToken(t) ==
    /\ Issued(t)
    /\ tokens' = [tokens EXCEPT ![t] = Dead]
    /\ UNCHANGED <<users, issued, req>>

Expire(t) ==
    /\ Usable(t)
    /\ tokens' = [tokens EXCEPT ![t].expired = TRUE]
    /\ UNCHANGED <<users, issued, req>>

LoginStep(w) ==
    BeginLogin(w) \/ BeginMakeToken(w) \/ FindUser(w) \/ SaveToken(w)

ApiStep(w) ==
    BeginRequest(w) \/ Authenticate(w) \/ Respond(w)

Next ==
    \/ \E w \in Workers : LoginStep(w) \/ ApiStep(w) \/ Abort(w)
    \/ \E u \in Users : DeleteUser(u)
    \/ \E t \in TokenIds : DeleteToken(t) \/ Expire(t)

Spec == Init /\ [][Next]_vars

-----------------------------------------------------------------------------
(* Properties *)

\* Rows, history and local variables hold values of their types.
TypeOK ==
    /\ users \subseteq Users
    /\ tokens \in [TokenIds -> TokenRow \cup Absent]
    /\ issued \in [TokenIds -> Users \cup {NULL}]
    /\ req \in [Workers -> LoginRequest \cup ApiRequest \cup {Idle}]

\* A request acts as nobody but the user its token was made for, and only with
\* that token's own secret: also when the row, or the user, was deleted while
\* the request waited, and when a client pairs an id with another secret.
ActsAsIssued ==
    \A w \in Workers :
        Serve(w, "serve") /\ req[w].user # NULL =>
            \E t \in TokenIds :
                req[w].header = <<t, t>> /\ issued[t] = req[w].user

\* Revocation takes hold at once: a request that comes in after its token was
\* deleted or had expired, or after its user was deleted, acts as nobody.
RevokedActsAsNobody ==
    \A w \in Workers :
        Serve(w, "serve") /\ req[w].revoked => req[w].user = NULL

\* No token outlives its user, not even one that a login was about to save when
\* the user was deleted; and a token stays with the user it was made for.
TokensHaveUsers ==
    \A t \in TokenIds :
        Issued(t) => tokens[t].user \in users /\ tokens[t].user = issued[t]

\* The rights a token row stands for, and the right a request acts by: it is
\* told by the secret presented, not by the id.
Grants ==
    [t \in TokenIds |->
        IF tokens[t] = Unborn THEN Unborn
        ELSE IF Usable(t) THEN tokens[t].user ELSE Dead]

Acting ==
    [w \in Workers |->
        IF Serve(w, "serve") /\ req[w].user # NULL
        THEN [token |-> req[w].header[2], user |-> req[w].user]
        ELSE NULL]

Promise == INSTANCE Access WITH grant <- Grants, acting <- Acting

\* Logins, lookups, expiry and deletions, each a statement of its own, have the
\* effect of single steps on rights.
ImplementsAccess == Promise!Spec

\* "If it's no rows returned, then no big deal but anything else may need
\* handled or logged": a lookup that the database failed is logged.
FailuresLogged ==
    \A w \in Workers : Serve(w, "serve") /\ req[w].failed => req[w].logged
=============================================================================
