-------------------------- MODULE TechnitiumSession --------------------------
(***************************************************************************)
(* How a request to a Technitium DNS server is authorised: getApiToken and *)
(* technitiumRequest in server/src/services/technitium.ts.  A tenant may   *)
(* have a server of its own, but the session token is cached in one        *)
(* variable of the module, whichever connection it was obtained for.       *)
(*                                                                         *)
(* A call is a program counter over the awaits: resolving a secret, logging *)
(* in, sending the request.  The servers and the vault are external: they  *)
(* answer, refuse, or fail.                                                *)
(***************************************************************************)
CONSTANTS
  Call,         \* slots for the calls in flight
  Conn,         \* the connections: the platform's and the tenants'
  Server,
  ServerOf,     \* the server a connection leads to
  WithToken,    \* connections with a configured API token
  WithPassword, \* connections with a password, their own or the platform's
  Welcome       \* those of them whose password the server accepts

ASSUME ConnAssumption ==
  /\ Conn # {} /\ ServerOf \in [Conn -> Server]
  /\ WithToken \subseteq Conn /\ WithPassword \subseteq Conn
  /\ Welcome \subseteq WithPassword

VARIABLES
  cached,   \* cachedToken, until tokenExpiry
  valid,    \* the connections whose configured token is still accepted
  call      \* the calls

vars == <<cached, valid, call>>

\* A session is known by the server it was opened at, and is alive until that
\* server forgets it.
Token == [kind : {"none", "configured", "session"}, at : Server, alive : BOOLEAN]
SomeServer == CHOOSE s \in Server : TRUE
NoToken == [kind |-> "none", at |-> SomeServer, alive |-> FALSE]
Configured == [kind |-> "configured", at |-> SomeServer, alive |-> FALSE]
Session(s) == [kind |-> "session", at |-> s, alive |-> TRUE]

Outcome == {"none", "ok", "failed", "expired"}

\* again: opts.ignoreStaticToken; dropped: the server forgot the session the
\* call holds; outcome: how the last call of an idle slot ended.
Work == [pc : {"idle", "resolve", "login", "send"}, conn : Conn, again : BOOLEAN,
         token : Token, dropped : BOOLEAN, outcome : Outcome]

Idle == [pc |-> "idle", conn |-> CHOOSE k \in Conn : TRUE, again |-> FALSE,
         token |-> NoToken, dropped |-> FALSE, outcome |-> "none"]

TypeOK ==
  /\ cached \in Token
  /\ valid \subseteq WithToken
  /\ call \in [Call -> Work]

-----------------------------------------------------------------------------
Goto(c, w) == call' = [call EXCEPT ![c] = w]

Ended(w, outcome) == [w EXCEPT !.pc = "idle", !.token = NoToken, !.outcome = outcome]

Holding(w, token) == [w EXCEPT !.pc = "send", !.token = token, !.dropped = FALSE]

\* getApiToken without a configured token: the cached session, whoever opened
\* it, or a login.
GetSession(w, cache) ==
  IF cache # NoToken THEN Holding(w, cache)
  ELSE IF w.conn \in WithPassword THEN [w EXCEPT !.pc = "login", !.token = NoToken]
  ELSE Ended(w, "failed")

Start(c, k) ==
  /\ call[c].pc = "idle"
  /\ LET w == [Idle EXCEPT !.conn = k] IN
     Goto(c, IF k \in WithToken THEN [w EXCEPT !.pc = "resolve"] ELSE GetSession(w, cached))
  /\ UNCHANGED <<cached, valid>>

\* The vault resolves the configured token.
Resolved(c) ==
  /\ call[c].pc = "resolve"
  /\ Goto(c, Holding(call[c], Configured))
  /\ UNCHANGED <<cached, valid>>

\* Mutant of LoggedIn: an answer that bears no token is cached like one.
LoggedInUnchecked(c) ==
  /\ call[c].pc = "login"
  /\ call[c].conn \in Welcome
  /\ \E kind \in {"session", "undefined"} :
       cached' = [Session(ServerOf[call[c].conn]) EXCEPT !.kind = kind]
  /\ Goto(c, Holding(call[c], cached'))
  /\ UNCHANGED valid

\* The login answers with a token: the session is cached, for every connection.
LoggedIn(c) ==
  /\ call[c].pc = "login"
  /\ call[c].conn \in Welcome
  /\ cached' = Session(ServerOf[call[c].conn])
  /\ Goto(c, Holding(call[c], cached'))
  /\ UNCHANGED valid

\* A wrong password, no answer in time, no vault, any other error.
Fail(c) ==
  /\ call[c].pc # "idle"
  /\ Goto(c, Ended(call[c], "failed"))
  /\ UNCHANGED <<cached, valid>>

\* Does the server a call goes to accept the token it bears?
Accepted(w) ==
  CASE w.token.kind = "configured" -> w.conn \in valid
    [] w.token.kind = "session"    -> w.token.alive /\ w.token.at = ServerOf[w.conn]
    [] OTHER                       -> FALSE

Answered(c) ==
  /\ call[c].pc = "send"
  /\ Accepted(call[c])
  /\ Goto(c, Ended(call[c], "ok"))
  /\ UNCHANGED <<cached, valid>>

\* Mutant of Refused: tries again without clearing the cache.
RefusedCacheKept(c) ==
  /\ call[c].pc = "send"
  /\ ~ Accepted(call[c])
  /\ Goto(c, IF ~ call[c].again /\ call[c].conn \in WithPassword
             THEN GetSession([call[c] EXCEPT !.again = TRUE], cached)
             ELSE Ended(call[c], "expired"))
  /\ UNCHANGED <<cached, valid>>

\* invalid-token: clear the cache, whatever it holds by now, and try once more
\* with a session, or give up.
Refused(c) ==
  /\ call[c].pc = "send"
  /\ ~ Accepted(call[c])
  /\ cached' = NoToken
  /\ Goto(c, IF ~ call[c].again /\ call[c].conn \in WithPassword
             THEN GetSession([call[c] EXCEPT !.again = TRUE], cached')
             ELSE Ended(call[c], "expired"))
  /\ UNCHANGED valid

-----------------------------------------------------------------------------
(* Time and the servers.                                                   *)

\* tokenExpiry passes, a while before the server would end the session.
CacheExpires ==
  /\ cached # NoToken
  /\ cached' = NoToken
  /\ UNCHANGED <<valid, call>>

Dead(token, s) ==
  IF token.kind = "session" /\ token.at = s THEN [token EXCEPT !.alive = FALSE] ELSE token

\* A server is restarted and forgets its sessions.
Forget(s) ==
  /\ cached' = Dead(cached, s)
  /\ call' = [c \in Call |->
       [call[c] EXCEPT !.token = Dead(@, s),
                       !.dropped = @ \/ (call[c].token.kind = "session" /\ call[c].token.at = s)]]
  /\ UNCHANGED valid

\* A configured token is revoked at its server.
Revoke(k) ==
  /\ valid' = valid \ {k}
  /\ UNCHANGED <<cached, call>>

Init ==
  /\ cached = NoToken
  /\ valid = WithToken
  /\ call = [c \in Call |-> Idle]

Advance(c) == Resolved(c) \/ LoggedIn(c) \/ Fail(c) \/ Answered(c) \/ Refused(c)

Next ==
  \/ \E c \in Call, k \in Conn : Start(c, k)
  \/ \E c \in Call : Advance(c)
  \/ CacheExpires
  \/ \E s \in Server : Forget(s)
  \/ \E k \in valid : Revoke(k)

Spec == Init /\ [][Next]_vars

-----------------------------------------------------------------------------
(* Properties.                                                             *)

\* "A dead token not being an outage" (technitium.ts:213): where there is a
\* password a caller is told "session expired" only if the server forgot the
\* very session this call had just logged in for, however many connections
\* and calls replace and clear the one cached session meanwhile.
ExpiredOnlyIfDropped ==
  \A c \in Call :
    call[c].outcome = "expired" /\ call[c].conn \in WithPassword => call[c].dropped
=============================================================================
