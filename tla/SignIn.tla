------------------------------- MODULE SignIn --------------------------------
(***************************************************************************)
(* Who is signed in and what for: the sessions of server/src/auth.ts, the  *)
(* authorization-code flow of services/oidc.ts behind the /auth routes, the *)
(* browser's side of it in web/src (api.ts, main.tsx, App.tsx),             *)
(* and the tenant a request acts in (services/tenants.ts).                  *)
(*                                                                         *)
(* Sessions and pending flows live in maps of the one process: a restart   *)
(* loses them.  Group membership and the superuser flag are Authentik's,   *)
(* and are read once, when a session is made; the flag is a group here.    *)
(***************************************************************************)
EXTENDS Integers, FiniteSets

CONSTANTS
  Browser,
  User,         \* accounts at Authentik
  Slug,         \* tenant slugs, which are group names
  Platform,     \* what makes a platform administrator: the platform group, the flag
  Superuser,    \* the flag, which the local account has
  Default,      \* the slug of the default tenant
  LocalEnabled, \* BREAKGLASS_LOGIN
  MaxFlow,      \* bound: flows begun
  MaxToken      \* bound: sessions made

ASSUME SignInAssumption ==
  /\ Superuser \in Platform
  /\ Default \in Slug
  /\ LocalEnabled \in BOOLEAN
  /\ MaxFlow \in Nat /\ MaxToken \in Nat

VARIABLES
  tenants,   \* the slugs with a row
  member,    \* the groups of each account, at Authentik
  flows,     \* the map of pending flows, and what became of them
  exchange,  \* the callbacks that await Authentik
  sessions,  \* the map of sessions, by token in the order they are made
  browser,   \* the browsers
  grants     \* history: the requests admitted, as token and tenant

vars == <<tenants, member, flows, exchange, sessions, browser, grants>>

Flow == 1..MaxFlow
Token == 1..MaxToken
None == 0
Admin == "admin"
Group == Slug \cup Platform

\* used is history: how many sessions the flow was turned into.
FlowState == [state : {"unused", "pending", "stale", "gone"}, used : Nat]

Session == [state : {"unused", "live", "stale", "gone"},
            user : User \cup {Admin}, groups : SUBSET Group]
Unused == [state |-> "unused", user |-> Admin, groups |-> {}]

\* local: localStorage; cookie: the session cookie; authed: the state of App.
BrowserState == [local : Token \cup {None}, cookie : Token \cup {None}, authed : BOOLEAN]

TypeOK ==
  /\ Default \in tenants /\ tenants \subseteq Slug
  /\ member \in [User -> SUBSET Group]
  /\ flows \in [Flow -> FlowState]
  /\ exchange \subseteq (Browser \X {f \in Flow : flows[f].state = "gone"})
  /\ sessions \in [Token -> Session]
  /\ browser \in [Browser -> BrowserState]
  /\ grants \subseteq (Token \X Slug)

-----------------------------------------------------------------------------
(* Sessions.                                                               *)

\* The next session that is made.
Free(t) == sessions[t].state = "unused" /\ \A u \in 1..(t - 1) : sessions[u].state # "unused"

Made(t, user, groups) ==
  [sessions EXCEPT ![t] = [state |-> "live", user |-> user, groups |-> groups]]

\* Mutant of IsAuthed: the time of a session is not looked at.
IsAuthedForever(t) == t # None /\ sessions[t].state \in {"live", "stale"}

IsAuthed(t) == t # None /\ sessions[t].state = "live"

Forget(t) == [sessions EXCEPT ![t].state = "gone"]

\* A session looked at after its time is removed from the map.
LookedAt(t) ==
  IF t # None /\ sessions[t].state = "stale" THEN Forget(t) ELSE sessions

\* extractToken: the header is sent when there is a local token.
Sent(b) == IF browser[b].local # None THEN browser[b].local ELSE browser[b].cookie

SetBrowser(b, w) == browser' = [browser EXCEPT ![b] = w]

-----------------------------------------------------------------------------
(* Signing in.                                                             *)

\* The password, while break-glass login is on; the session has the superuser flag.
LocalLogin(b) ==
  /\ LocalEnabled /\ ~browser[b].authed
  /\ \E t \in Token :
       /\ Free(t)
       /\ sessions' = Made(t, Admin, {Superuser})
       /\ SetBrowser(b, [browser[b] EXCEPT !.local = t, !.authed = TRUE])
  /\ UNCHANGED <<tenants, member, flows, exchange, grants>>

\* GET /auth/oidc/authorize: a state of its own for each, signed in or not.
Authorize ==
  /\ \E f \in Flow :
       /\ flows[f].state = "unused" /\ \A g \in 1..(f - 1) : flows[g].state # "unused"
       /\ flows' = [flows EXCEPT ![f].state = "pending"]
  /\ UNCHANGED <<tenants, member, exchange, sessions, browser, grants>>

\* Mutant of Consumed: the state is left in the map for the exchange to use.
ConsumedLater(f) == flows

\* consumeState takes the entry out of the map before anything is awaited.
Consumed(f) ==
  IF flows[f].state \in {"pending", "stale"} THEN [flows EXCEPT ![f].state = "gone"] ELSE flows

\* GET /auth/oidc/callback: from whichever browser, and again, as on a reload.  A
\* state that is unknown or past its ten minutes is refused.
Callback(b, f) ==
  /\ flows' = Consumed(f)
  /\ exchange' = IF flows[f].state = "pending" THEN exchange \cup {<<b, f>>} ELSE exchange
  /\ UNCHANGED <<tenants, member, sessions, browser, grants>>

\* adoptCookieToken on boot: the cookie is moved to an empty local storage.
Booted(w) ==
  LET t == IF w.local = None THEN w.cookie ELSE w.local
      c == IF w.local = None THEN None ELSE w.cookie IN
  [w EXCEPT !.local = t, !.cookie = c, !.authed = t # None]

\* The code is exchanged and the groups are those of this moment.
Exchanged(b, f, u) ==
  /\ <<b, f>> \in exchange
  /\ exchange' = exchange \ {<<b, f>>}
  /\ flows' = [flows EXCEPT ![f].used = @ + 1]
  /\ \E t \in Token :
       /\ Free(t)
       /\ sessions' = Made(t, u, member[u])
       /\ SetBrowser(b, Booted([browser[b] EXCEPT !.cookie = t]))
  /\ UNCHANGED <<tenants, member, grants>>

\* Authentik refuses the code or is not reached: the flow has to begin again.
ExchangeFails(b, f) ==
  /\ <<b, f>> \in exchange
  /\ exchange' = exchange \ {<<b, f>>}
  /\ UNCHANGED <<tenants, member, flows, sessions, browser, grants>>

-----------------------------------------------------------------------------
(* Acting.                                                                 *)

\* By the groups of the session, as of its sign-in.
IsPlatformAdmin(s) == s.groups \cap Platform # {}

TenantsFor(s) == IF IsPlatformAdmin(s) THEN tenants ELSE tenants \cap s.groups

\* Mutant of Effective: the tenant of the header is taken if there is one.
EffectiveAny(s, header) ==
  IF header \in tenants THEN {header} ELSE TenantsFor(s)

\* effectiveTenant: that of the header if allowed; without one the default
\* tenant for an administrator, the first of their own for others.
Effective(s, header) ==
  IF header \in Slug THEN TenantsFor(s) \cap {header}
  ELSE IF IsPlatformAdmin(s) THEN {Default}
  ELSE TenantsFor(s)

\* On a 401 the page drops its local token and points to the login page; App
\* goes on until a reload.
Expelled(w) == [w EXCEPT !.local = None]

\* A request behind requireAuth and resolveTenant.
Request(b, header) ==
  /\ browser[b].authed
  /\ LET t == Sent(b) IN
     /\ sessions' = LookedAt(t)
     /\ IF IsAuthed(t)
        THEN /\ \/ \E s \in Effective(sessions[t], header) : grants' = grants \cup {<<t, s>>}
                \/ Effective(sessions[t], header) = {} /\ UNCHANGED grants
             /\ UNCHANGED browser
        ELSE /\ SetBrowser(b, Expelled(browser[b]))
             /\ UNCHANGED grants
  /\ UNCHANGED <<tenants, member, flows, exchange>>

\* POST /auth/logout ends the session that was sent and clears the cookie; a
\* session that had ended already is a 401, and the cookie stays.
Logout(b) ==
  /\ browser[b].authed
  /\ LET t == Sent(b) IN
     /\ sessions' = IF IsAuthed(t) THEN Forget(t) ELSE LookedAt(t)
     /\ SetBrowser(b, [Expelled(browser[b]) EXCEPT !.authed = FALSE,
                                                   !.cookie = IF IsAuthed(t) THEN None ELSE @])
  /\ UNCHANGED <<tenants, member, flows, exchange, grants>>

Reload(b) ==
  /\ SetBrowser(b, Booted(browser[b]))
  /\ UNCHANGED <<tenants, member, flows, exchange, sessions, grants>>

-----------------------------------------------------------------------------
(* Around them.                                                            *)

CreateTenant(s) ==
  /\ s \notin tenants
  /\ tenants' = tenants \cup {s}
  /\ UNCHANGED <<member, flows, exchange, sessions, browser, grants>>

\* An account joins or leaves a group at Authentik.
Regroup(u, g) ==
  /\ member' = [member EXCEPT ![u] = IF g \in @ THEN @ \ {g} ELSE @ \cup {g}]
  /\ UNCHANGED <<tenants, flows, exchange, sessions, browser, grants>>

\* The ten minutes of a state, or the hours of a session and its cookie, pass.
FlowTimesOut(f) ==
  /\ flows[f].state = "pending"
  /\ flows' = [flows EXCEPT ![f].state = "stale"]
  /\ UNCHANGED <<tenants, member, exchange, sessions, browser, grants>>

SessionTimesOut(t) ==
  /\ sessions[t].state = "live"
  /\ sessions' = [sessions EXCEPT ![t].state = "stale"]
  /\ browser' = [b \in Browser |-> IF browser[b].cookie = t
                                   THEN [browser[b] EXCEPT !.cookie = None] ELSE browser[b]]
  /\ UNCHANGED <<tenants, member, flows, exchange, grants>>

Gone(x) == IF x.state = "unused" THEN x ELSE [x EXCEPT !.state = "gone"]

Restart ==
  /\ flows' = [f \in Flow |-> Gone(flows[f])]
  /\ sessions' = [t \in Token |-> Gone(sessions[t])]
  /\ exchange' = {}
  /\ UNCHANGED <<tenants, member, browser, grants>>

Init ==
  /\ tenants = {Default}
  /\ member \in [User -> SUBSET Group]
  /\ flows = [f \in Flow |-> [state |-> "unused", used |-> 0]]
  /\ exchange = {} /\ grants = {}
  /\ sessions = [t \in Token |-> Unused]
  /\ browser = [b \in Browser |-> [local |-> None, cookie |-> None, authed |-> FALSE]]

Next ==
  \/ Authorize
  \/ \E b \in Browser :
       \/ LocalLogin(b) \/ Logout(b) \/ Reload(b)
       \/ \E header \in Slug \cup {"none"} : Request(b, header)
       \/ \E f \in Flow : Callback(b, f) \/ ExchangeFails(b, f)
       \/ \E f \in Flow, u \in User : Exchanged(b, f, u)
  \/ \E s \in Slug : CreateTenant(s)
  \/ \E u \in User, g \in Group : Regroup(u, g)
  \/ \E f \in Flow : FlowTimesOut(f)
  \/ \E t \in Token : SessionTimesOut(t)
  \/ Restart

Spec == Init /\ [][Next]_vars

-----------------------------------------------------------------------------
\* A flow is turned into one session at most, however often its callback is
\* sent and however the exchanges overlap.
StateOnce == \A f \in Flow : flows[f].used <= 1

\* A request acts in a tenant only on a session whose account was in the
\* tenant's group, or a platform administrator, when it signed in.
TenantByMembership ==
  \A g \in grants : LET s == sessions[g[1]] IN IsPlatformAdmin(s) \/ g[2] \in s.groups

\* No request is admitted on a session that was ended, timed out or lost in a
\* restart: what a session was granted stays as it was.
EndedStaysEnded ==
  [][\A t \in Token : sessions[t].state \in {"stale", "gone"} =>
       /\ sessions'[t].state \in {"stale", "gone"}
       /\ \A s \in Slug : <<t, s>> \in grants' => <<t, s>> \in grants]_vars

-----------------------------------------------------------------------------
\* How sign-in looks to Admission: an invitation is open while its state is in the
\* map, and while a callback that took it out awaits Authentik.
BegunFlows == {f \in Flow : flows[f].state # "unused"}
OpenFlows ==
  {f \in Flow : flows[f].state = "pending" \/ \E b \in Browser : <<b, f>> \in exchange}
MadeTokens == {t \in Token : sessions[t].state # "unused"}
Holder(t) == [token |-> t, account |-> sessions[t].user, groups |-> sessions[t].groups]
Holders == {Holder(t) : t \in MadeTokens}
EndedTokens == {t \in Token : sessions[t].state \in {"stale", "gone"}}

Admitting == INSTANCE Admission WITH
  Invitation <- Flow, Account <- User, Keeper <- IF LocalEnabled THEN {Admin} ELSE {},
  Everywhere <- Platform, Given <- {Superuser}, Tenant <- Slug,
  begun <- BegunFlows, open <- OpenFlows, made <- Holders,
  ended <- EndedTokens, granted <- grants

\* Browsers that repeat callbacks, exchanges that overlap, states and sessions that
\* lapse unnoticed and restarts behave like the atomic sign-ins of Admission: an
\* invitation makes one session, with the groups of that moment, and only a session
\* that has not ended acts, in a tenant it was made for.
AdmissionSpec == Admitting!Spec
=============================================================================
