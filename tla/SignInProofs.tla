----------------------------- MODULE SignInProofs -----------------------------
(***************************************************************************)
(* Theorems about SignIn, for any browsers, accounts, tenants and number   *)
(* of flows and sessions, and that it implements Admission.                *)
(***************************************************************************)
EXTENDS SignIn, TLAPS

\* A flow that awaits Authentik has left the map, was not turned into a session
\* yet and has one callback only: the entry is consumed before the await.
FlowsInv ==
  /\ flows \in [Flow -> FlowState]
  /\ exchange \subseteq Browser \X Flow
  /\ \A f \in Flow : flows[f].used = 0 \/ (flows[f].used = 1 /\ flows[f].state = "gone")
  /\ \A b \in Browser, f \in Flow :
       <<b, f>> \in exchange => flows[f].state = "gone" /\ flows[f].used = 0
  /\ \A b, c \in Browser, f \in Flow :
       <<b, f>> \in exchange /\ <<c, f>> \in exchange => b = c

\* Only sessions that were made admit requests, each for tenants of its own.
SessionsInv ==
  /\ tenants \subseteq Slug /\ Default \in tenants
  /\ member \in [User -> SUBSET Group]
  /\ sessions \in [Token -> Session]
  /\ grants \subseteq Token \X Slug
  /\ \A t \in Token, s \in Slug : <<t, s>> \in grants =>
       /\ sessions[t].state # "unused"
       /\ IsPlatformAdmin(sessions[t]) \/ s \in sessions[t].groups

BrowsersInv == browser \in [Browser -> BrowserState]

-----------------------------------------------------------------------------
(* Flows.                                                                  *)

\* What a step does to one flow when it awaits nothing new.
LEMMA FlowUpdated ==
  ASSUME FlowsInv, NEW f \in Flow, NEW x \in FlowState,
         flows' = [flows EXCEPT ![f] = x], exchange' \subseteq exchange,
         x.used = 0 \/ (x.used = 1 /\ x.state = "gone"),
         \A b \in Browser : <<b, f>> \in exchange' => x.state = "gone" /\ x.used = 0
  PROVE  FlowsInv'
BY DEF FlowsInv

\* A flow that changes its place in the map is still a flow.
LEMMA MovedFlow ==
  ASSUME NEW x \in FlowState, NEW s \in {"unused", "pending", "stale", "gone"}
  PROVE  /\ [x EXCEPT !.state = s] \in FlowState
         /\ [x EXCEPT !.state = s].state = s /\ [x EXCEPT !.state = s].used = x.used
BY DEF FlowState

LEMMA UsedFlow ==
  ASSUME NEW x \in FlowState, x.used = 0
  PROVE  /\ [x EXCEPT !.used = @ + 1] \in FlowState
         /\ [x EXCEPT !.used = @ + 1].used = 1 /\ [x EXCEPT !.used = @ + 1].state = x.state
BY DEF FlowState

LEMMA FlowsInit == Init => FlowsInv
BY DEF Init, FlowsInv, FlowState

LEMMA FlowsNext == FlowsInv /\ BrowsersInv /\ [Next]_vars => FlowsInv'
<1> SUFFICES ASSUME FlowsInv, BrowsersInv, [Next]_vars PROVE FlowsInv'
  OBVIOUS
<1>0. \A f \in Flow : flows[f] \in FlowState
  BY DEF FlowsInv
<1>1. CASE Authorize
  <2>1. PICK f \in Flow : /\ flows[f].state = "unused"
                          /\ flows' = [flows EXCEPT ![f].state = "pending"]
    BY <1>1 DEF Authorize
  <2> DEFINE x == [flows[f] EXCEPT !.state = "pending"]
  <2>2. x \in FlowState /\ x.used = flows[f].used
    BY <1>0, MovedFlow
  <2>3. flows' = [flows EXCEPT ![f] = x] /\ exchange' = exchange
    BY <1>1, <2>1 DEF Authorize
  <2>4. flows[f].used = 0 /\ \A c \in Browser : <<c, f>> \notin exchange
    BY <2>1 DEF FlowsInv
  <2> HIDE DEF x
  <2>5. QED
    BY <2>2, <2>3, <2>4, FlowUpdated
<1>2. ASSUME NEW b \in Browser, NEW f \in Flow, Callback(b, f) PROVE FlowsInv'
  <2> DEFINE x == [flows[f] EXCEPT !.state = "gone"]
  <2>2. x \in FlowState /\ x.used = flows[f].used /\ x.state = "gone"
    BY <1>0, MovedFlow
  <2>3. CASE flows[f].state = "pending"
    <3>1. flows' = [flows EXCEPT ![f] = x] /\ exchange' = exchange \cup {<<b, f>>}
      BY <1>2, <2>3 DEF Callback, Consumed
    <3>2. flows[f].used = 0 /\ \A c \in Browser : <<c, f>> \notin exchange
      BY <2>3 DEF FlowsInv
    <3> HIDE DEF x
    <3>3. QED
      BY <2>2, <3>1, <3>2 DEF FlowsInv
  <2>4. CASE flows[f].state = "stale"
    <3>1. flows' = [flows EXCEPT ![f] = x] /\ exchange' = exchange
      BY <1>2, <2>4 DEF Callback, Consumed
    <3>2. flows[f].used = 0 /\ \A c \in Browser : <<c, f>> \notin exchange
      BY <2>4 DEF FlowsInv
    <3> HIDE DEF x
    <3>3. QED
      BY <2>2, <3>1, <3>2, FlowUpdated
  <2>5. CASE flows[f].state \notin {"pending", "stale"}
    BY <1>2, <2>5 DEF Callback, Consumed, FlowsInv
  <2>6. QED
    BY <2>3, <2>4, <2>5
<1>3. ASSUME NEW b \in Browser, NEW f \in Flow, NEW u \in User, Exchanged(b, f, u)
      PROVE  FlowsInv'
  <2> DEFINE x == [flows[f] EXCEPT !.used = @ + 1]
  <2>1. /\ <<b, f>> \in exchange /\ flows' = [flows EXCEPT ![f] = x]
        /\ exchange' = exchange \ {<<b, f>>}
    BY <1>3 DEF Exchanged
  <2>2. flows[f].used = 0 /\ flows[f].state = "gone"
    BY <2>1 DEF FlowsInv
  <2>3. x \in FlowState /\ x.used = 1 /\ x.state = "gone"
    BY <1>0, <2>2, UsedFlow
  \* No other callback awaits Authentik on this flow.
  <2>4. \A c \in Browser : <<c, f>> \notin exchange'
    BY <2>1 DEF FlowsInv
  <2> HIDE DEF x
  <2>5. QED
    BY <2>1, <2>3, <2>4, FlowUpdated
<1>4. ASSUME NEW b \in Browser, NEW f \in Flow, ExchangeFails(b, f) PROVE FlowsInv'
  BY <1>4 DEF ExchangeFails, FlowsInv
<1>5. ASSUME NEW f \in Flow, FlowTimesOut(f) PROVE FlowsInv'
  <2> DEFINE x == [flows[f] EXCEPT !.state = "stale"]
  <2>1. /\ flows[f].state = "pending" /\ flows' = [flows EXCEPT ![f] = x]
        /\ exchange' = exchange
    BY <1>5 DEF FlowTimesOut
  <2>2. x \in FlowState /\ x.used = flows[f].used
    BY <1>0, MovedFlow
  <2>3. flows[f].used = 0 /\ \A c \in Browser : <<c, f>> \notin exchange
    BY <2>1 DEF FlowsInv
  <2> HIDE DEF x
  <2>4. QED
    BY <2>1, <2>2, <2>3, FlowUpdated
<1>6. CASE Restart
  <2>1. flows' = [f \in Flow |-> Gone(flows[f])] /\ exchange' = {}
    BY <1>6 DEF Restart
  <2>2. ASSUME NEW f \in Flow
        PROVE  /\ Gone(flows[f]) \in FlowState /\ Gone(flows[f]).used = flows[f].used
               /\ flows[f].used = 0 \/ Gone(flows[f]).state = "gone"
    BY <1>0, MovedFlow DEF Gone, FlowsInv
  <2>3. QED
    BY <2>1, <2>2 DEF FlowsInv
<1>7. ASSUME UNCHANGED <<flows, exchange>> PROVE FlowsInv'
  BY <1>7 DEF FlowsInv
<1>8. QED
  BY <1>1, <1>2, <1>3, <1>4, <1>5, <1>6, <1>7
  DEF Next, vars, LocalLogin, Logout, Reload, Request, CreateTenant, Regroup,
      SessionTimesOut

-----------------------------------------------------------------------------
(* Browsers.                                                               *)

LEMMA BootedBrowser == ASSUME NEW w \in BrowserState PROVE Booted(w) \in BrowserState
BY DEF Booted, BrowserState

LEMMA BrowserSet ==
  ASSUME BrowsersInv, NEW b \in Browser, NEW w \in BrowserState, SetBrowser(b, w)
  PROVE  BrowsersInv'
BY DEF BrowsersInv, SetBrowser

LEMMA BrowsersInit == Init => BrowsersInv
BY DEF Init, BrowsersInv, BrowserState

LEMMA BrowsersNext == BrowsersInv /\ [Next]_vars => BrowsersInv'
<1> SUFFICES ASSUME BrowsersInv, [Next]_vars PROVE BrowsersInv'
  OBVIOUS
<1>0. \A b \in Browser : browser[b] \in BrowserState
  BY DEF BrowsersInv
<1>1. ASSUME NEW b \in Browser, LocalLogin(b) PROVE BrowsersInv'
  <2>1. PICK t \in Token : SetBrowser(b, [browser[b] EXCEPT !.local = t, !.authed = TRUE])
    BY <1>1 DEF LocalLogin
  <2>2. [browser[b] EXCEPT !.local = t, !.authed = TRUE] \in BrowserState
    BY <1>0 DEF BrowserState
  <2>3. QED
    BY <2>1, <2>2, BrowserSet
<1>2. ASSUME NEW b \in Browser, NEW f \in Flow, NEW u \in User, Exchanged(b, f, u)
      PROVE  BrowsersInv'
  <2>1. PICK t \in Token : SetBrowser(b, Booted([browser[b] EXCEPT !.cookie = t]))
    BY <1>2 DEF Exchanged
  <2>2. [browser[b] EXCEPT !.cookie = t] \in BrowserState
    BY <1>0 DEF BrowserState
  <2>3. QED
    BY <2>1, <2>2, BootedBrowser, BrowserSet
<1>3. ASSUME NEW b \in Browser, Reload(b) PROVE BrowsersInv'
  BY <1>0, <1>3, BootedBrowser, BrowserSet DEF Reload
<1>4. ASSUME NEW b \in Browser, Logout(b) PROVE BrowsersInv'
  <2> DEFINE w(c) == [Expelled(browser[b]) EXCEPT !.authed = FALSE, !.cookie = c]
  <2>1. ASSUME NEW c \in Token \cup {None} PROVE w(c) \in BrowserState
    BY <1>0 DEF Expelled, BrowserState
  <2>2. w(None) \in BrowserState /\ w(Expelled(browser[b]).cookie) \in BrowserState
    <3>1. Expelled(browser[b]).cookie \in Token \cup {None}
      BY <1>0 DEF Expelled, BrowserState
    <3>2. QED
      BY <2>1, <3>1
  <2>3. SetBrowser(b, w(IF IsAuthed(Sent(b)) THEN None ELSE Expelled(browser[b]).cookie))
    BY <1>4 DEF Logout
  <2> HIDE DEF w
  <2>4. QED
    BY <2>2, <2>3, BrowserSet
<1>5. ASSUME NEW b \in Browser, NEW h, Request(b, h) PROVE BrowsersInv'
  <2>1. Expelled(browser[b]) \in BrowserState
    BY <1>0 DEF Expelled, BrowserState
  <2>2. browser' = browser \/ SetBrowser(b, Expelled(browser[b]))
    BY <1>5 DEF Request
  <2>3. QED
    BY <2>1, <2>2, BrowserSet DEF BrowsersInv
<1>6. ASSUME NEW t \in Token, SessionTimesOut(t) PROVE BrowsersInv'
  <2>1. ASSUME NEW b \in Browser PROVE [browser[b] EXCEPT !.cookie = None] \in BrowserState
    BY <1>0 DEF BrowserState
  <2>2. browser' = [b \in Browser |-> IF browser[b].cookie = t
                                      THEN [browser[b] EXCEPT !.cookie = None] ELSE browser[b]]
    BY <1>6 DEF SessionTimesOut
  <2>3. QED
    BY <1>0, <2>1, <2>2 DEF BrowsersInv
<1>7. ASSUME UNCHANGED browser PROVE BrowsersInv'
  BY <1>7 DEF BrowsersInv
<1>8. QED
  BY <1>1, <1>2, <1>3, <1>4, <1>5, <1>6, <1>7
  DEF Next, vars, Authorize, Callback, ExchangeFails, CreateTenant, Regroup, FlowTimesOut, Restart

-----------------------------------------------------------------------------
(* Sessions.                                                               *)

\* A session that goes on with its account and groups, and was made already.
SameHolder(x, y) ==
  x.user = y.user /\ x.groups = y.groups /\ (y.state # "unused" => x.state # "unused")

LEMMA MovedSession ==
  ASSUME NEW x \in Session, NEW s \in {"live", "stale", "gone"}
  PROVE  /\ [x EXCEPT !.state = s] \in Session /\ SameHolder([x EXCEPT !.state = s], x)
         /\ [x EXCEPT !.state = s].state = s
BY DEF Session, SameHolder

\* Sessions that only move on keep what they were granted.
LEMMA SessionsMove ==
  ASSUME SessionsInv, UNCHANGED <<member, grants>>, tenants' = tenants,
         sessions' \in [Token -> Session],
         \A t \in Token : SameHolder(sessions'[t], sessions[t])
  PROVE  SessionsInv'
BY DEF SessionsInv, SameHolder, IsPlatformAdmin

\* A session is made for a token nothing was granted to.
LEMMA SessionMade ==
  ASSUME SessionsInv, UNCHANGED <<tenants, member, grants>>,
         NEW t \in Token, Free(t), NEW x \in Session, x.state = "live",
         sessions' = [sessions EXCEPT ![t] = x]
  PROVE  SessionsInv'
<1>1. \A s \in Slug : <<t, s>> \notin grants
  BY DEF SessionsInv, Free
<1>2. QED
  BY <1>1 DEF SessionsInv, IsPlatformAdmin

LEMMA LookedAtMoves ==
  ASSUME SessionsInv, NEW t \in Token \cup {None}
  PROVE  /\ LookedAt(t) \in [Token -> Session]
         /\ \A u \in Token : /\ SameHolder(LookedAt(t)[u], sessions[u])
                             /\ sessions[u].state = "live" => LookedAt(t)[u] = sessions[u]
                             /\ sessions[u].state \in {"stale", "gone"}
                                  => LookedAt(t)[u].state \in {"stale", "gone"}
<1>1. CASE t # None /\ sessions[t].state = "stale"
  <2> DEFINE x == [sessions[t] EXCEPT !.state = "gone"]
  <2>1. x \in Session /\ SameHolder(x, sessions[t]) /\ x.state = "gone"
    BY <1>1, MovedSession DEF SessionsInv
  <2>2. LookedAt(t) = [sessions EXCEPT ![t] = x]
    BY <1>1 DEF LookedAt, Forget
  <2> HIDE DEF x
  <2>3. QED
    BY <1>1, <2>1, <2>2 DEF SessionsInv, SameHolder
<1>2. CASE ~(t # None /\ sessions[t].state = "stale")
  <2>1. LookedAt(t) = sessions
    BY <1>2 DEF LookedAt
  <2>2. QED
    BY <2>1 DEF SessionsInv, SameHolder
<1>3. QED
  BY <1>1, <1>2

\* What a session may act in is a tenant of its groups, or any for an
\* administrator.
LEMMA EffectiveIsOwn ==
  ASSUME SessionsInv, NEW x \in Session, NEW header, NEW s \in Effective(x, header)
  PROVE  s \in Slug /\ (IsPlatformAdmin(x) \/ s \in x.groups)
BY SignInAssumption DEF Effective, TenantsFor, SessionsInv

LEMMA SentToken ==
  ASSUME BrowsersInv, NEW b \in Browser PROVE Sent(b) \in Token \cup {None}
BY DEF BrowsersInv, BrowserState, Sent

\* A request is granted a tenant only on a live session, and only of its own.
LEMMA RequestGrants ==
  ASSUME SessionsInv, BrowsersInv, NEW b \in Browser, NEW header, Request(b, header)
  PROVE  \/ UNCHANGED grants
         \/ \E t \in Token, s \in Slug :
              /\ grants' = grants \cup {<<t, s>>} /\ sessions[t].state = "live"
              /\ IsPlatformAdmin(sessions[t]) \/ s \in sessions[t].groups
<1> DEFINE t == Sent(b)
<1>1. CASE IsAuthed(t)
  <2>1. t \in Token /\ sessions[t].state = "live"
    BY <1>1, SentToken DEF IsAuthed
  <2>2. sessions[t] \in Session
    BY <2>1 DEF SessionsInv
  <2>3. \/ \E s \in Effective(sessions[t], header) : grants' = grants \cup {<<t, s>>}
        \/ UNCHANGED grants
    BY <1>1 DEF Request
  <2>4. QED
    BY <2>1, <2>2, <2>3, EffectiveIsOwn
<1>2. CASE ~IsAuthed(t)
  BY <1>2 DEF Request
<1>3. QED
  BY <1>1, <1>2

LEMMA SessionsInit == Init => SessionsInv
BY SignInAssumption DEF Init, SessionsInv, Unused, Session, Admin

\* What a step does to the sessions and to what they are granted.
LEMMA SessionsNext ==
  SessionsInv /\ BrowsersInv /\ [Next]_vars =>
    /\ SessionsInv'
    /\ \A t \in Token : sessions[t].state \in {"stale", "gone"} =>
         /\ sessions'[t].state \in {"stale", "gone"}
         /\ \A s \in Slug : <<t, s>> \in grants' => <<t, s>> \in grants
<1> DEFINE Stays == \A t \in Token : sessions[t].state \in {"stale", "gone"} =>
                      /\ sessions'[t].state \in {"stale", "gone"}
                      /\ \A s \in Slug : <<t, s>> \in grants' => <<t, s>> \in grants
<1> SUFFICES ASSUME SessionsInv, BrowsersInv, [Next]_vars PROVE SessionsInv' /\ Stays
  OBVIOUS
<1>0. \A t \in Token : sessions[t] \in Session
  BY DEF SessionsInv
<1>1. ASSUME NEW u \in User \cup {Admin}, NEW groups \in SUBSET Group, NEW t \in Token,
             Free(t), sessions' = Made(t, u, groups), UNCHANGED <<tenants, member, grants>>
      PROVE  SessionsInv' /\ Stays
  <2> DEFINE x == [state |-> "live", user |-> u, groups |-> groups]
  <2>1. x \in Session /\ x.state = "live"
    BY DEF Session
  <2>2. sessions' = [sessions EXCEPT ![t] = x]
    BY <1>1 DEF Made
  <2> HIDE DEF x
  <2>3. SessionsInv'
    BY <1>1, <2>1, <2>2, SessionMade
  <2>4. Stays
    BY <1>1, <2>1, <2>2 DEF SessionsInv, Free
  <2>5. QED
    BY <2>3, <2>4
<1>2. ASSUME NEW b \in Browser, LocalLogin(b) PROVE SessionsInv' /\ Stays
  <2>1. PICK t \in Token : Free(t) /\ sessions' = Made(t, Admin, {Superuser})
    BY <1>2 DEF LocalLogin
  <2>2. {Superuser} \in SUBSET Group
    BY SignInAssumption DEF Group
  <2>3. QED
    BY <1>1, <1>2, <2>1, <2>2 DEF LocalLogin
<1>3. ASSUME NEW b \in Browser, NEW f \in Flow, NEW u \in User, Exchanged(b, f, u)
      PROVE  SessionsInv' /\ Stays
  <2>1. PICK t \in Token : Free(t) /\ sessions' = Made(t, u, member[u])
    BY <1>3 DEF Exchanged
  <2>2. member[u] \in SUBSET Group
    BY DEF SessionsInv
  <2>3. QED
    BY <1>1, <1>3, <2>1, <2>2 DEF Exchanged
<1>4. ASSUME NEW b \in Browser, NEW h, Request(b, h) PROVE SessionsInv' /\ Stays
  <2>1. sessions' = LookedAt(Sent(b)) /\ UNCHANGED <<tenants, member>>
    BY <1>4 DEF Request
  <2>2. /\ sessions' \in [Token -> Session]
        /\ \A t \in Token : /\ SameHolder(sessions'[t], sessions[t])
                            /\ sessions[t].state = "live" => sessions'[t] = sessions[t]
                            /\ sessions[t].state \in {"stale", "gone"}
                                 => sessions'[t].state \in {"stale", "gone"}
    BY <2>1, SentToken, LookedAtMoves
  <2>3. CASE UNCHANGED grants
    BY <2>1, <2>2, <2>3, SessionsMove
  <2>4. ASSUME NEW t \in Token, NEW s \in Slug, sessions[t].state = "live",
               grants' = grants \cup {<<t, s>>},
               IsPlatformAdmin(sessions[t]) \/ s \in sessions[t].groups
        PROVE  SessionsInv' /\ Stays
    <3>1. sessions'[t] = sessions[t]
      BY <2>2, <2>4
    <3>2. Stays
      BY <2>2, <2>4
    <3>3. SessionsInv'
      BY <2>1, <2>2, <2>4, <3>1 DEF SessionsInv, SameHolder, IsPlatformAdmin
    <3>4. QED
      BY <3>2, <3>3
  <2>5. QED
    BY <1>4, <2>3, <2>4, RequestGrants
<1>5. ASSUME NEW b \in Browser, Logout(b) PROVE SessionsInv' /\ Stays
  <2>1. UNCHANGED <<tenants, member, grants>>
    BY <1>5 DEF Logout
  <2>2. CASE IsAuthed(Sent(b))
    <3> DEFINE t == Sent(b)
               x == [sessions[t] EXCEPT !.state = "gone"]
    <3>1. t \in Token /\ sessions' = [sessions EXCEPT ![t] = x]
      BY <1>5, <2>2, SentToken DEF Logout, Forget, IsAuthed
    <3>2. x \in Session /\ SameHolder(x, sessions[t]) /\ x.state = "gone"
      BY <1>0, <3>1, MovedSession
    <3> HIDE DEF x, t
    <3>3. /\ sessions' \in [Token -> Session]
          /\ \A u \in Token : SameHolder(sessions'[u], sessions[u])
      BY <3>1, <3>2 DEF SessionsInv, SameHolder
    <3>4. SessionsInv'
      BY <2>1, <3>3, SessionsMove
    <3>5. Stays
      BY <2>1, <3>1, <3>2 DEF SessionsInv
    <3>6. QED
      BY <3>4, <3>5
  <2>3. CASE ~IsAuthed(Sent(b))
    <3>1. sessions' = LookedAt(Sent(b))
      BY <1>5, <2>3 DEF Logout
    <3>2. QED
      BY <2>1, <3>1, SentToken, LookedAtMoves, SessionsMove
  <2>4. QED
    BY <2>2, <2>3
<1>6. ASSUME NEW t \in Token, SessionTimesOut(t) PROVE SessionsInv' /\ Stays
  <2> DEFINE x == [sessions[t] EXCEPT !.state = "stale"]
  <2>1. sessions' = [sessions EXCEPT ![t] = x] /\ UNCHANGED <<tenants, member, grants>>
    BY <1>6 DEF SessionTimesOut
  <2>2. x \in Session /\ SameHolder(x, sessions[t]) /\ x.state = "stale"
    BY <1>0, MovedSession
  <2> HIDE DEF x
  <2>3. /\ sessions' \in [Token -> Session]
        /\ \A u \in Token : SameHolder(sessions'[u], sessions[u])
    BY <2>1, <2>2 DEF SessionsInv, SameHolder
  <2>4. SessionsInv'
    BY <2>1, <2>3, SessionsMove
  <2>5. Stays
    BY <2>1, <2>2 DEF SessionsInv
  <2>6. QED
    BY <2>4, <2>5
<1>7. CASE Restart
  <2>1. /\ sessions' = [t \in Token |-> Gone(sessions[t])]
        /\ UNCHANGED <<tenants, member, grants>>
    BY <1>7 DEF Restart
  <2>2. \A t \in Token : /\ Gone(sessions[t]) \in Session
                         /\ SameHolder(Gone(sessions[t]), sessions[t])
                         /\ sessions[t].state # "unused" => Gone(sessions[t]).state = "gone"
    BY <1>0, MovedSession DEF Gone, SameHolder
  <2>3. SessionsInv'
    BY <2>1, <2>2, SessionsMove
  <2>4. Stays
    BY <2>1, <2>2
  <2>5. QED
    BY <2>3, <2>4
<1>8. ASSUME NEW s \in Slug, CreateTenant(s) PROVE SessionsInv' /\ Stays
  BY <1>8 DEF CreateTenant, SessionsInv, IsPlatformAdmin
<1>9. ASSUME NEW g \in Group, NEW u \in User, Regroup(u, g) PROVE SessionsInv' /\ Stays
  <2>1. member' \in [User -> SUBSET Group] /\ UNCHANGED <<tenants, sessions, grants>>
    BY <1>9 DEF Regroup, SessionsInv
  <2>2. QED
    BY <2>1 DEF SessionsInv, IsPlatformAdmin
<1>10. ASSUME UNCHANGED <<tenants, member, sessions, grants>> PROVE SessionsInv' /\ Stays
  BY <1>10 DEF SessionsInv, IsPlatformAdmin
<1>11. QED
  BY <1>2, <1>3, <1>4, <1>5, <1>6, <1>7, <1>8, <1>9, <1>10
  DEF Next, vars, Authorize, Callback, ExchangeFails, Reload, FlowTimesOut

-----------------------------------------------------------------------------
IInv == FlowsInv /\ BrowsersInv /\ SessionsInv

LEMMA Invariance == Spec => []IInv
<1>1. Init => IInv
  BY FlowsInit, BrowsersInit, SessionsInit DEF IInv
<1>2. IInv /\ [Next]_vars => IInv'
  BY FlowsNext, BrowsersNext, SessionsNext DEF IInv
<1>3. QED
  BY <1>1, <1>2, PTL DEF Spec

\* Every reachable state is well typed.
THEOREM TypeCorrect == Spec => []TypeOK
<1>1. IInv => TypeOK
  BY DEF IInv, FlowsInv, BrowsersInv, SessionsInv, TypeOK
<1>2. QED
  BY <1>1, Invariance, PTL

\* A state is good for one session, whatever callbacks repeat or overlap: it
\* leaves the map before anything is awaited.
THEOREM StatesOnce == Spec => []StateOnce
<1>1. IInv => StateOnce
  BY DEF IInv, FlowsInv, StateOnce
<1>2. QED
  BY <1>1, Invariance, PTL

\* A request acts only in a tenant its session was signed in for.
THEOREM TenantsByMembership == Spec => []TenantByMembership
<1>1. IInv => TenantByMembership
  BY DEF IInv, SessionsInv, TenantByMembership
<1>2. QED
  BY <1>1, Invariance, PTL

\* A session that ended is granted nothing any more and never comes back.
THEOREM SessionsStayEnded == Spec => EndedStaysEnded
<1>1. IInv /\ [Next]_vars =>
        [\A t \in Token : sessions[t].state \in {"stale", "gone"} =>
           /\ sessions'[t].state \in {"stale", "gone"}
           /\ \A s \in Slug : <<t, s>> \in grants' => <<t, s>> \in grants]_vars
  BY SessionsNext DEF IInv
<1>2. QED
  BY <1>1, Invariance, PTL DEF Spec, EndedStaysEnded

-----------------------------------------------------------------------------
(* The refinement.                                                         *)

LEMMA FlowsUnseen ==
  ASSUME UNCHANGED <<flows, exchange>> PROVE UNCHANGED BegunFlows /\ UNCHANGED OpenFlows
BY DEF BegunFlows, OpenFlows

\* Sessions that keep their accounts and groups are the sessions there were.
LEMMA HoldersStay ==
  ASSUME \A t \in Token : /\ SameHolder(sessions'[t], sessions[t])
                          /\ sessions[t].state = "unused" => sessions'[t].state = "unused"
  PROVE  UNCHANGED Holders
<1>1. \A t \in Token : /\ sessions'[t].state # "unused" <=> sessions[t].state # "unused"
                       /\ Holder(t)' = Holder(t)
  BY DEF SameHolder, Holder
<1>2. QED
  BY <1>1 DEF Holders, MadeTokens

LEMMA SessionsUnseen ==
  ASSUME UNCHANGED sessions PROVE UNCHANGED Holders /\ UNCHANGED EndedTokens
BY DEF Holders, MadeTokens, Holder, EndedTokens

\* A token is looked at: what has timed out leaves the map.
LEMMA LookedAtUnseen ==
  ASSUME SessionsInv, NEW t \in Token \cup {None}, sessions' = LookedAt(t)
  PROVE  UNCHANGED Holders /\ UNCHANGED EndedTokens
<1>1. \A u \in Token : /\ SameHolder(sessions'[u], sessions[u])
                       /\ sessions[u].state = "live" => sessions'[u] = sessions[u]
                       /\ sessions[u].state \in {"stale", "gone"}
                            => sessions'[u].state \in {"stale", "gone"}
  BY LookedAtMoves
<1>2. \A u \in Token : sessions[u].state \in {"unused", "live", "stale", "gone"}
  BY DEF SessionsInv, Session
<1>3. \A u \in Token : sessions[u].state = "unused" => sessions'[u] = sessions[u]
  BY DEF LookedAt, Forget, SessionsInv
<1>4. UNCHANGED Holders
  BY <1>1, <1>3, HoldersStay
<1>5. UNCHANGED EndedTokens
  BY <1>1, <1>2, <1>3 DEF EndedTokens
<1>6. QED
  BY <1>4, <1>5

\* A session is made.
LEMMA HolderAdded ==
  ASSUME SessionsInv, NEW t \in Token, Free(t), NEW u, NEW groups,
         sessions' = Made(t, u, groups)
  PROVE  /\ \A m \in Holders : m.token # t
         /\ Holders' = Holders \cup {[token |-> t, account |-> u, groups |-> groups]}
         /\ UNCHANGED EndedTokens
<1> DEFINE x == [state |-> "live", user |-> u, groups |-> groups]
<1>1. sessions' = [sessions EXCEPT ![t] = x] /\ sessions \in [Token -> Session]
  BY DEF Made, SessionsInv
<1>2. x.state = "live" /\ x.user = u /\ x.groups = groups
  OBVIOUS
<1>3. sessions[t].state = "unused"
  BY DEF Free
<1> HIDE DEF x
<1>4. MadeTokens' = MadeTokens \cup {t} /\ t \notin MadeTokens
  BY <1>1, <1>2, <1>3 DEF MadeTokens
<1>5. \A v \in MadeTokens : Holder(v)' = Holder(v)
  BY <1>1, <1>4 DEF Holder, MadeTokens
<1>6. Holder(t)' = [token |-> t, account |-> u, groups |-> groups]
  BY <1>1, <1>2 DEF Holder
<1>7. Holders' = Holders \cup {[token |-> t, account |-> u, groups |-> groups]}
  BY <1>4, <1>5, <1>6 DEF Holders
<1>8. \A m \in Holders : m.token # t
  BY <1>4 DEF Holders, Holder
<1>9. UNCHANGED EndedTokens
  BY <1>1, <1>2, <1>3 DEF EndedTokens
<1>10. QED
  BY <1>7, <1>8, <1>9

\* A session that is live ends.
LEMMA HolderEnds ==
  ASSUME SessionsInv, NEW t \in Token, sessions[t].state = "live",
         NEW s \in {"stale", "gone"}, sessions' = [sessions EXCEPT ![t].state = s]
  PROVE  /\ UNCHANGED Holders /\ EndedTokens' = EndedTokens \cup {t}
         /\ t \in {m.token : m \in Holders}
<1> DEFINE x == [sessions[t] EXCEPT !.state = s]
<1>1. sessions' = [sessions EXCEPT ![t] = x] /\ sessions \in [Token -> Session]
  BY DEF SessionsInv
<1>2. SameHolder(x, sessions[t]) /\ x.state = s
  <2>1. sessions[t] \in Session /\ s \in {"live", "stale", "gone"}
    BY <1>1
  <2>2. QED
    BY <2>1, MovedSession
<1> HIDE DEF x
<1>3. UNCHANGED Holders
  BY <1>1, <1>2, HoldersStay DEF SameHolder
<1>4. EndedTokens' = EndedTokens \cup {t}
  BY <1>1, <1>2 DEF EndedTokens
<1>5. Holder(t) \in Holders /\ Holder(t).token = t
  BY DEF Holders, MadeTokens, Holder
<1>6. QED
  BY <1>3, <1>4, <1>5

\* Invitations lapse and sessions end, which Admission has in one step.
LEMMA Stopped ==
  ASSUME NEW F \in SUBSET Flow, NEW T \in SUBSET {m.token : m \in Holders},
         UNCHANGED <<member, grants>>, UNCHANGED BegunFlows, UNCHANGED Holders,
         OpenFlows' = OpenFlows \ F, EndedTokens' = EndedTokens \cup T
  PROVE  Admitting!Next
<1>1. Admitting!Stop(F, T)
  BY DEF Admitting!Stop
<1>2. QED
  BY <1>1 DEF Admitting!Next

-----------------------------------------------------------------------------
(* Each step is one of Admission's, or nothing to it.                      *)

LEMMA AuthorizeRefines ==
  ASSUME IInv, Authorize PROVE Admitting!Next
<1>1. PICK f \in Flow : /\ flows[f].state = "unused"
                        /\ flows' = [flows EXCEPT ![f].state = "pending"]
  BY DEF Authorize
<1>2. flows'[f].state = "pending" /\ \A g \in Flow \ {f} : flows'[g] = flows[g]
  BY <1>1 DEF IInv, FlowsInv, FlowState
<1>3. UNCHANGED <<member, exchange, sessions, grants>>
  BY DEF Authorize
<1>4. f \notin BegunFlows /\ BegunFlows' = BegunFlows \cup {f}
  BY <1>1, <1>2 DEF BegunFlows
<1>5. OpenFlows' = OpenFlows \cup {f}
  BY <1>1, <1>2, <1>3 DEF OpenFlows
<1>6. Admitting!Begin(f)
  BY <1>3, <1>4, <1>5, SessionsUnseen DEF Admitting!Begin
<1>7. QED
  BY <1>6 DEF Admitting!Next

\* Taking a state out of the map before the exchange leaves the invitation open.
LEMMA CallbackUnseen ==
  ASSUME IInv, NEW b \in Browser, NEW f \in Flow, Callback(b, f)
  PROVE  UNCHANGED Admitting!vars
<1>1. UNCHANGED <<member, sessions, grants>>
  BY DEF Callback
<1>2. CASE flows[f].state \in {"pending", "stale"}
  <2>1. flows' = [flows EXCEPT ![f].state = "gone"]
    BY <1>2 DEF Callback, Consumed
  <2>2. flows'[f].state = "gone" /\ \A g \in Flow \ {f} : flows'[g] = flows[g]
    BY <2>1 DEF IInv, FlowsInv, FlowState
  <2>3. exchange' = IF flows[f].state = "pending" THEN exchange \cup {<<b, f>>} ELSE exchange
    BY DEF Callback
  <2>4. UNCHANGED BegunFlows
    BY <1>2, <2>2 DEF BegunFlows
  <2>5. \A c \in Browser : <<c, f>> \notin exchange
    BY <1>2 DEF IInv, FlowsInv
  <2>6. \A g \in Flow \ {f}, c \in Browser : <<c, g>> \in exchange' <=> <<c, g>> \in exchange
    BY <2>3
  <2>7. (\E c \in Browser : <<c, f>> \in exchange') <=> flows[f].state = "pending"
    BY <2>3, <2>5
  <2>8. UNCHANGED OpenFlows
    BY <2>2, <2>5, <2>6, <2>7 DEF OpenFlows
  <2>9. QED
    BY <1>1, <2>4, <2>8, SessionsUnseen DEF Admitting!vars
<1>3. CASE flows[f].state \notin {"pending", "stale"}
  <2>1. UNCHANGED <<flows, exchange>>
    BY <1>3 DEF Callback, Consumed
  <2>2. QED
    BY <1>1, <2>1, FlowsUnseen, SessionsUnseen DEF Admitting!vars
<1>4. QED
  BY <1>2, <1>3

\* One callback of a flow is under way at most: with it the invitation is spent.
LEMMA ExchangeSpends ==
  ASSUME IInv, NEW b \in Browser, NEW f \in Flow, <<b, f>> \in exchange,
         exchange' = exchange \ {<<b, f>>},
         \A g \in Flow : flows'[g].state = flows[g].state
  PROVE  f \in OpenFlows /\ OpenFlows' = OpenFlows \ {f} /\ UNCHANGED BegunFlows
<1>1. flows[f].state = "gone" /\ \A c \in Browser : <<c, f>> \notin exchange'
  BY DEF IInv, FlowsInv
<1>2. \A g \in Flow \ {f}, c \in Browser : <<c, g>> \in exchange' <=> <<c, g>> \in exchange
  OBVIOUS
<1>3. QED
  BY <1>1, <1>2 DEF OpenFlows, BegunFlows

LEMMA ExchangedRefines ==
  ASSUME IInv, NEW b \in Browser, NEW f \in Flow, NEW u \in User, Exchanged(b, f, u)
  PROVE  Admitting!Next
<1>1. PICK t \in Token : Free(t) /\ sessions' = Made(t, u, member[u])
  BY DEF Exchanged
<1>2. UNCHANGED <<member, grants>>
  BY DEF Exchanged
<1>3. \A g \in Flow : flows'[g].state = flows[g].state
  BY DEF Exchanged, IInv, FlowsInv, FlowState
<1>4. f \in OpenFlows /\ OpenFlows' = OpenFlows \ {f} /\ UNCHANGED BegunFlows
  BY <1>3, ExchangeSpends DEF Exchanged
<1>5. /\ \A m \in Holders : m.token # t
      /\ Holders' = Holders \cup {[token |-> t, account |-> u, groups |-> member[u]]}
      /\ UNCHANGED EndedTokens
  BY <1>1, HolderAdded DEF IInv
<1>6. Admitting!TakeUp(f, t, u)
  BY <1>2, <1>4, <1>5 DEF Admitting!TakeUp, Admitting!Make
<1>7. QED
  BY <1>6 DEF Admitting!Next

LEMMA FailsRefines ==
  ASSUME IInv, NEW b \in Browser, NEW f \in Flow, ExchangeFails(b, f) PROVE Admitting!Next
<1>1. UNCHANGED <<member, flows, sessions, grants>>
  BY DEF ExchangeFails
<1>2. OpenFlows' = OpenFlows \ {f} /\ UNCHANGED BegunFlows
  BY <1>1, ExchangeSpends DEF ExchangeFails
<1>3. UNCHANGED Holders /\ EndedTokens' = EndedTokens \cup {}
  BY <1>1, SessionsUnseen
<1>4. {f} \in SUBSET Flow /\ {} \in SUBSET {m.token : m \in Holders}
  OBVIOUS
<1>5. QED
  BY <1>1, <1>2, <1>3, <1>4, Stopped

LEMMA LoginRefines ==
  ASSUME IInv, NEW b \in Browser, LocalLogin(b) PROVE Admitting!Next
<1>1. PICK t \in Token : Free(t) /\ sessions' = Made(t, Admin, {Superuser})
  BY DEF LocalLogin
<1>2. UNCHANGED <<member, flows, exchange, grants>> /\ LocalEnabled
  BY DEF LocalLogin
<1>3. /\ \A m \in Holders : m.token # t
      /\ Holders' = Holders \cup {[token |-> t, account |-> Admin, groups |-> {Superuser}]}
      /\ UNCHANGED EndedTokens
  BY <1>1, HolderAdded DEF IInv
<1>4. Admitting!LetIn(t, Admin)
  BY <1>2, <1>3, FlowsUnseen DEF Admitting!LetIn, Admitting!Make
<1>5. QED
  BY <1>2, <1>4 DEF Admitting!Next

\* A request acts on a session that lives, or is not granted anything.
LEMMA RequestRefines ==
  ASSUME IInv, NEW b \in Browser, NEW header, Request(b, header)
  PROVE  Admitting!Next \/ UNCHANGED Admitting!vars
<1>1. UNCHANGED <<member, flows, exchange>> /\ sessions' = LookedAt(Sent(b))
  BY DEF Request
<1>2. UNCHANGED Holders /\ UNCHANGED EndedTokens
  BY <1>1, SentToken, LookedAtUnseen DEF IInv
<1>3. UNCHANGED BegunFlows /\ UNCHANGED OpenFlows
  BY <1>1, FlowsUnseen
<1>4. CASE UNCHANGED grants
  BY <1>1, <1>2, <1>3, <1>4 DEF Admitting!vars
<1>5. ASSUME NEW t \in Token, NEW s \in Slug, grants' = grants \cup {<<t, s>>},
             sessions[t].state = "live",
             IsPlatformAdmin(sessions[t]) \/ s \in sessions[t].groups
      PROVE  Admitting!Next
  <2>1. /\ Holder(t) \in Holders /\ Holder(t).token = t
        /\ Holder(t).account = sessions[t].user /\ Holder(t).groups = sessions[t].groups
    BY <1>5 DEF Holders, MadeTokens, Holder
  <2>2. t \notin EndedTokens
    BY <1>5 DEF EndedTokens
  <2>3. Admitting!Act(Holder(t), s)
    BY <1>1, <1>2, <1>3, <1>5, <2>1, <2>2 DEF Admitting!Act, IsPlatformAdmin
  <2>4. QED
    BY <2>1, <2>3 DEF Admitting!Next
<1>6. QED
  BY <1>4, <1>5, RequestGrants DEF IInv

LEMMA LogoutRefines ==
  ASSUME IInv, NEW b \in Browser, Logout(b)
  PROVE  Admitting!Next \/ UNCHANGED Admitting!vars
<1>1. UNCHANGED <<member, flows, exchange, grants>>
  BY DEF Logout
<1>2. CASE IsAuthed(Sent(b))
  <2> DEFINE t == Sent(b)
  <2>1. t \in Token /\ sessions[t].state = "live"
    BY <1>2, SentToken DEF IsAuthed, IInv
  <2>2. sessions' = [sessions EXCEPT ![t].state = "gone"]
    BY <1>2 DEF Logout, Forget
  <2> HIDE DEF t
  <2>3. /\ UNCHANGED Holders /\ EndedTokens' = EndedTokens \cup {t}
        /\ t \in {m.token : m \in Holders}
    BY <2>1, <2>2, HolderEnds DEF IInv
  <2>4. OpenFlows' = OpenFlows \ {} /\ UNCHANGED BegunFlows
    BY <1>1, FlowsUnseen
  <2>5. QED
    BY <1>1, <2>3, <2>4, Stopped
<1>3. CASE ~IsAuthed(Sent(b))
  <2>1. sessions' = LookedAt(Sent(b))
    BY <1>3 DEF Logout
  <2>2. QED
    BY <1>1, <2>1, SentToken, LookedAtUnseen, FlowsUnseen DEF IInv, Admitting!vars
<1>4. QED
  BY <1>2, <1>3

LEMMA FlowTimesOutRefines ==
  ASSUME IInv, NEW f \in Flow, FlowTimesOut(f) PROVE Admitting!Next
<1>1. flows[f].state = "pending" /\ flows' = [flows EXCEPT ![f].state = "stale"]
  BY DEF FlowTimesOut
<1>2. flows'[f].state = "stale" /\ \A g \in Flow \ {f} : flows'[g] = flows[g]
  BY <1>1 DEF IInv, FlowsInv, FlowState
<1>3. UNCHANGED <<member, exchange, sessions, grants>>
  BY DEF FlowTimesOut
<1>4. UNCHANGED BegunFlows
  BY <1>1, <1>2 DEF BegunFlows
<1>5. \A b \in Browser : <<b, f>> \notin exchange
  BY <1>1 DEF IInv, FlowsInv
<1>6. OpenFlows' = OpenFlows \ {f}
  BY <1>2, <1>3, <1>5 DEF OpenFlows
<1>7. UNCHANGED Holders /\ EndedTokens' = EndedTokens \cup {}
  BY <1>3, SessionsUnseen
<1>8. {f} \in SUBSET Flow /\ {} \in SUBSET {m.token : m \in Holders}
  OBVIOUS
<1>9. QED
  BY <1>3, <1>4, <1>6, <1>7, <1>8, Stopped

LEMMA SessionTimesOutRefines ==
  ASSUME IInv, NEW t \in Token, SessionTimesOut(t) PROVE Admitting!Next
<1>1. sessions[t].state = "live" /\ sessions' = [sessions EXCEPT ![t].state = "stale"]
  BY DEF SessionTimesOut
<1>2. UNCHANGED <<member, flows, exchange, grants>>
  BY DEF SessionTimesOut
<1>3. /\ UNCHANGED Holders /\ EndedTokens' = EndedTokens \cup {t}
      /\ t \in {m.token : m \in Holders}
  BY <1>1, HolderEnds DEF IInv
<1>4. OpenFlows' = OpenFlows \ {} /\ UNCHANGED BegunFlows
  BY <1>2, FlowsUnseen
<1>5. QED
  BY <1>2, <1>3, <1>4, Stopped

\* A restart loses every flow and every session at once.
LEMMA RestartRefines ==
  ASSUME IInv, Restart PROVE Admitting!Next
<1>1. /\ flows' = [f \in Flow |-> Gone(flows[f])] /\ exchange' = {}
      /\ sessions' = [t \in Token |-> Gone(sessions[t])] /\ UNCHANGED <<member, grants>>
  BY DEF Restart
<1>2. \A f \in Flow : /\ flows'[f].state # "unused" <=> flows[f].state # "unused"
                      /\ flows'[f].state # "pending"
  <2>1. \A f \in Flow : flows[f] \in FlowState /\ flows'[f] = Gone(flows[f])
    BY <1>1 DEF IInv, FlowsInv
  <2>2. \A f \in Flow : flows[f].state # "unused" => Gone(flows[f]).state = "gone"
    BY <2>1, MovedFlow DEF Gone
  <2>3. QED
    BY <2>1, <2>2 DEF Gone
<1>3. UNCHANGED BegunFlows /\ OpenFlows' = OpenFlows \ Flow
  BY <1>1, <1>2 DEF BegunFlows, OpenFlows
<1>4. \A t \in Token : /\ SameHolder(sessions'[t], sessions[t])
                       /\ sessions[t].state = "unused" => sessions'[t].state = "unused"
                       /\ sessions[t].state # "unused" => sessions'[t].state = "gone"
  <2>1. \A t \in Token : sessions[t] \in Session /\ sessions'[t] = Gone(sessions[t])
    BY <1>1 DEF IInv, SessionsInv
  <2>2. ASSUME NEW t \in Token, sessions[t].state # "unused"
        PROVE  SameHolder(Gone(sessions[t]), sessions[t]) /\ Gone(sessions[t]).state = "gone"
    BY <2>1, <2>2, MovedSession DEF Gone
  <2>3. ASSUME NEW t \in Token, sessions[t].state = "unused"
        PROVE  Gone(sessions[t]) = sessions[t]
    BY <2>3 DEF Gone
  <2>4. QED
    BY <2>1, <2>2, <2>3 DEF SameHolder
<1>5. UNCHANGED Holders
  BY <1>4, HoldersStay
<1>6. EndedTokens' = EndedTokens \cup MadeTokens
  BY <1>4 DEF EndedTokens, MadeTokens
<1>7. MadeTokens \subseteq {m.token : m \in Holders}
  <2>1. \A t \in MadeTokens : Holder(t) \in Holders /\ Holder(t).token = t
    BY DEF Holders, Holder
  <2>2. QED
    BY <2>1
<1>8. QED
  BY <1>1, <1>3, <1>5, <1>6, <1>7, Stopped

LEMMA RegroupRefines ==
  ASSUME IInv, NEW u \in User, NEW g \in Group, Regroup(u, g) PROVE Admitting!Next
<1>1. member' \in [User -> SUBSET (Slug \cup Platform)]
  BY DEF Regroup, IInv, SessionsInv, Group
<1>2. UNCHANGED <<flows, exchange, sessions, grants>>
  BY DEF Regroup
<1>3. Admitting!Regroup
  BY <1>1, <1>2, FlowsUnseen, SessionsUnseen DEF Admitting!Regroup
<1>4. QED
  BY <1>3 DEF Admitting!Next

LEMMA NextAdmits == IInv /\ [Next]_vars => [Admitting!Next]_(Admitting!vars)
<1> SUFFICES ASSUME IInv, [Next]_vars PROVE Admitting!Next \/ UNCHANGED Admitting!vars
  BY DEF Admitting!vars
<1>1. ASSUME UNCHANGED <<member, flows, exchange, sessions, grants>>
      PROVE  UNCHANGED Admitting!vars
  BY <1>1, FlowsUnseen, SessionsUnseen DEF Admitting!vars
<1>2. ASSUME NEW b \in Browser, Reload(b) PROVE UNCHANGED Admitting!vars
  BY <1>1, <1>2 DEF Reload
<1>3. ASSUME NEW s \in Slug, CreateTenant(s) PROVE UNCHANGED Admitting!vars
  BY <1>1, <1>3 DEF CreateTenant
<1>4. CASE UNCHANGED vars
  BY <1>1, <1>4 DEF vars
<1>5. QED
  BY <1>2, <1>3, <1>4, LoginRefines, AuthorizeRefines, CallbackUnseen, LogoutRefines,
     RequestRefines, FailsRefines, ExchangedRefines, RegroupRefines, FlowTimesOutRefines,
     SessionTimesOutRefines, RestartRefines DEF Next

\* Sign-in implements Admission: with browsers that repeat their callbacks, states
\* and sessions that time out unnoticed, exchanges that overlap and restarts, it
\* still behaves as if each sign-in were one step that uses up its invitation.
THEOREM AdmissionImplemented == Spec => AdmissionSpec
<1>1. Init => Admitting!Init
  BY DEF Init, Admitting!Init, Group, BegunFlows, OpenFlows, Holders, MadeTokens, EndedTokens, Unused
<1>2. QED
  BY <1>1, Invariance, NextAdmits, PTL DEF Spec, AdmissionSpec, Admitting!Spec
=============================================================================
