------------------------ MODULE TechnitiumSessionProofs ------------------------
(***************************************************************************)
(* Theorems about TechnitiumSession, for any connections, servers and      *)
(* number of calls.                                                        *)
(***************************************************************************)
EXTENDS TechnitiumSession, TLAPS

\* A second attempt bears the session its call logged in for, which its server
\* accepts unless it forgot it; and who is told "session expired" was dropped.
Sound(w) ==
  /\ w.pc = "send" /\ w.again => w.dropped \/ w.token = Session(ServerOf[w.conn])
  /\ w.outcome = "expired" /\ w.conn \in WithPassword => w.dropped
  /\ w.pc # "idle" => w.outcome = "none"
  /\ w.pc = "resolve" => ~ w.again

IInv == TypeOK /\ \A c \in Call : Sound(call[c])

-----------------------------------------------------------------------------
\* The fixed tokens are tokens.
LEMMA Tokens == NoToken \in Token /\ Configured \in Token /\ \A s \in Server : Session(s) \in Token
<1>1. SomeServer \in Server
  BY ConnAssumption DEF SomeServer
<1>2. QED
  BY <1>1 DEF NoToken, Configured, Session, Token

\* An idle slot is well formed.
LEMMA IdleSound == Idle \in Work /\ Sound(Idle) /\ Idle.pc = "idle" /\ ~ Idle.again
<1>1. (CHOOSE k \in Conn : TRUE) \in Conn
  BY ConnAssumption
<1>2. QED
  BY <1>1, Tokens DEF Idle, Work, Outcome, Sound

\* A call ends well formed; only an expired one has to have been dropped.
LEMMA EndedSound ==
  ASSUME NEW w \in Work, NEW o \in Outcome,
         o = "expired" /\ w.conn \in WithPassword => w.dropped
  PROVE  Ended(w, o) \in Work /\ Sound(Ended(w, o))
BY Tokens DEF Ended, Work, Sound

\* A first attempt may bear any token, a second only one of its own server's.
LEMMA HoldingSound ==
  ASSUME NEW w \in Work, NEW token \in Token, w.outcome = "none",
         w.again => token = Session(ServerOf[w.conn])
  PROVE  Holding(w, token) \in Work /\ Sound(Holding(w, token))
BY DEF Holding, Work, Sound

\* A first attempt takes the cached session or logs in; with the cache cleared
\* a second attempt can only log in, or give up for want of a password.
LEMMA GetSessionSound ==
  ASSUME NEW w \in Work, NEW cache \in Token, w.outcome = "none",
         w.again => cache = NoToken
  PROVE  GetSession(w, cache) \in Work /\ Sound(GetSession(w, cache))
<1>1. CASE cache # NoToken
  BY <1>1, HoldingSound DEF GetSession
<1>2. CASE cache = NoToken /\ w.conn \in WithPassword
  BY <1>2, Tokens DEF GetSession, Work, Sound
<1>3. CASE cache = NoToken /\ w.conn \notin WithPassword
  BY <1>3, EndedSound DEF GetSession, Outcome
<1>4. QED
  BY <1>1, <1>2, <1>3

\* A live session of its own server gets a call through.
LEMMA LiveSession ==
  ASSUME NEW w, w.token = Session(ServerOf[w.conn])
  PROVE  Accepted(w)
<1>1. w.token.kind = "session" /\ w.token.alive /\ w.token.at = ServerOf[w.conn]
  BY DEF Session
<1>2. QED
  BY <1>1 DEF Accepted

\* A step of one call that leaves it sound keeps the invariant.
LEMMA OneCall ==
  ASSUME IInv, NEW c \in Call, NEW w \in Work, Sound(w), Goto(c, w),
         cached' \in Token, UNCHANGED valid
  PROVE  IInv'
BY DEF IInv, TypeOK, Goto

\* What is left of a call's token when a server forgets its sessions.
Forgotten(w, s) ==
  [w EXCEPT !.token = Dead(@, s),
            !.dropped = @ \/ (w.token.kind = "session" /\ w.token.at = s)]

\* A token that dies is a token, and one of another server's does not die.
LEMMA DeadSound ==
  ASSUME NEW token \in Token, NEW s \in Server
  PROVE  /\ Dead(token, s) \in Token
         /\ (token.kind = "session" /\ token.at = s) \/ Dead(token, s) = token
BY DEF Dead, Token

\* A call whose token dies was dropped.
LEMMA ForgottenSound ==
  ASSUME NEW w \in Work, NEW s \in Server, Sound(w)
  PROVE  Forgotten(w, s) \in Work /\ Sound(Forgotten(w, s))
<1> DEFINE d == w.dropped \/ (w.token.kind = "session" /\ w.token.at = s)
           token == Dead(w.token, s)
           v == [w EXCEPT !.token = token, !.dropped = d]
<1>1. w.token \in Token /\ w.dropped \in BOOLEAN
  BY DEF Work
<1>2. token \in Token /\ d \in BOOLEAN /\ (d \/ token = w.token) /\ (w.dropped => d)
  BY <1>1, DeadSound
<1> HIDE DEF d, token
<1>3. /\ v \in Work /\ v.token = token /\ v.dropped = d /\ v.pc = w.pc
      /\ v.again = w.again /\ v.outcome = w.outcome /\ v.conn = w.conn
  BY <1>2 DEF Work
<1>4. Forgotten(w, s) = v
  BY DEF Forgotten, d, token
<1> HIDE DEF v
<1>5. Sound(v)
  BY <1>2, <1>3 DEF Sound
<1>6. QED
  BY <1>3, <1>4, <1>5

-----------------------------------------------------------------------------
\* The invariant holds at the start.
LEMMA InitInv == Init => IInv
BY IdleSound, Tokens DEF Init, IInv, TypeOK

\* Every step keeps it.
LEMMA NextInv == IInv /\ [Next]_vars => IInv'
<1> SUFFICES ASSUME IInv, [Next]_vars PROVE IInv'
  OBVIOUS
<1>0. /\ cached \in Token /\ valid \subseteq WithToken
      /\ \A c \in Call : call[c] \in Work /\ Sound(call[c])
  BY DEF IInv, TypeOK
<1>1. ASSUME NEW c \in Call, NEW k \in Conn, Start(c, k) PROVE IInv'
  <2> DEFINE w == [Idle EXCEPT !.conn = k]
  <2>1. w \in Work /\ ~ w.again /\ w.outcome = "none" /\ w.pc = "idle"
    BY IdleSound DEF Idle, Work
  <2>2. [w EXCEPT !.pc = "resolve"] \in Work /\ Sound([w EXCEPT !.pc = "resolve"])
    BY <2>1 DEF Work, Sound
  <2>3. GetSession(w, cached) \in Work /\ Sound(GetSession(w, cached))
    <3> HIDE DEF w
    <3> QED
      BY <1>0, <2>1, GetSessionSound
  <2>4. UNCHANGED <<cached, valid>>
    BY <1>1 DEF Start
  <2>5. Goto(c, IF k \in WithToken THEN [w EXCEPT !.pc = "resolve"] ELSE GetSession(w, cached))
    BY <1>1 DEF Start
  <2> HIDE DEF w
  <2>6. QED
    BY <1>0, <2>2, <2>3, <2>4, <2>5, OneCall
<1>2. ASSUME NEW c \in Call, Resolved(c) PROVE IInv'
  <2>1. /\ call[c].outcome = "none" /\ ~ call[c].again /\ call[c] \in Work
        /\ Goto(c, Holding(call[c], Configured)) /\ UNCHANGED <<cached, valid>>
    BY <1>0, <1>2 DEF Resolved, Sound
  <2>2. Holding(call[c], Configured) \in Work /\ Sound(Holding(call[c], Configured))
    BY <2>1, Tokens, HoldingSound
  <2>3. QED
    BY <1>0, <2>1, <2>2, OneCall
<1>3. ASSUME NEW c \in Call, LoggedIn(c) PROVE IInv'
  <2>1. /\ call[c].outcome = "none" /\ call[c] \in Work
        /\ cached' = Session(ServerOf[call[c].conn])
        /\ Goto(c, Holding(call[c], cached')) /\ UNCHANGED valid
    BY <1>0, <1>3 DEF LoggedIn, Sound
  <2>2. cached' \in Token
    BY <2>1, Tokens, ConnAssumption DEF Work
  <2>3. Holding(call[c], cached') \in Work /\ Sound(Holding(call[c], cached'))
    BY <2>1, <2>2, HoldingSound
  <2>4. QED
    BY <2>1, <2>2, <2>3, OneCall
<1>4. ASSUME NEW c \in Call, Fail(c) \/ Answered(c) PROVE IInv'
  <2>1. \E o \in {"failed", "ok"} :
          Goto(c, Ended(call[c], o)) /\ UNCHANGED <<cached, valid>>
    BY <1>4 DEF Fail, Answered
  <2>2. PICK o \in {"failed", "ok"} :
          Goto(c, Ended(call[c], o)) /\ UNCHANGED <<cached, valid>>
    BY <2>1
  <2>3. Ended(call[c], o) \in Work /\ Sound(Ended(call[c], o))
    BY <1>0, EndedSound DEF Outcome
  <2>4. QED
    BY <1>0, <2>2, <2>3, OneCall
<1>5. ASSUME NEW c \in Call, Refused(c) PROVE IInv'
  <2> DEFINE w == [call[c] EXCEPT !.again = TRUE]
  <2>1. /\ call[c].outcome = "none" /\ call[c] \in Work /\ call[c].pc = "send"
        /\ ~ Accepted(call[c]) /\ cached' = NoToken /\ UNCHANGED valid
    BY <1>0, <1>5 DEF Refused, Sound
  <2>2. CASE ~ call[c].again /\ call[c].conn \in WithPassword
    <3>1. w \in Work /\ w.outcome = "none"
      BY <2>1 DEF Work
    <3>2. Goto(c, GetSession(w, cached'))
      BY <1>5, <2>2 DEF Refused
    <3> HIDE DEF w
    <3>3. GetSession(w, cached') \in Work /\ Sound(GetSession(w, cached'))
      BY <2>1, <3>1, GetSessionSound, Tokens
    <3>4. QED
      BY <2>1, <3>2, <3>3, Tokens, OneCall
  <2>3. CASE ~ (~ call[c].again /\ call[c].conn \in WithPassword)
    \* The session of a second attempt is refused only if it is dead.
    <3>1. call[c].conn \in WithPassword => call[c].dropped
      <4>1. call[c].conn \in WithPassword
              => call[c].dropped \/ call[c].token = Session(ServerOf[call[c].conn])
        BY <1>0, <2>1, <2>3 DEF Sound
      <4>2. call[c].token # Session(ServerOf[call[c].conn])
        BY <2>1, LiveSession
      <4>3. QED
        BY <4>1, <4>2
    <3>2. Goto(c, Ended(call[c], "expired"))
      BY <1>5, <2>3 DEF Refused
    <3>3. Ended(call[c], "expired") \in Work /\ Sound(Ended(call[c], "expired"))
      BY <2>1, <3>1, EndedSound DEF Outcome
    <3>4. QED
      BY <2>1, <3>2, <3>3, Tokens, OneCall
  <2>4. QED
    BY <2>2, <2>3
<1>6. CASE CacheExpires
  BY <1>0, <1>6, Tokens DEF CacheExpires, IInv, TypeOK
<1>7. ASSUME NEW s \in Server, Forget(s) PROVE IInv'
  <2>1. cached' \in Token /\ valid' = valid
    BY <1>0, <1>7, DeadSound DEF Forget
  <2>2. call' = [c \in Call |-> Forgotten(call[c], s)]
    BY <1>7 DEF Forget, Forgotten
  <2>3. \A c \in Call : Forgotten(call[c], s) \in Work /\ Sound(Forgotten(call[c], s))
    BY <1>0, ForgottenSound
  <2>4. QED
    BY <1>0, <2>1, <2>2, <2>3 DEF IInv, TypeOK
<1>8. ASSUME NEW k \in valid, Revoke(k) PROVE IInv'
  BY <1>8 DEF Revoke, IInv, TypeOK
<1>9. CASE UNCHANGED vars
  BY <1>9 DEF vars, IInv, TypeOK
<1>10. QED
  BY <1>1, <1>2, <1>3, <1>4, <1>5, <1>6, <1>7, <1>8, <1>9 DEF Next, Advance

\* The invariant holds throughout.
LEMMA Invariance == Spec => []IInv
BY InitInv, NextInv, PTL DEF Spec

-----------------------------------------------------------------------------
\* Every reachable state is well typed.
THEOREM TypeCorrect == Spec => []TypeOK
BY Invariance, PTL DEF IInv

\* A call that has a password to log in with is told "session expired" only if
\* the server forgot the session it had just logged in for.
THEOREM RetrySuffices == Spec => []ExpiredOnlyIfDropped
<1>1. IInv => ExpiredOnlyIfDropped
  BY DEF IInv, Sound, ExpiredOnlyIfDropped
<1>2. QED
  BY <1>1, Invariance, PTL
=============================================================================
