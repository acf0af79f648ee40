------------------------------ MODULE Admission ------------------------------
(***************************************************************************)
(* What signing in promises, with none of the browsers, maps and awaits:    *)
(* an invitation is taken up once, by one account, in one step; a session   *)
(* keeps the account and the groups of the moment it was made; when it has   *)
(* ended it has ended for good; and only a session that has not may act, in *)
(* the tenants it was made for.  SignIn implements this specification.      *)
(***************************************************************************)
CONSTANTS
  Invitation,  \* the sign-in flows that can be begun
  Token,       \* the sessions that can be made
  Account,     \* who can sign in through an invitation
  Keeper,      \* who can sign in without one
  Everywhere,  \* the groups that act in any tenant
  Given,       \* the groups of a session made without an invitation
  Tenant

VARIABLES
  member,  \* the groups of each account, which change as they like
  begun,   \* the invitations there have been
  open,    \* those that may still be taken up
  made,    \* the sessions there have been
  ended,   \* the tokens of those that have ended
  granted  \* what was done: a session's token and the tenant

vars == <<member, begun, open, made, ended, granted>>

Init ==
  /\ member \in [Account -> SUBSET (Tenant \cup Everywhere)]
  /\ begun = {} /\ open = {} /\ made = {} /\ ended = {} /\ granted = {}

Regroup ==
  /\ member' \in [Account -> SUBSET (Tenant \cup Everywhere)]
  /\ UNCHANGED <<begun, open, made, ended, granted>>

Begin(f) ==
  /\ f \notin begun
  /\ begun' = begun \cup {f} /\ open' = open \cup {f}
  /\ UNCHANGED <<member, made, ended, granted>>

Make(t, u, groups) ==
  /\ \A m \in made : m.token # t
  /\ made' = made \cup {[token |-> t, account |-> u, groups |-> groups]}
  /\ UNCHANGED <<member, begun, ended, granted>>

TakeUp(f, t, u) ==
  /\ f \in open /\ open' = open \ {f}
  /\ Make(t, u, member[u])

LetIn(t, u) == Make(t, u, Given) /\ UNCHANGED open

\* Invitations lapse and sessions end, one or many at a time.
Stop(flows, tokens) ==
  /\ open' = open \ flows
  /\ ended' = ended \cup tokens
  /\ UNCHANGED <<member, begun, made, granted>>

Act(m, s) ==
  /\ m.token \notin ended
  /\ m.groups \cap Everywhere # {} \/ s \in m.groups
  /\ granted' = granted \cup {<<m.token, s>>}
  /\ UNCHANGED <<member, begun, open, made, ended>>

Next ==
  \/ Regroup
  \/ \E f \in Invitation : Begin(f)
  \/ \E f \in Invitation, t \in Token, u \in Account : TakeUp(f, t, u)
  \/ \E t \in Token, u \in Keeper : LetIn(t, u)
  \/ \E flows \in SUBSET Invitation, tokens \in SUBSET {m.token : m \in made} :
       Stop(flows, tokens)
  \/ \E m \in made, s \in Tenant : Act(m, s)

Spec == Init /\ [][Next]_vars
=============================================================================
