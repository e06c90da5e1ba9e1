----------------------------- MODULE AuthTokens -----------------------------
(***************************************************************************)
(* How old the role is that a request acts with.  auth_service.py reads a  *)
(* user's row at a login or a refresh and then issues tokens with what it  *)
(* has read; get_current_user (deps.py) looks at the token and not at the  *)
(* row; user_service.py changes the row and knows of no tokens.            *)
(*                                                                         *)
(* Time is counted in ticks.  A token carries the last tick it is good     *)
(* for: python-jose refuses it when `exp' is less than the time.           *)
(***************************************************************************)
EXTENDS Naturals

CONSTANTS User, Role,
          AccessLifetime,    \* access_token_expire_minutes
          RefreshLifetime,   \* refresh_token_expire_days
          Latency,           \* longest time from the reading of the row to the tokens
          MaxClock           \* bound: time stops here

ASSUME TimeAssumption ==
  /\ {AccessLifetime, RefreshLifetime, Latency, MaxClock} \subseteq Nat
  /\ MaxClock > 0

VARIABLES
  role, active,    \* the app_user rows
  clock,
  access,          \* access tokens that have been issued
  refresh,         \* refresh tokens that have been issued
  reading,         \* the rows that logins and refreshes have read
  held             \* when each user last was active in each role

vars == <<role, active, clock, access, refresh, reading, held>>

Time == 1 .. MaxClock
Never == 0

AccessToken == [user : User, role : Role, exp : Nat]
RefreshToken == [user : User, exp : Nat]

(* `read_at' is the tick at which the SELECT saw the row. *)
RowRead == [user : User, role : Role, read_at : Time]

TypeOK ==
  /\ role \in [User -> Role]
  /\ active \in [User -> BOOLEAN]
  /\ clock \in Time
  /\ access \in SUBSET AccessToken
  /\ refresh \in SUBSET RefreshToken
  /\ reading \in SUBSET RowRead
  /\ held \in [User -> [Role -> {Never} \cup Time]]

(***************************************************************************)
(* decode_token and what get_current_user and refresh_access_token ask     *)
(***************************************************************************)

AnyAge(token) == TRUE

Unexpired(token) == clock <= token.exp

(* get_current_user takes nothing but an access token with a role. *)
Accepted == {token \in access : Unexpired(token)}

(***************************************************************************)
(* authenticate_user and refresh_access_token, then issue_tokens           *)
(***************************************************************************)

ActiveOrNot(u) == TRUE

MayRead(u) == active[u]

Read(u) ==
  /\ MayRead(u)
  /\ reading' = reading \cup {[user |-> u, role |-> role[u], read_at |-> clock]}
  /\ UNCHANGED <<role, active, clock, access, refresh, held>>

(* The password matches. *)
Login(u) == Read(u)

Refresh(token) == Unexpired(token) /\ Read(token.user)

CarriedOver(row) ==
  {[user |-> row.user, role |-> r, exp |-> clock + AccessLifetime] :
     r \in {row.role} \cup {token.role : token \in {old \in access : old.user = row.user}}}

(* The role is that of the row, and not that of an earlier token. *)
NewAccess(row) == {[user |-> row.user, role |-> row.role, exp |-> clock + AccessLifetime]}

(* The times of the two tokens are read when the row has arrived.  The row   *)
(* stays if another session has read the same one.                           *)
IssueTokens(row) ==
  /\ access' = access \cup NewAccess(row)
  /\ refresh' = refresh \cup {[user |-> row.user, exp |-> clock + RefreshLifetime]}
  /\ reading' \in {reading, reading \ {row}}
  /\ UNCHANGED <<role, active, clock, held>>

(***************************************************************************)
(* update_user, and time                                                   *)
(***************************************************************************)

NowHeld(active_, role_, time) ==
  [u \in User |-> [r \in Role |-> IF active_[u] /\ role_[u] = r THEN time ELSE held[u][r]]]

UpdateUser(u) ==
  /\ \/ active' = [active EXCEPT ![u] = ~ @] /\ UNCHANGED role
     \/ \E r \in Role \ {role[u]} : role' = [role EXCEPT ![u] = r] /\ UNCHANGED active
  /\ held' = NowHeld(active', role', clock)
  /\ UNCHANGED <<clock, access, refresh, reading>>

(* Time passes; nobody waits longer than Latency for a row. *)
Tick ==
  /\ clock < MaxClock
  /\ \A row \in reading : clock < row.read_at + Latency
  /\ clock' = clock + 1
  /\ held' = NowHeld(active, role, clock')
  /\ UNCHANGED <<role, active, access, refresh, reading>>

Init ==
  /\ role \in [User -> Role]
  /\ active = [u \in User |-> TRUE]
  /\ clock = 1
  /\ access = {} /\ refresh = {}
  /\ reading = {}
  /\ held = [u \in User |-> [r \in Role |-> IF role[u] = r THEN 1 ELSE Never]]

Next ==
  \/ \E u \in User : Login(u)
  \/ \E token \in refresh : Refresh(token)
  \/ \E row \in reading : IssueTokens(row)
  \/ \E u \in User : UpdateUser(u)
  \/ Tick

Spec == Init /\ [][Next]_vars

-----------------------------------------------------------------------------
(* Properties *)

HeldWithin(u, r, age) == held[u][r] # Never /\ clock <= held[u][r] + age

(* "a deactivated or demoted user keeps their access until the token         *)
(* expires, which the 15-minute lifetime bounds": a request that is let in   *)
(* acts with a role its user has held, being active, within one access       *)
(* lifetime and the time a login or refresh takes - by whatever chain of     *)
(* logins, refreshes, demotions and returns the token came about.            *)
BoundedStaleness ==
  \A token \in Accepted : HeldWithin(token.user, token.role, AccessLifetime + Latency)

(* What that rests on: the row a session has read is no older than Latency,  *)
(* and a token ends an access lifetime after it, although the refresh token  *)
(* that led to it lives longer than both.                                    *)
RowsFresh ==
  \A row \in reading :
    /\ row.read_at <= clock /\ clock <= row.read_at + Latency
    /\ row.read_at <= held[row.user][row.role]

TokensFresh ==
  \A token \in access :
    /\ held[token.user][token.role] # Never
    /\ token.exp <= held[token.user][token.role] + AccessLifetime + Latency

HeldSoFar ==
  \A u \in User :
    /\ active[u] => held[u][role[u]] = clock
    /\ \A r \in Role : held[u][r] <= clock

(* The inductive invariant: neither a row that issue_tokens is to use nor a  *)
(* token it has made says more than update_user allowed at its reading.      *)
IInv == TypeOK /\ RowsFresh /\ TokensFresh /\ HeldSoFar

(* "Not a refresh token", "User is no longer active": a user who is not      *)
(* active gets no token from a login or refresh that begins now, so, once    *)
(* the rows read before are answered, none until the return.                 *)
OnlyRecentlyActive ==
  [][\A token \in refresh' \ refresh :
       \E r \in Role : HeldWithin(token.user, r, Latency)]_vars
=============================================================================
