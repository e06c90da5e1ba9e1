-------------------------- MODULE AuthTokensProofs --------------------------
(***************************************************************************)
(* Theorems about AuthTokens, for any users, roles, lifetimes and latency. *)
(***************************************************************************)
EXTENDS AuthTokens, TLAPS

-----------------------------------------------------------------------------
(* The inductive invariant *)

LEMMA Constants ==
  /\ AccessLifetime \in Nat /\ RefreshLifetime \in Nat
  /\ Latency \in Nat /\ MaxClock \in Nat /\ MaxClock > 0
  BY TimeAssumption

LEMMA InitInductive == Init => IInv
  <1> SUFFICES ASSUME Init PROVE IInv
    OBVIOUS
  <1>1. 1 \in Time
    BY Constants DEF Time
  <1>2. TypeOK
    BY <1>1 DEF Init, TypeOK, Never
  <1>3. RowsFresh /\ TokensFresh /\ HeldSoFar
    BY DEF Init, RowsFresh, TokensFresh, HeldSoFar, Never
  <1> QED
    BY <1>2, <1>3 DEF IInv

(* What NowHeld makes of `held': what is held now is held now, and the rest  *)
(* is as it was.                                                             *)
LEMMA HeldChange ==
  ASSUME NEW a, NEW b, NEW now, NEW u \in User, NEW r \in Role
  PROVE  NowHeld(a, b, now)[u][r] = IF a[u] /\ b[u] = r THEN now ELSE held[u][r]
  BY DEF NowHeld

LEMMA HeldType ==
  ASSUME NEW a, NEW b, NEW now \in Time, held \in [User -> [Role -> {Never} \cup Time]]
  PROVE  NowHeld(a, b, now) \in [User -> [Role -> {Never} \cup Time]]
  BY DEF NowHeld

LEMMA UserChange ==
  ASSUME IInv, NEW u \in User, UpdateUser(u)
  PROVE  IInv'
  <1> USE Constants DEF IInv
  <1>1. active' \in [User -> BOOLEAN] /\ role' \in [User -> Role]
    BY DEF TypeOK, UpdateUser
  <1>2. /\ held' = NowHeld(active', role', clock)
        /\ UNCHANGED <<clock, access, refresh, reading>>
    BY DEF UpdateUser
  <1>3. TypeOK'
    BY <1>1, <1>2, HeldType DEF TypeOK
  <1>4. \A v \in User, r \in Role :
          /\ held'[v][r] = IF active'[v] /\ role'[v] = r THEN clock ELSE held[v][r]
          /\ held[v][r] <= held'[v][r]
    <2>1. \A v \in User, r \in Role :
            held'[v][r] = IF active'[v] /\ role'[v] = r THEN clock ELSE held[v][r]
      BY <1>2, HeldChange
    <2>2. \A v \in User, r \in Role : held[v][r] \in Nat /\ held[v][r] <= clock
      BY DEF TypeOK, Time, Never, HeldSoFar
    <2> QED
      BY <2>1, <2>2
  <1>5. RowsFresh'
    BY <1>2, <1>3, <1>4 DEF RowsFresh, TypeOK, RowRead, Time, Never
  <1>6. TokensFresh'
    BY <1>2, <1>3, <1>4 DEF TokensFresh, TypeOK, AccessToken, Time, Never
  <1>7. HeldSoFar'
    BY <1>1, <1>2, <1>3, <1>4 DEF HeldSoFar, TypeOK, Time, Never
  <1> QED
    BY <1>3, <1>5, <1>6, <1>7

LEMMA TimePasses == ASSUME IInv, Tick PROVE IInv'
  <1> USE Constants DEF IInv
  <1>1. /\ clock' = clock + 1 /\ clock' \in Time
        /\ held' = NowHeld(active, role, clock')
        /\ UNCHANGED <<role, active, access, refresh, reading>>
    BY DEF Tick, TypeOK, Time
  <1>2. TypeOK'
    BY <1>1, HeldType DEF TypeOK
  <1>3. \A v \in User, r \in Role :
          /\ held'[v][r] = IF active[v] /\ role[v] = r THEN clock' ELSE held[v][r]
          /\ held[v][r] <= held'[v][r]
    <2>1. \A v \in User, r \in Role :
            held'[v][r] = IF active[v] /\ role[v] = r THEN clock' ELSE held[v][r]
      BY <1>1, HeldChange
    <2>2. \A v \in User, r \in Role : held[v][r] \in Nat /\ held[v][r] <= clock
      BY DEF TypeOK, Time, Never, HeldSoFar
    <2> QED
      BY <1>1, <2>1, <2>2 DEF TypeOK, Time
  <1>4. RowsFresh'
    BY <1>1, <1>2, <1>3 DEF RowsFresh, Tick, TypeOK, RowRead, Time, Never
  <1>5. TokensFresh'
    BY <1>1, <1>2, <1>3 DEF TokensFresh, TypeOK, AccessToken, Time, Never
  <1>6. HeldSoFar'
    <2>1. \A v \in User : active[v] => held'[v][role[v]] = clock'
      BY <1>3 DEF TypeOK
    <2>2. \A v \in User, r \in Role : held[v][r] \in Nat /\ held[v][r] <= clock /\ clock \in Nat
      BY DEF TypeOK, Time, Never, HeldSoFar
    <2>3. \A v \in User, r \in Role : held'[v][r] <= clock'
      BY <1>1, <1>3, <2>2
    <2> QED
      BY <1>1, <2>1, <2>3 DEF HeldSoFar
  <1> QED
    BY <1>2, <1>4, <1>5, <1>6

LEMMA Reading == ASSUME IInv, NEW u \in User, Read(u) PROVE IInv'
  <1> USE Constants DEF IInv
  <1> DEFINE row == [user |-> u, role |-> role[u], read_at |-> clock]
  <1>1. row \in RowRead /\ reading' = reading \cup {row}
        /\ UNCHANGED <<role, active, clock, access, refresh, held>>
    BY DEF Read, TypeOK, RowRead
  <1>2. TypeOK'
    BY <1>1 DEF TypeOK
  <1>3. row.read_at = held[row.user][row.role] /\ row.read_at = clock
    BY DEF Read, MayRead, HeldSoFar
  <1> HIDE DEF row
  <1>4. RowsFresh'
    <2>1. row.read_at <= clock /\ clock <= row.read_at + Latency
          /\ row.read_at <= held[row.user][row.role]
      BY <1>3 DEF TypeOK, Time
    <2>2. \A old \in reading' : old \in reading \/ old = row
      BY <1>1
    <2> QED
      BY <1>1, <2>1, <2>2 DEF RowsFresh
  <1>5. TokensFresh' /\ HeldSoFar'
    BY <1>1 DEF TokensFresh, HeldSoFar
  <1> QED
    BY <1>2, <1>4, <1>5

LEMMA Issuing == ASSUME IInv, NEW row \in reading, IssueTokens(row) PROVE IInv'
  <1> USE Constants DEF IInv
  <1> DEFINE token == [user |-> row.user, role |-> row.role, exp |-> clock + AccessLifetime]
             longer == [user |-> row.user, exp |-> clock + RefreshLifetime]
  <1>1. row \in RowRead /\ clock \in Nat
    BY DEF TypeOK, Time
  <1>2. token \in AccessToken /\ longer \in RefreshToken
    BY <1>1 DEF RowRead, AccessToken, RefreshToken
  <1>3. /\ access' = access \cup {token} /\ refresh' = refresh \cup {longer}
        /\ reading' \subseteq reading /\ UNCHANGED <<role, active, clock, held>>
    BY DEF IssueTokens, NewAccess
  <1>4. TypeOK'
    BY <1>2, <1>3 DEF TypeOK
  <1>5. held[token.user][token.role] # Never
        /\ token.exp <= held[token.user][token.role] + AccessLifetime + Latency
    <2>1. /\ row.read_at \in Nat /\ row.read_at >= 1 /\ held[row.user][row.role] \in Nat
      BY <1>1 DEF RowRead, Time, TypeOK, Never
    <2>2. clock <= row.read_at + Latency /\ row.read_at <= held[row.user][row.role]
      BY DEF RowsFresh
    <2> QED
      BY <1>1, <2>1, <2>2 DEF Never
  <1> HIDE DEF token, longer
  <1>6. TokensFresh'
    BY <1>3, <1>5 DEF TokensFresh
  <1>7. RowsFresh' /\ HeldSoFar'
    BY <1>3 DEF RowsFresh, HeldSoFar
  <1> QED
    BY <1>4, <1>6, <1>7

LEMMA StepInductive == IInv /\ [Next]_vars => IInv'
  <1> SUFFICES ASSUME IInv, [Next]_vars PROVE IInv'
    OBVIOUS
  <1>1. ASSUME NEW u \in User, Login(u) PROVE IInv'
    BY <1>1, Reading DEF Login
  <1>2. ASSUME NEW token \in refresh, Refresh(token) PROVE IInv'
    <2>1. token.user \in User
      BY DEF IInv, TypeOK, RefreshToken
    <2> QED
      BY <1>2, <2>1, Reading DEF Refresh
  <1>3. ASSUME NEW row \in reading, IssueTokens(row) PROVE IInv'
    BY <1>3, Issuing
  <1>4. ASSUME NEW u \in User, UpdateUser(u) PROVE IInv'
    BY <1>4, UserChange
  <1>5. CASE Tick
    BY <1>5, TimePasses
  <1>6. CASE UNCHANGED vars
    BY <1>6 DEF vars, IInv, TypeOK, RowsFresh, TokensFresh, HeldSoFar
  <1> QED
    BY <1>1, <1>2, <1>3, <1>4, <1>5, <1>6 DEF Next

(* No row and no token is older than its reading allows. *)
THEOREM Inductive == Spec => []IInv
  BY InitInductive, StepInductive, PTL DEF Spec

-----------------------------------------------------------------------------
(* Staleness *)

(* A request that is let in acts with a role its user held, active, within   *)
(* one access lifetime and the latency of a login, whatever has happened     *)
(* to the user since.                                                        *)
THEOREM StalenessBounded == Spec => []BoundedStaleness
  <1>1. IInv => BoundedStaleness
    <2> SUFFICES ASSUME IInv, NEW token \in Accepted
                 PROVE  HeldWithin(token.user, token.role, AccessLifetime + Latency)
      BY DEF BoundedStaleness
    <2>1. token \in access /\ clock <= token.exp
      BY DEF Accepted, Unexpired
    <2>2. token \in AccessToken
      BY <2>1 DEF IInv, TypeOK
    <2>3. held[token.user][token.role] \in Nat /\ token.exp \in Nat /\ clock \in Nat
      BY <2>2 DEF AccessToken, IInv, TypeOK, Time, Never
    <2>4. /\ held[token.user][token.role] # Never
          /\ token.exp <= held[token.user][token.role] + AccessLifetime + Latency
      BY <2>1 DEF IInv, TokensFresh
    <2> QED
      BY <2>1, <2>3, <2>4, Constants DEF HeldWithin
  <1> QED
    BY <1>1, Inductive, PTL

(* A new refresh token is for a user who was active within the latency.      *)
THEOREM RefreshOnlyRecentlyActive == Spec => OnlyRecentlyActive
  <1> DEFINE Recent == \A token \in refresh' \ refresh :
                         \E r \in Role : HeldWithin(token.user, r, Latency)
  <1>1. IInv /\ [Next]_vars => [Recent]_vars
    <2> SUFFICES ASSUME IInv, [Next]_vars, NEW token \in refresh' \ refresh
                 PROVE  \E r \in Role : HeldWithin(token.user, r, Latency)
      OBVIOUS
    <2>1. PICK row \in reading : IssueTokens(row)
      BY DEF Next, Login, Refresh, Read, UpdateUser, Tick, vars
    <2>2. token.user = row.user
      BY <2>1 DEF IssueTokens
    <2>3. row \in RowRead
      BY DEF IInv, TypeOK
    <2>4. /\ row.user \in User /\ row.role \in Role /\ row.read_at \in Nat /\ row.read_at >= 1
          /\ held[row.user][row.role] \in Nat /\ clock \in Nat
      BY <2>3 DEF RowRead, Time, Never, IInv, TypeOK
    <2>5. clock <= row.read_at + Latency /\ row.read_at <= held[row.user][row.role]
      BY DEF IInv, RowsFresh
    <2>6. HeldWithin(row.user, row.role, Latency)
      BY <2>4, <2>5, Constants DEF HeldWithin, Never
    <2> QED
      BY <2>2, <2>4, <2>6
  <1> HIDE DEF Recent
  <1>2. Spec => [][Recent]_vars
    BY <1>1, Inductive, PTL DEF Spec
  <1> QED
    BY <1>2 DEF OnlyRecentlyActive, Recent
=============================================================================
