---------------------------- MODULE Accounts_proofs ----------------------------
(***************************************************************************)
(* Theorems about Accounts: its types, that a session goes on as one chain *)
(* of tokens, that its access ends when it does, that the workspace        *)
(* names its owner, that the cache of roles is current, and that a removed *)
(* member is signed out.  The first four are about one of the two parts:   *)
(* every step of Accounts is a step of each part or leaves it alone.       *)
(***************************************************************************)
EXTENDS Accounts, FiniteSetTheorems, TLAPS

-----------------------------------------------------------------------------
(* The steps of the two parts.                                              *)

LEMMA PartsStep ==
    ASSUME [AccountsNext]_accountVars
    PROVE  [SessionNext]_sessionVars /\ [MembershipNext]_memberVars
<1>1. ASSUME NEW k \in SessionCalls, Request(k) \/ Handle(k) \/ CrashCall(k)
      PROVE  [SessionNext]_sessionVars /\ [MembershipNext]_memberVars
  <2>1. k \in MemberCalls
    BY AccountsAssumption DEF AccountsAssumption
  <2>2. Request(k) => [SessionNext]_sessionVars /\ [MembershipNext]_memberVars
    BY <2>1 DEF Request, SessionNext, MembershipNext
  <2>3. Handle(k) => [SessionNext]_sessionVars /\ [MembershipNext]_memberVars
    BY <2>1 DEF Handle, RemovalGoesOn, MemberStep, SessionNext, MembershipNext
  <2>4. CrashCall(k) => [SessionNext]_sessionVars /\ [MembershipNext]_memberVars
    BY <2>1 DEF CrashCall, SessionNext, MembershipNext
  <2> QED BY <1>1, <2>2, <2>3, <2>4
<1>2. TimePasses => [SessionNext]_sessionVars /\ [MembershipNext]_memberVars
  BY DEF TimePasses, SessionNext, MembershipNext
<1>3. UNCHANGED accountVars => UNCHANGED sessionVars /\ UNCHANGED memberVars
  BY DEF accountVars, callVars
<1> QED BY <1>1, <1>2, <1>3 DEF AccountsNext

-----------------------------------------------------------------------------
(* Sessions: the rows are numbered from 1 on, and there is room for those   *)
(* the calls under way will insert.                                         *)

Prefix == \A i \in Made, j \in Ids : j < i => j \in Made
Room   == Cardinality(Made) + Cardinality(Creating) <= MaxTokens

RowsAreMade ==
    \A k \in SessionCalls :
        /\ at[k] \in {"lock", "rotate", "revokeRow", "capStart", "cap"} => call[k].row \in Made
        /\ at[k] = "cap" => call[k].victims \subseteq Made

FamiliesAreMade == \A i \in Made : token[i].family \in Made

SessionInv == SessionTypeOK /\ RowsAreMade /\ FamiliesAreMade /\ Prefix /\ Room

LEMMA Initial ==
    ASSUME NEW n \in Nat, NEW S \in SUBSET (1..n), \A i \in S, j \in 1..n : j < i => j \in S
    PROVE  IsFiniteSet(S) /\ Cardinality(S) \in Nat /\ S = 1..Cardinality(S)
<1>1. IsFiniteSet(S) /\ Cardinality(S) \in Nat
  <2>1. IsFiniteSet(1..n)
    BY FS_Interval
  <2>2. IsFiniteSet(S)
    BY <2>1, FS_Subset
  <2> QED BY <2>2, FS_CardinalityType
<1>2. \A i \in S : i <= Cardinality(S)
  <2> TAKE i \in S
  <2>1. i \in Nat /\ 1..i \subseteq S /\ i >= 1
    OBVIOUS
  <2>2. Cardinality(1..i) = i
    BY <2>1, FS_Interval
  <2> QED BY <1>1, <2>1, <2>2, FS_Subset
<1>3. S \subseteq 1..Cardinality(S)
  BY <1>1, <1>2
<1>4. IsFiniteSet(1..Cardinality(S)) /\ Cardinality(1..Cardinality(S)) = Cardinality(S)
  BY <1>1, FS_Interval
<1> QED BY <1>1, <1>3, <1>4, FS_Subset

LEMMA MadeIsInitial ==
    ASSUME Prefix
    PROVE  /\ IsFiniteSet(Made) /\ Cardinality(Made) \in Nat /\ Made = 1..Cardinality(Made)
           /\ NextId \in Nat /\ NextId \notin Made
<1>1. MaxTokens \in Nat /\ Made \in SUBSET (1..MaxTokens)
  BY SessionAssumption DEF SessionAssumption, Made, Ids
<1>2. IsFiniteSet(Made) /\ Cardinality(Made) \in Nat /\ Made = 1..Cardinality(Made)
  BY <1>1, Initial DEF Prefix, Ids
<1> QED BY <1>2 DEF NextId

LEMMA FreshRow ==
    ASSUME SessionInv, NEW k \in Creating
    PROVE  NextId \in Ids /\ NextId \notin Made /\ Made \cup {NextId} = 1..NextId
<1>1. IsFiniteSet(Creating)
  BY SessionAssumption, FS_Subset DEF SessionAssumption, Creating
<1>2. Cardinality(Creating) \in Nat /\ Cardinality(Creating) >= 1
  <2>1. Cardinality(Creating \ {k}) = Cardinality(Creating) - 1 /\ IsFiniteSet(Creating \ {k})
    BY <1>1, FS_RemoveElement
  <2> QED BY <1>1, <2>1, FS_CardinalityType
<1>3. /\ Cardinality(Made) \in Nat /\ Made = 1..Cardinality(Made)
      /\ NextId = Cardinality(Made) + 1 /\ NextId \notin Made
  BY MadeIsInitial DEF SessionInv, NextId
<1>4. MaxTokens \in Nat /\ Cardinality(Made) + Cardinality(Creating) <= MaxTokens
  BY SessionAssumption DEF SessionInv, Room, SessionAssumption
<1> QED BY <1>2, <1>3, <1>4 DEF Ids

\* How a step of one call moves the calls that are about to insert a row.
LEMMA CreatingMoves ==
    ASSUME at \in [SessionCalls -> SessionSteps], NEW k \in SessionCalls, NEW s \in SessionSteps,
           at' = [at EXCEPT ![k] = s]
    PROVE  /\ Cardinality(Creating) \in Nat
           /\ Cardinality(Creating') =
                IF s \in {"issue", "lock", "rotate"}
                THEN IF k \in Creating THEN Cardinality(Creating) ELSE Cardinality(Creating) + 1
                ELSE IF k \in Creating THEN Cardinality(Creating) - 1 ELSE Cardinality(Creating)
<1>1. IsFiniteSet(Creating)
  BY SessionAssumption, FS_Subset DEF SessionAssumption, Creating
<1>2. CASE s \in {"issue", "lock", "rotate"}
  <2>1. Creating' = Creating \cup {k}
    BY <1>2 DEF Creating
  <2> QED BY <1>1, <1>2, <2>1, FS_AddElement, FS_CardinalityType
<1>3. CASE s \notin {"issue", "lock", "rotate"}
  <2>1. Creating' = Creating \ {k}
    BY <1>3 DEF Creating
  <2> QED BY <1>1, <1>3, <2>1, FS_RemoveElement, FS_CardinalityType
<1> QED BY <1>2, <1>3

-----------------------------------------------------------------------------
(* What the statements do to the table.                                     *)

LEMMA Revokes ==
    ASSUME token \in [Ids -> TokenRows], NEW S \in SUBSET Made, Revoke(S)
    PROVE  /\ token' \in [Ids -> TokenRows]
           /\ Made' = Made
           /\ \A i \in Ids : /\ token'[i].family = token[i].family
                             /\ token'[i].previous = token[i].previous
                             /\ token'[i].state = IF i \in S THEN "revoked" ELSE token[i].state
<1>1. \A i \in Ids : token[i] \in TokenRows /\ token'[i] =
          IF i \in S THEN [token[i] EXCEPT !.state = "revoked"] ELSE token[i]
  BY DEF Revoke
<1>2. \A i \in Ids : /\ token'[i].family = token[i].family
                     /\ token'[i].previous = token[i].previous
                     /\ token'[i].state = IF i \in S THEN "revoked" ELSE token[i].state
                     /\ token'[i] \in TokenRows
  BY <1>1 DEF TokenRows, TokenStates
<1>3. token' \in [Ids -> TokenRows]
  BY <1>2 DEF Revoke
<1>4. Made' = Made
  BY <1>2 DEF Made, State
<1> QED BY <1>2, <1>3, <1>4

LEMMA Inserts ==
    ASSUME token \in [Ids -> TokenRows], NextId \in Ids, NEW f \in Ids, NEW p \in Ids \cup {NoToken},
           token' = [token EXCEPT ![NextId] = PersistNewRefresh(f, p)]
    PROVE  /\ token' \in [Ids -> TokenRows]
           /\ Made' = Made \cup {NextId}
           /\ token'[NextId] = PersistNewRefresh(f, p)
           /\ \A i \in Ids \ {NextId} : token'[i] = token[i]
<1>1. PersistNewRefresh(f, p) \in TokenRows
  BY DEF PersistNewRefresh, TokenRows, TokenStates
<1>2. token' \in [Ids -> TokenRows] /\ token'[NextId] = PersistNewRefresh(f, p)
  BY <1>1
<1>3. \A i \in Ids \ {NextId} : token'[i] = token[i]
  OBVIOUS
<1>4. Made' = Made \cup {NextId}
  BY <1>2, <1>3 DEF Made, State, PersistNewRefresh
<1> QED BY <1>2, <1>3, <1>4

LEMMA Rotates ==
    ASSUME SessionInv, NEW k \in SessionCalls, Rotate(k)
    PROVE  LET r == call[k].row IN
           /\ NextId \in Ids /\ NextId \notin Made /\ r \in Made /\ r # NextId
           /\ token' \in [Ids -> TokenRows]
           /\ Made' = Made \cup {NextId}
           /\ token'[NextId] = PersistNewRefresh(token[r].family, r)
           /\ token'[r] = [token[r] EXCEPT !.state = "rotated"]
           /\ \A i \in Ids \ {r, NextId} : token'[i] = token[i]
<1> DEFINE r == call[k].row
           next == PersistNewRefresh(token[r].family, r)
<1>1. k \in Creating /\ r \in Made
  BY DEF Rotate, Creating, SessionInv, RowsAreMade
<1>2. NextId \in Ids /\ NextId \notin Made /\ r # NextId /\ r \in Ids
  BY <1>1, FreshRow DEF Made
<1>3. token \in [Ids -> TokenRows] /\ token[r] \in TokenRows /\ token[r].family \in Ids
  BY <1>1, <1>2 DEF SessionInv, SessionTypeOK, FamiliesAreMade, Made
<1>4. token' = [[token EXCEPT ![r].state = "rotated"] EXCEPT ![NextId] = next]
  BY DEF Rotate
<1>5. [token[r] EXCEPT !.state = "rotated"] \in TokenRows
  BY <1>3 DEF TokenRows, TokenStates
<1>6. next \in TokenRows
  BY <1>2, <1>3 DEF PersistNewRefresh, TokenRows, TokenStates
<1> HIDE DEF next
<1>7. /\ token' \in [Ids -> TokenRows] /\ token'[NextId] = next
      /\ token'[r] = [token[r] EXCEPT !.state = "rotated"]
      /\ \A i \in Ids \ {r, NextId} : token'[i] = token[i]
  BY <1>2, <1>3, <1>4, <1>5, <1>6
<1>8. token'[r].state = "rotated"
  BY <1>3, <1>7 DEF TokenRows
<1>9. Made' = Made \cup {NextId}
  <2>1. token'[NextId].state # "none"
    BY <1>7 DEF PersistNewRefresh, next
  <2>2. token[r].state # "none"
    BY <1>1 DEF Made, State
  <2>3. \A i \in Ids : token'[i].state # "none" <=> token[i].state # "none" \/ i = NextId
    BY <1>7, <1>8, <2>1, <2>2
  <2> QED BY <1>2, <2>3 DEF Made, State
<1> QED BY <1>1, <1>2, <1>7, <1>9 DEF next

-----------------------------------------------------------------------------
(* Types of the sessions.                                                   *)

LEMMA SessionInitInv == SessionInit => SessionInv
<1> SUFFICES ASSUME SessionInit PROVE SessionInv
  OBVIOUS
<1>0. MaxTokens \in Nat \ {0} /\ 1 \in Ids /\ MaxRequests \in Nat /\ MaxCrashes \in Nat
  BY SessionAssumption DEF SessionAssumption, Ids
<1>1. token \in [Ids -> TokenRows]
  <2>1. NoRow \in TokenRows /\ [state |-> "active", family |-> 1, previous |-> NoToken] \in TokenRows
    BY <1>0 DEF NoRow, TokenRows, TokenStates, NoToken
  <2> QED BY <2>1 DEF SessionInit
<1>2. NoLocals \in SessionLocals
  BY DEF NoLocals, LocalsFor, SessionLocals, NoToken
<1>3. SessionTypeOK
  <2>1. access \subseteq AccessTokens /\ denied = {} /\ graced = {} /\ spared = {}
    BY <1>0 DEF SessionInit, AccessTokens
  <2>2. at \in [SessionCalls -> SessionSteps] /\ call \in [SessionCalls -> SessionLocals]
    BY <1>2 DEF SessionInit, SessionSteps
  <2>3. requests \in 0..MaxRequests /\ crashes \in 0..MaxCrashes
    BY <1>0 DEF SessionInit
  <2> QED BY <1>1, <2>1, <2>2, <2>3 DEF SessionTypeOK
<1>4. Made = {1} /\ token[1].family = 1
  BY <1>0 DEF SessionInit, Made, State, NoRow
<1>5. Creating = {}
  BY DEF SessionInit, Creating
<1>6. Room
  BY <1>0, <1>4, <1>5, FS_EmptySet, FS_Singleton DEF Room
<1>7. RowsAreMade /\ FamiliesAreMade /\ Prefix
  <2>1. Prefix
    BY <1>0, <1>4 DEF Prefix, Ids
  <2> QED BY <1>4, <2>1 DEF SessionInit, RowsAreMade, FamiliesAreMade
<1> QED BY <1>3, <1>6, <1>7 DEF SessionInv

\* What every step keeps of a call that it does not take.
LEMMA OtherRows ==
    ASSUME SessionInv, SessionTypeOK', NEW k \in SessionCalls, Made \subseteq Made',
           \A q \in SessionCalls \ {k} : at'[q] = at[q] /\ call'[q] = call[q],
           at'[k] \in {"lock", "rotate", "revokeRow", "capStart", "cap"} => call'[k].row \in Made',
           at'[k] = "cap" => call'[k].victims \subseteq Made'
    PROVE  RowsAreMade'
BY DEF SessionInv, RowsAreMade

LEMMA SessionEnters ==
    ASSUME SessionTypeOK, NEW k \in SessionCalls
    PROVE  /\ \A s \in SessionSteps : Enter(k, s) => at' \in [SessionCalls -> SessionSteps]
           /\ Finish(k) => /\ at' \in [SessionCalls -> SessionSteps]
                          /\ call' \in [SessionCalls -> SessionLocals]
           /\ \A s \in SessionSteps, c \in SessionLocals : Start(k, s, c) =>
                          /\ at' \in [SessionCalls -> SessionSteps]
                          /\ call' \in [SessionCalls -> SessionLocals]
                          /\ requests' \in 0..MaxRequests
           /\ \A S \in SUBSET Ids : call' = [call EXCEPT ![k].victims = S] =>
                          call' \in [SessionCalls -> SessionLocals] /\ call'[k].row = call[k].row
                          /\ call'[k].victims = S
           /\ \A r \in Ids : call' = [call EXCEPT ![k].row = r] =>
                          call' \in [SessionCalls -> SessionLocals] /\ call'[k].row = r
<1>0. /\ at \in [SessionCalls -> SessionSteps] /\ call \in [SessionCalls -> SessionLocals]
      /\ requests \in 0..MaxRequests /\ MaxRequests \in Nat
  BY SessionAssumption DEF SessionTypeOK, SessionAssumption
<1>1. \A s \in SessionSteps : Enter(k, s) => at' \in [SessionCalls -> SessionSteps]
  BY <1>0 DEF Enter
<1>2. NoLocals \in SessionLocals
  BY DEF NoLocals, LocalsFor, SessionLocals, NoToken
<1>3. Finish(k) => at' \in [SessionCalls -> SessionSteps] /\ call' \in [SessionCalls -> SessionLocals]
  BY <1>0, <1>2 DEF Finish, SessionSteps
<1>4. \A s \in SessionSteps, c \in SessionLocals : Start(k, s, c) =>
          /\ at' \in [SessionCalls -> SessionSteps]
          /\ call' \in [SessionCalls -> SessionLocals]
          /\ requests' \in 0..MaxRequests
  BY <1>0 DEF Start
<1>5. call[k] \in SessionLocals
  BY <1>0
<1>6. ASSUME NEW S \in SUBSET Ids, call' = [call EXCEPT ![k].victims = S]
      PROVE  call' \in [SessionCalls -> SessionLocals] /\ call'[k].row = call[k].row /\ call'[k].victims = S
  <2>1. [call[k] EXCEPT !.victims = S] \in SessionLocals
    BY <1>5 DEF SessionLocals
  <2> QED BY <1>0, <1>5, <1>6, <2>1 DEF SessionLocals
<1>7. ASSUME NEW r \in Ids, call' = [call EXCEPT ![k].row = r]
      PROVE  call' \in [SessionCalls -> SessionLocals] /\ call'[k].row = r
  <2>1. [call[k] EXCEPT !.row = r] \in SessionLocals
    BY <1>5 DEF SessionLocals
  <2> QED BY <1>0, <1>5, <1>7, <2>1 DEF SessionLocals
<1> QED BY <1>1, <1>3, <1>4, <1>6, <1>7

LEMMA SameRows ==
    ASSUME SessionInv, Made' = Made, \A i \in Made : token'[i].family = token[i].family
    PROVE  FamiliesAreMade' /\ Prefix'
BY DEF SessionInv, FamiliesAreMade, Prefix

LEMMA RoomIsKept ==
    ASSUME SessionInv, NEW k \in SessionCalls, NEW s \in SessionSteps,
           at' = [at EXCEPT ![k] = s], Made' = Made,
           s \in {"issue", "lock", "rotate"} => k \in Creating \/ HasRoom
    PROVE  Room'
<1>1. at \in [SessionCalls -> SessionSteps] /\ MaxTokens \in Nat
  BY SessionAssumption DEF SessionInv, SessionTypeOK, SessionAssumption
<1>2. Cardinality(Made) \in Nat /\ Cardinality(Made)' = Cardinality(Made)
  BY MadeIsInitial DEF SessionInv
<1>3. /\ Cardinality(Creating) \in Nat
      /\ Cardinality(Creating') =
            IF s \in {"issue", "lock", "rotate"}
            THEN IF k \in Creating THEN Cardinality(Creating) ELSE Cardinality(Creating) + 1
            ELSE IF k \in Creating THEN Cardinality(Creating) - 1 ELSE Cardinality(Creating)
  BY <1>1, CreatingMoves
<1>4. Cardinality(Made) + Cardinality(Creating) <= MaxTokens
  BY DEF SessionInv, Room
<1>5. Cardinality(Made) + Cardinality(Creating') <= MaxTokens
  BY <1>1, <1>2, <1>3, <1>4 DEF HasRoom
<1> QED BY <1>2, <1>5 DEF Room

\* A row takes the place that was kept for it.
LEMMA RoomIsTaken ==
    ASSUME SessionInv, NEW k \in Creating, NEW s \in SessionSteps \ {"issue", "lock", "rotate"},
           at' = [at EXCEPT ![k] = s], Made' = Made \cup {NextId}
    PROVE  Room' /\ Prefix'
<1>1. at \in [SessionCalls -> SessionSteps] /\ MaxTokens \in Nat /\ k \in SessionCalls
  BY SessionAssumption DEF SessionInv, SessionTypeOK, SessionAssumption, Creating
<1>2. /\ Cardinality(Made) \in Nat /\ IsFiniteSet(Made) /\ NextId \notin Made
      /\ NextId \in Ids /\ Made' = 1..NextId
  BY MadeIsInitial, FreshRow DEF SessionInv
<1>3. Cardinality(Made') = Cardinality(Made) + 1
  BY <1>2, FS_AddElement
<1>4. Cardinality(Creating') = Cardinality(Creating) - 1 /\ Cardinality(Creating) \in Nat
  BY <1>1, CreatingMoves
<1>5. Room'
  BY <1>1, <1>2, <1>3, <1>4 DEF SessionInv, Room
<1>6. Prefix'
  BY <1>2 DEF Prefix, Ids
<1> QED BY <1>5, <1>6

LEMMA LocalsType ==
    ASSUME NEW i \in Ids \cup {NoToken}, NEW d \in SUBSET (Ids \cup {MembershipId}),
           NEW n \in {"", "logout", "session", "all", "removal"}
    PROVE  LocalsFor(i, d, n) \in SessionLocals /\ LocalsFor(i, d, n).row = i
BY DEF LocalsFor, SessionLocals

LEMMA RequestInv ==
    ASSUME SessionInv, NEW k \in SessionCalls, SessionRequest(k) \/ BeginRemoval(k)
    PROVE  SessionInv'
<1>0. SessionTypeOK /\ RowsAreMade /\ (SessionTypeOK)
  BY DEF SessionInv
<1> USE <1>0
<1>1. ASSUME NEW s \in SessionSteps, NEW c \in SessionLocals, Start(k, s, c),
             UNCHANGED token, access' \subseteq access,
             s \in {"lock", "revokeRow"} => c.row \in Made,
             s \notin {"rotate", "capStart", "cap"},
             s \in {"issue", "lock"} => HasRoom
      PROVE  SessionInv'
  <2>1. SessionTypeOK'
    BY <1>1, SessionEnters DEF Start, SessionTypeOK
  <2>2. Made' = Made
    BY <1>1 DEF Made, State
  <2>3. Room'
    BY <1>1, <2>2, RoomIsKept DEF Start
  <2>4. RowsAreMade'
    <3>1. at'[k] = s /\ call'[k] = c
      BY <1>1 DEF Start, SessionTypeOK
    <3>2. \A q \in SessionCalls \ {k} : at'[q] = at[q] /\ call'[q] = call[q]
      BY <1>1 DEF Start, SessionTypeOK
    <3> QED BY <1>1, <2>1, <2>2, <3>1, <3>2, OtherRows
  <2> QED BY <1>1, <2>1, <2>2, <2>3, <2>4, SameRows DEF SessionInv
<1>2. /\ NoLocals \in SessionLocals
      /\ LocalsFor(NoToken, {}, "all") \in SessionLocals /\ LocalsFor(NoToken, {}, "removal") \in SessionLocals
      /\ \A i \in Ids : LocalsFor(i, {}, "") \in SessionLocals /\ LocalsFor(i, {}, "").row = i
  BY LocalsType DEF NoLocals
<1> HIDE DEF LocalsFor
<1>3. CASE BeginLogin(k)
  BY <1>1, <1>2, <1>3 DEF BeginLogin, NoLocals, SessionSteps
<1>4. CASE BeginPassword(k)
  <2>1. access' \subseteq access
    BY <1>4 DEF BeginPassword
  <2> QED BY <1>1, <1>2, <1>4, <2>1 DEF BeginPassword, SessionSteps
<1>5. ASSUME NEW i \in Ids, BeginRefresh(k, i) PROVE SessionInv'
  BY <1>1, <1>2, <1>5 DEF BeginRefresh, SessionSteps
<1>6. ASSUME NEW i \in Ids, BeginRevokeSession(k, i) PROVE SessionInv'
  <2>1. LocalsFor(i, {i}, "session") \in SessionLocals /\ LocalsFor(i, {i}, "session").row = i
    BY LocalsType
  <2> QED BY <1>1, <1>6, <2>1 DEF BeginRevokeSession, SessionSteps
<1>7. ASSUME NEW j \in access, BeginLogoutAll(k, j) PROVE SessionInv'
  <2>1. {j.jti} \in SUBSET (Ids \cup {MembershipId})
    BY DEF SessionTypeOK, AccessTokens
  <2>2. LocalsFor(NoToken, {j.jti}, "all") \in SessionLocals
    BY <2>1, LocalsType
  <2> QED BY <1>1, <1>7, <2>2 DEF BeginLogoutAll, SessionSteps
<1>8. ASSUME NEW j \in access, NEW i \in Ids, BeginLogout(k, j, i) PROVE SessionInv'
  <2>1. {j.jti} \in SUBSET (Ids \cup {MembershipId})
    BY DEF SessionTypeOK, AccessTokens
  <2>2. LocalsFor(i, {j.jti}, "logout") \in SessionLocals /\ LocalsFor(i, {j.jti}, "logout").row = i
    BY <2>1, LocalsType
  <2> QED BY <1>1, <1>8, <2>2 DEF BeginLogout, SessionSteps
<1>9. ASSUME NEW j \in access, Switch(k, j) PROVE SessionInv'
  <2>0. [jti |-> MembershipId, young |-> TRUE] \in AccessTokens
    BY DEF AccessTokens
  <2>1. access' \subseteq AccessTokens /\ requests' \in 0..MaxRequests
    <3>1. access' = access \cup {[jti |-> MembershipId, young |-> TRUE]}
      BY <1>9 DEF Switch, Sign
    <3>2. requests < MaxRequests /\ requests' = requests + 1 /\ MaxRequests \in Nat
      BY <1>9, SessionAssumption DEF Switch, SessionAssumption
    <3>3. access \subseteq AccessTokens /\ requests \in 0..MaxRequests
      BY DEF SessionTypeOK
    <3>4. requests' \in 0..MaxRequests
      BY <3>2, <3>3
    <3> QED BY <2>0, <3>1, <3>3, <3>4
  <2>2. SessionTypeOK'
    BY <1>9, <2>1 DEF Switch, SessionTypeOK
  <2>3. RowsAreMade' /\ FamiliesAreMade' /\ Prefix' /\ Room'
    BY <1>9 DEF Switch, SessionInv, RowsAreMade, FamiliesAreMade, Prefix, Room, Made, Creating, State
  <2> QED BY <2>2, <2>3 DEF SessionInv
<1>10. CASE BeginRemoval(k)
  <2>1. /\ at' = [at EXCEPT ![k] = "revokeStart"]
        /\ call' = [call EXCEPT ![k] = LocalsFor(NoToken, {}, "removal")]
        /\ UNCHANGED <<token, graced, access, denied, spared, crashes, requests>>
    BY <1>10 DEF BeginRemoval, Enter
  <2>2. SessionTypeOK'
    <3>1. LocalsFor(NoToken, {}, "removal") \in SessionLocals
      BY LocalsType
    <3> QED BY <2>1, <3>1 DEF SessionTypeOK, SessionSteps
  <2>3. Made' = Made
    BY <2>1 DEF Made, State
  <2>4. Room'
    BY <2>1, <2>3, RoomIsKept DEF SessionSteps
  <2>5. RowsAreMade'
    <3>1. at'[k] = "revokeStart" /\ \A q \in SessionCalls \ {k} : at'[q] = at[q] /\ call'[q] = call[q]
      BY <2>1 DEF SessionTypeOK
    <3> QED BY <2>2, <2>3, <3>1, OtherRows
  <2> QED BY <2>1, <2>2, <2>3, <2>4, <2>5, SameRows DEF SessionInv
<1> QED BY <1>3, <1>4, <1>5, <1>6, <1>7, <1>8, <1>9, <1>10 DEF SessionRequest

LEMMA TimeInv ==
    ASSUME SessionInv, SessionTime \/ UNCHANGED sessionVars
    PROVE  SessionInv'
<1>0. SessionTypeOK
  BY DEF SessionInv
<1>1. CASE SessionTime /\ UNCHANGED token
  <2>1. /\ graced' \subseteq graced /\ denied' \subseteq denied
        /\ UNCHANGED <<at, call, spared, requests, crashes>>
    BY <1>1 DEF SessionTime, GraceEnds, AccessExpires, DenialEnds, SessionExpires
  <2>2. access' \subseteq AccessTokens
    <3>1. GraceEnds => access' \subseteq AccessTokens
      BY <1>0 DEF GraceEnds, SessionTypeOK, AccessTokens
    <3>2. ~GraceEnds => access' \subseteq access
      BY <1>1 DEF SessionTime, AccessExpires, DenialEnds, SessionExpires
    <3> QED BY <1>0, <3>1, <3>2 DEF SessionTypeOK
  <2>3. SessionTypeOK'
    BY <1>0, <1>1, <2>1, <2>2 DEF SessionTypeOK
  <2> QED BY <1>1, <2>1, <2>3 DEF SessionInv, RowsAreMade, FamiliesAreMade, Prefix, Room, Made, Creating, State
<1>2. ASSUME NEW i \in Ids, SessionExpires(i) PROVE SessionInv'
  <2>1. token' = [token EXCEPT ![i].state = "expired"] /\ token[i].state = "active" /\ token[i] \in TokenRows
    BY <1>0, <1>2 DEF SessionExpires, State, SessionTypeOK
  <2>2. [token[i] EXCEPT !.state = "expired"] \in TokenRows
    BY <2>1 DEF TokenRows, TokenStates
  <2>3. /\ token' \in [Ids -> TokenRows] /\ token'[i].state = "expired" /\ token'[i].family = token[i].family
        /\ \A j \in Ids \ {i} : token'[j] = token[j]
    BY <1>0, <2>1, <2>2 DEF SessionTypeOK, TokenRows
  <2>4. Made' = Made
    BY <2>1, <2>3 DEF Made, State
  <2>5. SessionTypeOK'
    BY <1>0, <1>2, <2>3 DEF SessionExpires, SessionTypeOK
  <2>6. RowsAreMade' /\ Room'
    BY <1>2, <2>4 DEF SessionExpires, SessionInv, RowsAreMade, Room, Creating
  <2>7. \A j \in Made : token'[j].family = token[j].family
    BY <2>3 DEF Made
  <2> QED BY <2>4, <2>5, <2>6, <2>7, SameRows DEF SessionInv
<1>3. CASE UNCHANGED sessionVars
  BY <1>3 DEF sessionVars, SessionInv, SessionTypeOK, RowsAreMade, FamiliesAreMade, Prefix, Room, Made,
              Creating, State
<1>4. SessionTime => UNCHANGED token \/ \E i \in Ids : SessionExpires(i)
  BY DEF SessionTime, GraceEnds, AccessExpires, DenialEnds
<1> QED BY <1>1, <1>2, <1>3, <1>4

LEMMA SignedType ==
    ASSUME SessionTypeOK, NEW i \in Ids, Sign(i)
    PROVE  access' \subseteq AccessTokens
<1>1. [jti |-> i, young |-> TRUE] \in AccessTokens
  BY DEF AccessTokens
<1> QED BY <1>1 DEF Sign, SessionTypeOK

LEMMA CallInv ==
    ASSUME SessionInv, NEW k \in SessionCalls, SessionStep(k) \/ CrashSession(k)
    PROVE  SessionInv'
<1>0. /\ SessionTypeOK /\ token \in [Ids -> TokenRows] /\ Made \subseteq Ids
      /\ at \in [SessionCalls -> SessionSteps] /\ call \in [SessionCalls -> SessionLocals]
      /\ call[k] \in SessionLocals
  BY DEF SessionInv, SessionTypeOK, Made
<1>1. \A q \in SessionCalls \ {k} : at'[q] = at[q] /\ call'[q] = call[q]
  BY <1>0 DEF SessionStep, CrashSession, Issue, CapStart, Cap, LockRow, Rotate, RevokeRow, RevokeStart,
         RevokeAll, Deny, Enter, Finish
<1>2. Finish(k) => /\ at' = [at EXCEPT ![k] = "idle"] /\ at'[k] = "idle" /\ UNCHANGED requests
                   /\ at' \in [SessionCalls -> SessionSteps] /\ call' \in [SessionCalls -> SessionLocals]
  BY <1>0, SessionEnters DEF Finish
<1>3. \A s \in SessionSteps : Enter(k, s) =>
          /\ at' = [at EXCEPT ![k] = s] /\ at'[k] = s /\ at' \in [SessionCalls -> SessionSteps]
          /\ UNCHANGED requests
  BY <1>0 DEF Enter
<1>4. \A s \in SessionSteps : at' = [at EXCEPT ![k] = s] /\ Made' = Made /\ s \notin {"issue", "lock", "rotate"}
          => Room'
  BY RoomIsKept
<1>5. ASSUME UNCHANGED token PROVE Made' = Made /\ FamiliesAreMade' /\ Prefix'
  <2>1. Made' = Made
    BY <1>5 DEF Made, State
  <2> QED BY <1>5, <2>1, SameRows
<1>6. ASSUME NEW S \in SUBSET Made, Revoke(S)
      PROVE  token' \in [Ids -> TokenRows] /\ Made' = Made /\ FamiliesAreMade' /\ Prefix'
  <2>1. token' \in [Ids -> TokenRows] /\ Made' = Made /\ \A i \in Ids : token'[i].family = token[i].family
    BY <1>0, <1>6, Revokes
  <2>2. \A i \in Made : token'[i].family = token[i].family
    BY <1>0, <2>1
  <2> QED BY <2>1, <2>2, SameRows
<1>7. CASE Issue(k)
  <2>1. k \in Creating
    BY <1>7 DEF Issue, Creating
  <2>2. NextId \in Ids /\ NextId \notin Made
    BY <2>1, FreshRow
  <2>3. /\ token' \in [Ids -> TokenRows] /\ Made' = Made \cup {NextId}
        /\ token'[NextId] = PersistNewRefresh(NextId, NoToken)
        /\ \A i \in Ids \ {NextId} : token'[i] = token[i]
    BY <1>0, <1>7, <2>2, Inserts DEF Issue
  <2>4. at' = [at EXCEPT ![k] = "capStart"] /\ at'[k] = "capStart" /\ at' \in [SessionCalls -> SessionSteps]
        /\ UNCHANGED requests
    BY <1>3, <1>7 DEF Issue, SessionSteps
  <2>5. call' \in [SessionCalls -> SessionLocals] /\ call'[k].row = NextId
    BY <1>0, <1>7, <2>2, SessionEnters DEF Issue
  <2>6. SessionTypeOK'
    BY <1>0, <1>7, <2>3, <2>4, <2>5 DEF Issue, SessionTypeOK
  <2>7. RowsAreMade'
    BY <1>1, <2>3, <2>4, <2>5, <2>6, OtherRows
  <2>8. Room' /\ Prefix'
    BY <2>1, <2>3, <2>4, RoomIsTaken DEF SessionSteps
  <2>9. FamiliesAreMade'
    BY <1>0, <2>2, <2>3 DEF SessionInv, FamiliesAreMade, PersistNewRefresh
  <2> QED BY <2>6, <2>7, <2>8, <2>9 DEF SessionInv
<1>8. CASE CapStart(k)
  <2>1. OverCap \in SUBSET Ids /\ OverCap \subseteq Made
    BY DEF OverCap, Active, Made, State
  <2>2. /\ call' \in [SessionCalls -> SessionLocals] /\ call'[k].row = call[k].row /\ call'[k].victims = OverCap
    BY <1>0, <1>8, <2>1, SessionEnters DEF CapStart
  <2>3. at' = [at EXCEPT ![k] = "cap"] /\ at' \in [SessionCalls -> SessionSteps] /\ UNCHANGED requests
    BY <1>3, <1>8 DEF CapStart, SessionSteps
  <2>4. SessionTypeOK'
    BY <1>0, <1>8, <2>2, <2>3 DEF CapStart, SessionTypeOK
  <2>5. Made' = Made /\ FamiliesAreMade' /\ Prefix'
    BY <1>5, <1>8 DEF CapStart
  <2>6. call'[k].row \in Made
    BY <1>8, <2>2 DEF CapStart, SessionInv, RowsAreMade
  <2>7. RowsAreMade'
    BY <1>1, <2>1, <2>2, <2>4, <2>5, <2>6, OtherRows
  <2>8. Room'
    BY <1>4, <2>3, <2>5 DEF SessionSteps
  <2> QED BY <2>4, <2>5, <2>7, <2>8 DEF SessionInv
<1>9. CASE Cap(k)
  <2>1. call[k].victims \in SUBSET Made /\ call[k].row \in Made
    BY <1>9 DEF Cap, SessionInv, RowsAreMade
  <2>2. token' \in [Ids -> TokenRows] /\ Made' = Made /\ FamiliesAreMade' /\ Prefix'
    BY <1>6, <1>9, <2>1 DEF Cap
  <2>3. access' \subseteq AccessTokens
    BY <1>0, <1>9, <2>1, SignedType DEF Cap
  <2>4. spared' \subseteq Ids
    BY <1>0, <1>9, <2>1 DEF Cap, SessionTypeOK, RotatedAway
  <2>5. SessionTypeOK'
    BY <1>0, <1>2, <1>9, <2>2, <2>3, <2>4 DEF Cap, SessionTypeOK
  <2>6. RowsAreMade'
    BY <1>1, <1>2, <1>9, <2>2, <2>5, OtherRows DEF Cap
  <2>7. Room'
    BY <1>2, <1>4, <1>9, <2>2 DEF Cap, SessionSteps
  <2> QED BY <2>2, <2>5, <2>6, <2>7 DEF SessionInv
<1>10. CASE LockRow(k)
  <2>1. Made' = Made /\ FamiliesAreMade' /\ Prefix'
    BY <1>5, <1>10 DEF LockRow
  <2>2. CASE Enter(k, "rotate") /\ UNCHANGED call
    <3>1. /\ at' = [at EXCEPT ![k] = "rotate"] /\ at'[k] = "rotate" /\ UNCHANGED requests
          /\ at' \in [SessionCalls -> SessionSteps] /\ "rotate" \in SessionSteps
      BY <1>3, <2>2 DEF SessionSteps
    <3>2. SessionTypeOK'
      BY <1>0, <1>10, <2>2, <3>1 DEF LockRow, SessionTypeOK
    <3>3. k \in Creating /\ call'[k].row \in Made
      BY <1>10, <2>2 DEF LockRow, Creating, SessionInv, RowsAreMade
    <3>4. Room'
      BY <2>1, <3>1, <3>3, RoomIsKept
    <3>5. RowsAreMade'
      BY <1>1, <2>1, <3>1, <3>2, <3>3, OtherRows
    <3> QED BY <2>1, <3>2, <3>4, <3>5 DEF SessionInv
  <2>3. CASE Finish(k)
    <3>1. SessionTypeOK'
      BY <1>0, <1>2, <1>10, <2>3 DEF LockRow, SessionTypeOK
    <3>2. RowsAreMade'
      BY <1>1, <1>2, <2>1, <2>3, <3>1, OtherRows
    <3>3. Room'
      BY <1>2, <1>4, <2>1, <2>3 DEF SessionSteps
    <3> QED BY <2>1, <3>1, <3>2, <3>3 DEF SessionInv
  <2> QED BY <1>10, <2>2, <2>3 DEF LockRow
<1>11. CASE Rotate(k)
  <2> DEFINE r == call[k].row
  <2>1. /\ NextId \in Ids /\ NextId \notin Made /\ r \in Made /\ r # NextId
        /\ token' \in [Ids -> TokenRows] /\ Made' = Made \cup {NextId}
        /\ token'[NextId] = PersistNewRefresh(token[r].family, r)
        /\ token'[r] = [token[r] EXCEPT !.state = "rotated"]
        /\ \A i \in Ids \ {r, NextId} : token'[i] = token[i]
    BY <1>11, Rotates
  <2> HIDE DEF r
  <2>2. access' \subseteq AccessTokens
    BY <1>0, <1>11, <2>1, SignedType DEF Rotate
  <2>3. SessionTypeOK'
    BY <1>0, <1>2, <1>11, <2>1, <2>2 DEF Rotate, SessionTypeOK
  <2>4. RowsAreMade'
    BY <1>1, <1>2, <1>11, <2>1, <2>3, OtherRows DEF Rotate
  <2>5. Room' /\ Prefix'
    <3>1. k \in Creating
      BY <1>11 DEF Rotate, Creating
    <3> QED BY <1>2, <1>11, <2>1, <3>1, RoomIsTaken DEF Rotate, SessionSteps
  <2>6. FamiliesAreMade'
    <3>1. token[r] \in TokenRows
      BY <1>0, <2>1
    <3>2. token'[r].family = token[r].family /\ token'[NextId].family = token[r].family
      BY <2>1, <3>1 DEF PersistNewRefresh, TokenRows
    <3>3. \A i \in Made : token'[i].family = token[i].family
      BY <1>0, <2>1, <3>2
    <3> QED BY <2>1, <3>2, <3>3 DEF SessionInv, FamiliesAreMade
  <2> QED BY <2>3, <2>4, <2>5, <2>6 DEF SessionInv
<1>12. CASE RevokeRow(k)
  <2>1. call[k].row \in Made
    BY <1>12 DEF RevokeRow, SessionInv, RowsAreMade
  <2>2. token' \in [Ids -> TokenRows] /\ Made' = Made /\ FamiliesAreMade' /\ Prefix'
    <3>1. CASE Revoke({call[k].row})
      BY <1>6, <2>1, <3>1
    <3>2. CASE UNCHANGED token
      BY <1>0, <1>5, <3>2
    <3> QED BY <1>12, <3>1, <3>2 DEF RevokeRow
  <2>3. (Enter(k, "deny") /\ UNCHANGED call) \/ Finish(k)
    BY <1>12 DEF RevokeRow
  <2>4. /\ at' \in [SessionCalls -> SessionSteps] /\ call' \in [SessionCalls -> SessionLocals]
        /\ UNCHANGED requests /\ at'[k] \in {"deny", "idle"}
        /\ at' = [at EXCEPT ![k] = "deny"] \/ at' = [at EXCEPT ![k] = "idle"]
    BY <1>0, <1>2, <1>3, <2>3 DEF SessionSteps
  <2>5. spared' \subseteq Ids
    BY <1>0, <1>12, <2>1 DEF RevokeRow, SessionTypeOK, RotatedAway
  <2>6. SessionTypeOK'
    BY <1>0, <1>12, <2>2, <2>4, <2>5 DEF RevokeRow, SessionTypeOK
  <2>7. RowsAreMade'
    BY <1>1, <2>2, <2>4, <2>6, OtherRows
  <2>8. Room'
    BY <1>4, <2>2, <2>4 DEF SessionSteps
  <2> QED BY <2>2, <2>6, <2>7, <2>8 DEF SessionInv
<1>13. CASE RevokeStart(k)
  <2>1. Unrevoked \in SUBSET Ids
    BY DEF Unrevoked
  <2>2. call' \in [SessionCalls -> SessionLocals]
    BY <1>0, <1>13, <2>1, SessionEnters DEF RevokeStart
  <2>3. /\ at' = [at EXCEPT ![k] = "revokeAll"] /\ at'[k] = "revokeAll"
        /\ at' \in [SessionCalls -> SessionSteps] /\ UNCHANGED requests
    BY <1>3, <1>13 DEF RevokeStart, SessionSteps
  <2>4. SessionTypeOK'
    BY <1>0, <1>13, <2>2, <2>3 DEF RevokeStart, SessionTypeOK
  <2>5. Made' = Made /\ FamiliesAreMade' /\ Prefix'
    BY <1>5, <1>13 DEF RevokeStart
  <2>6. RowsAreMade'
    BY <1>1, <2>3, <2>4, <2>5, OtherRows
  <2>7. Room'
    BY <1>4, <2>3, <2>5 DEF SessionSteps
  <2> QED BY <2>4, <2>5, <2>6, <2>7 DEF SessionInv
<1>14. CASE RevokeAll(k)
  <2>1. Reachable(k) \in SUBSET Made /\ Reachable(k) \in SUBSET Ids
    BY DEF Reachable, Unrevoked, Made, State
  <2>2. token' \in [Ids -> TokenRows] /\ Made' = Made /\ FamiliesAreMade' /\ Prefix'
    BY <1>6, <1>14, <2>1 DEF RevokeAll
  <2>3. Finish(k) \/ (Enter(k, "deny") /\ call' = [call EXCEPT
                         ![k].deny = ToDeny(k, Reachable(k)), ![k].victims = Reachable(k)])
    BY <1>14 DEF RevokeAll
  <2>4. [[call[k] EXCEPT !.deny = ToDeny(k, Reachable(k))] EXCEPT !.victims = Reachable(k)] \in SessionLocals
    BY <1>0, <2>1 DEF SessionLocals, ToDeny
  <2>5. call' \in [SessionCalls -> SessionLocals]
    BY <1>0, <1>2, <2>3, <2>4
  <2>6. /\ at' \in [SessionCalls -> SessionSteps] /\ UNCHANGED requests /\ at'[k] \in {"deny", "idle"}
        /\ at' = [at EXCEPT ![k] = "deny"] \/ at' = [at EXCEPT ![k] = "idle"]
    BY <1>2, <1>3, <2>3 DEF SessionSteps
  <2>7. spared' \subseteq Ids
    BY <1>0, <1>14, <2>1 DEF RevokeAll, SessionTypeOK, RotatedAway
  <2>8. SessionTypeOK'
    BY <1>0, <1>14, <2>2, <2>5, <2>6, <2>7 DEF RevokeAll, SessionTypeOK
  <2>9. RowsAreMade'
    BY <1>1, <2>2, <2>6, <2>8, OtherRows
  <2>10. Room'
    BY <1>4, <2>2, <2>6 DEF SessionSteps
  <2> QED BY <2>2, <2>8, <2>9, <2>10 DEF SessionInv
<1>15. CASE Deny(k) \/ CrashSession(k)
  <2>1. Finish(k) /\ UNCHANGED <<token, graced, access>>
    BY <1>15 DEF Deny, CrashSession
  <2>2. denied' \subseteq Ids \cup {MembershipId} /\ spared' \subseteq Ids
    BY <1>0, <1>15 DEF Deny, CrashSession, SessionTypeOK, SessionLocals
  <2>3. crashes' \in 0..MaxCrashes
    BY <1>0, <1>15, SessionAssumption DEF Deny, CrashSession, SessionTypeOK, SessionAssumption
  <2>4. SessionTypeOK'
    BY <1>0, <1>2, <2>1, <2>2, <2>3 DEF SessionTypeOK
  <2>5. Made' = Made /\ FamiliesAreMade' /\ Prefix'
    BY <1>5, <2>1
  <2>6. RowsAreMade'
    BY <1>1, <1>2, <2>1, <2>4, <2>5, OtherRows
  <2>7. Room'
    BY <1>2, <1>4, <2>1, <2>5 DEF SessionSteps
  <2> QED BY <2>4, <2>5, <2>6, <2>7 DEF SessionInv
<1> QED BY <1>7, <1>8, <1>9, <1>10, <1>11, <1>12, <1>13, <1>14, <1>15 DEF SessionStep

LEMMA SessionStepInv == SessionInv /\ [SessionNext]_sessionVars => SessionInv'
BY RequestInv, TimeInv, CallInv DEF SessionNext

-----------------------------------------------------------------------------
(* What a step may do to the table, and to the calls that hold a row.       *)

LEMMA TableMoves ==
    ASSUME SessionInv, [SessionNext]_sessionVars
    PROVE  \/ UNCHANGED token
           \/ \E S \in SUBSET Made : Revoke(S) /\ \A i \in S : ~Locked(i)
           \/ \E k \in SessionCalls : Issue(k) \/ Rotate(k)
           \/ \E i \in Ids : SessionExpires(i)
<1>1. ASSUME NEW k \in SessionCalls, SessionRequest(k) \/ BeginRemoval(k) \/ CrashSession(k)
      PROVE  UNCHANGED token
  BY <1>1 DEF SessionRequest, BeginLogin, BeginPassword, BeginRefresh, BeginRevokeSession, BeginLogoutAll,
         BeginLogout, Switch, BeginRemoval, CrashSession
<1>2. ASSUME NEW k \in SessionCalls, SessionStep(k)
      PROVE  \/ UNCHANGED token
             \/ \E S \in SUBSET Made : Revoke(S) /\ \A i \in S : ~Locked(i)
             \/ Issue(k) \/ Rotate(k)
  <2>1. CASE Cap(k)
    <3>1. call[k].victims \in SUBSET Made
      BY <2>1 DEF Cap, SessionInv, RowsAreMade
    <3> QED BY <2>1, <3>1 DEF Cap
  <2>2. CASE RevokeRow(k)
    <3>1. {call[k].row} \in SUBSET Made
      BY <2>2 DEF RevokeRow, SessionInv, RowsAreMade
    <3>2. UNCHANGED token \/ Revoke({call[k].row})
      BY <2>2 DEF RevokeRow
    <3>3. \A i \in {call[k].row} : ~Locked(i)
      BY <2>2 DEF RevokeRow
    <3> QED BY <3>1, <3>2, <3>3
  <2>3. CASE RevokeAll(k)
    <3>1. Reachable(k) \in SUBSET Made
      BY DEF Reachable, Unrevoked, Made, State
    <3> QED BY <2>3, <3>1 DEF RevokeAll
  <2>4. CASE CapStart(k) \/ LockRow(k) \/ RevokeStart(k) \/ Deny(k)
    BY <2>4 DEF CapStart, LockRow, RevokeStart, Deny
  <2> QED BY <1>2, <2>1, <2>2, <2>3, <2>4 DEF SessionStep
<1>3. SessionTime => UNCHANGED token \/ \E i \in Ids : SessionExpires(i)
  BY DEF SessionTime, GraceEnds, AccessExpires, DenialEnds
<1>4. UNCHANGED sessionVars => UNCHANGED token
  BY DEF sessionVars
<1> QED BY <1>1, <1>2, <1>3, <1>4 DEF SessionNext

LEMMA LockMoves ==
    ASSUME SessionInv, [SessionNext]_sessionVars, NEW q \in SessionCalls, at'[q] = "rotate"
    PROVE  \/ at[q] = "rotate" /\ call'[q] = call[q] /\ ~Rotate(q)
           \/ /\ LockRow(q) /\ State(call[q].row) = "active" /\ UNCHANGED <<token, call>>
              /\ at' = [at EXCEPT ![q] = "rotate"] /\ ~Locked(call[q].row)
<1>0. at \in [SessionCalls -> SessionSteps] /\ call \in [SessionCalls -> SessionLocals]
  BY DEF SessionInv, SessionTypeOK
<1>1. ASSUME NEW k \in SessionCalls, SessionRequest(k) \/ BeginRemoval(k)
      PROVE  at[q] = "rotate" /\ call'[q] = call[q]
  BY <1>0, <1>1 DEF SessionRequest, BeginLogin, BeginPassword, BeginRefresh, BeginRevokeSession,
         BeginLogoutAll, BeginLogout, Switch, BeginRemoval, Start, Enter
<1>2. ASSUME NEW k \in SessionCalls, SessionStep(k) \/ CrashSession(k), ~LockRow(k)
      PROVE  at[q] = "rotate" /\ call'[q] = call[q]
  BY <1>0, <1>2 DEF SessionStep, CrashSession, Issue, CapStart, Cap, Rotate, RevokeRow, RevokeStart,
         RevokeAll, Deny, Enter, Finish
<1>3. ASSUME NEW k \in SessionCalls \ {q}, LockRow(k)
      PROVE  at[q] = "rotate" /\ call'[q] = call[q]
  BY <1>0, <1>3 DEF LockRow, Enter, Finish
<1>4. CASE LockRow(q)
  <2>1. State(call[q].row) = "active" /\ Enter(q, "rotate") /\ UNCHANGED <<token, call>>
    BY <1>0, <1>4 DEF LockRow, Finish
  <2>2. call[q].row \in Matching(call[q].row)
    BY <1>4 DEF LockRow, SessionInv, RowsAreMade, Matching
  <2> QED BY <1>4, <2>1, <2>2 DEF LockRow, Enter
<1>5. SessionTime \/ UNCHANGED sessionVars => at[q] = "rotate" /\ call'[q] = call[q]
  BY DEF SessionTime, GraceEnds, AccessExpires, DenialEnds, SessionExpires, sessionVars
<1>6. ~Rotate(q)
  BY <1>0 DEF Rotate, Finish
<1> QED BY <1>1, <1>2, <1>3, <1>4, <1>5, <1>6 DEF SessionNext

-----------------------------------------------------------------------------
(* One chain per family.                                                    *)

Live == {"active", "expired"}

\* A call that is about to rotate holds the lock on a live row; a row that has
\* been replaced is live no more; a family has one live row.
ChainInv ==
    /\ \A k \in SessionCalls : at[k] = "rotate" => State(call[k].row) \in Live
    /\ \A k, q \in SessionCalls :
          at[k] = "rotate" /\ at[q] = "rotate" /\ call[k].row = call[q].row => k = q
    /\ \A i \in Made : token[i].previous # NoToken =>
          token[i].previous \in Made /\ State(token[i].previous) \notin Live
    /\ \A i, j \in Made : token[i].previous = token[j].previous
                              => i = j \/ token[i].previous = NoToken
    /\ \A i, j \in Unrevoked : token[i].family = token[j].family => i = j

LEMMA ChainInit == SessionInit => ChainInv
<1> SUFFICES ASSUME SessionInit PROVE ChainInv
  OBVIOUS
<1>1. 1 \in Ids
  BY SessionAssumption DEF SessionAssumption, Ids
<1>2. Made = {1} /\ Unrevoked \subseteq {1} /\ token[1].previous = NoToken
  BY <1>1 DEF SessionInit, Made, Unrevoked, State, NoRow
<1> QED BY <1>2 DEF SessionInit, ChainInv

LEMMA ChainStep == SessionInv /\ ChainInv /\ [SessionNext]_sessionVars => ChainInv'
<1> SUFFICES ASSUME SessionInv, ChainInv, [SessionNext]_sessionVars PROVE ChainInv'
  OBVIOUS
<1>0. /\ token \in [Ids -> TokenRows] /\ Made \subseteq Ids /\ Unrevoked \subseteq Made
      /\ \A i \in Made : token[i].family \in Made
      /\ \A i \in Ids : i \in Unrevoked <=> State(i) \in Live
  BY DEF SessionInv, SessionTypeOK, FamiliesAreMade, Made, Unrevoked, State, Live
<1>1. \A k, q \in SessionCalls :
          at'[k] = "rotate" /\ at'[q] = "rotate" /\ call'[k].row = call'[q].row => k = q
  <2> TAKE k, q \in SessionCalls
  <2> HAVE at'[k] = "rotate" /\ at'[q] = "rotate" /\ call'[k].row = call'[q].row
  <2>1. CASE at[k] = "rotate" /\ call'[k] = call[k] /\ at[q] = "rotate" /\ call'[q] = call[q]
    BY <2>1 DEF ChainInv
  <2>2. ASSUME NEW a \in SessionCalls, NEW b \in SessionCalls, a # b,
               at'[b] = "rotate", call'[a].row = call'[b].row,
               LockRow(a), UNCHANGED call, at' = [at EXCEPT ![a] = "rotate"], ~Locked(call[a].row)
        PROVE  FALSE
    <3>1. at[b] = "rotate" /\ call[b].row = call[a].row
      BY <2>2 DEF SessionInv, SessionTypeOK
    <3> QED BY <2>2, <3>1 DEF Locked
  <2>3. \/ at[k] = "rotate" /\ call'[k] = call[k]
        \/ LockRow(k) /\ UNCHANGED call /\ at' = [at EXCEPT ![k] = "rotate"] /\ ~Locked(call[k].row)
    BY LockMoves
  <2>4. \/ at[q] = "rotate" /\ call'[q] = call[q]
        \/ LockRow(q) /\ UNCHANGED call /\ at' = [at EXCEPT ![q] = "rotate"] /\ ~Locked(call[q].row)
    BY LockMoves
  <2> QED BY <2>1, <2>2, <2>3, <2>4
<1>2. CASE UNCHANGED token
  <2>1. \A k \in SessionCalls : at'[k] = "rotate" => token'[call'[k].row].state \in Live
    BY <1>2, LockMoves DEF ChainInv, State, Live
  <2> QED BY <1>1, <1>2, <2>1 DEF ChainInv, Made, Unrevoked, State
<1>3. ASSUME NEW S \in SUBSET Made, Revoke(S), \A i \in S : ~Locked(i), token' # token
      PROVE  ChainInv'
  <2>1. /\ Made' = Made
        /\ \A i \in Ids : /\ token'[i].family = token[i].family
                          /\ token'[i].previous = token[i].previous
                          /\ token'[i].state = IF i \in S THEN "revoked" ELSE token[i].state
    BY <1>0, <1>3, Revokes
  <2>2. \A k \in SessionCalls : at'[k] = "rotate" => token'[call'[k].row].state \in Live
    <3> TAKE k \in SessionCalls
    <3> HAVE at'[k] = "rotate"
    <3>1. at[k] = "rotate" /\ call'[k] = call[k]
      BY <1>3, LockMoves
    <3>2. call[k].row \in Made /\ State(call[k].row) \in Live
      BY <3>1 DEF SessionInv, RowsAreMade, ChainInv
    <3>3. call[k].row \notin S
      BY <1>3, <3>1 DEF Locked
    <3> QED BY <1>0, <2>1, <3>1, <3>2, <3>3 DEF State
  <2>3. \A i \in Made : token'[i].previous # NoToken =>
            token'[i].previous \in Made /\ token'[token'[i].previous].state \notin Live
    BY <1>0, <2>1 DEF ChainInv, State, Live
  <2>4. \A i, j \in Made : token'[i].previous = token'[j].previous => i = j \/ token'[i].previous = NoToken
    BY <1>0, <2>1 DEF ChainInv
  <2>5. \A i, j \in Ids : token'[i].state \in Live /\ token'[j].state \in Live
            /\ token'[i].family = token'[j].family => i = j
    BY <1>0, <2>1 DEF ChainInv, State, Live
  <2> QED BY <1>1, <2>1, <2>2, <2>3, <2>4, <2>5 DEF ChainInv, Unrevoked, State, Live
<1>4. ASSUME NEW k \in SessionCalls, Issue(k) PROVE ChainInv'
  <2>1. NextId \in Ids /\ NextId \notin Made
    <3>1. k \in Creating
      BY <1>4 DEF Issue, Creating
    <3> QED BY <3>1, FreshRow
  <2>2. /\ Made' = Made \cup {NextId} /\ token'[NextId] = PersistNewRefresh(NextId, NoToken)
        /\ \A i \in Ids \ {NextId} : token'[i] = token[i]
    BY <1>0, <1>4, <2>1, Inserts DEF Issue
  <2>3. \A q \in SessionCalls : at'[q] = "rotate" => token'[call'[q].row].state \in Live
    <3> TAKE q \in SessionCalls
    <3> HAVE at'[q] = "rotate"
    <3>1. at[q] = "rotate" /\ call'[q] = call[q]
      BY <1>4, LockMoves DEF Issue, LockRow, SessionInv, SessionTypeOK, Enter
    <3>2. call[q].row \in Made /\ State(call[q].row) \in Live
      BY <3>1 DEF SessionInv, RowsAreMade, ChainInv
    <3> QED BY <1>0, <2>1, <2>2, <3>1, <3>2 DEF State
  <2>4. token'[NextId].previous = NoToken /\ token'[NextId].family = NextId /\ NoToken \notin Ids
    BY <2>2 DEF PersistNewRefresh, NoToken, Ids
  <2>5. \A i \in Made' : token'[i].previous # NoToken =>
            token'[i].previous \in Made' /\ token'[token'[i].previous].state \notin Live
    BY <1>0, <2>1, <2>2, <2>4 DEF ChainInv, State
  <2>6. \A i, j \in Made' : token'[i].previous = token'[j].previous => i = j \/ token'[i].previous = NoToken
    BY <1>0, <2>1, <2>2, <2>4 DEF ChainInv
  <2>7. \A i, j \in Ids : token'[i].state \in Live /\ token'[j].state \in Live
            /\ token'[i].family = token'[j].family => i = j
    <3>1. \A i \in Ids \ {NextId} : token'[i].state \in Live => token'[i].family # NextId
      BY <1>0, <2>1, <2>2 DEF State
    <3>2. \A i, j \in Ids \ {NextId} : token'[i].state \in Live /\ token'[j].state \in Live
              /\ token'[i].family = token'[j].family => i = j
      BY <1>0, <2>2 DEF ChainInv, State
    <3> QED BY <2>4, <3>1, <3>2
  <2> QED BY <1>1, <2>3, <2>5, <2>6, <2>7 DEF ChainInv, Unrevoked, State, Live
<1>5. ASSUME NEW k \in SessionCalls, Rotate(k) PROVE ChainInv'
  <2> DEFINE r == call[k].row
  <2>1. /\ NextId \in Ids /\ NextId \notin Made /\ r \in Made /\ r # NextId
        /\ Made' = Made \cup {NextId}
        /\ token'[NextId] = PersistNewRefresh(token[r].family, r)
        /\ token'[r] = [token[r] EXCEPT !.state = "rotated"]
        /\ \A i \in Ids \ {r, NextId} : token'[i] = token[i]
    BY <1>5, Rotates
  <2>2. State(r) \in Live
    BY <1>5 DEF Rotate, ChainInv
  <2>3. \A q \in SessionCalls : at'[q] = "rotate" => token'[call'[q].row].state \in Live
    <3> TAKE q \in SessionCalls
    <3> HAVE at'[q] = "rotate"
    <3>1. at[q] = "rotate" /\ call'[q] = call[q] /\ q # k
      <4>1. ~LockRow(q)
        <5>1. at[k] = "rotate" /\ at'[k] = "idle" /\ q # k
          BY <1>5 DEF Rotate, Finish, SessionInv, SessionTypeOK
        <5>2. at'[q] = at[q]
          BY <1>5, <5>1 DEF Rotate, Finish, SessionInv, SessionTypeOK
        <5> QED BY <5>2 DEF LockRow
      <4> QED BY <1>5, <4>1, LockMoves
    <3>2. call[q].row \in Made /\ State(call[q].row) \in Live /\ call[q].row # r
      BY <1>5, <3>1 DEF SessionInv, RowsAreMade, ChainInv, Rotate
    <3> QED BY <1>0, <2>1, <3>1, <3>2 DEF State
  <2>4. NoToken \notin Ids
    BY DEF NoToken, Ids
  <2>5. token[r] \in TokenRows /\ r \in Ids
    BY <1>0, <2>1
  <2> HIDE DEF r
  <2>6. /\ token'[NextId].previous = r /\ token'[NextId].family = token[r].family
        /\ token'[r].state = "rotated" /\ token'[r].previous = token[r].previous
        /\ token'[r].family = token[r].family
    BY <2>1, <2>5 DEF PersistNewRefresh, TokenRows
  <2>7. \A i \in Made : token'[i].previous = token[i].previous /\ token[i].previous # r
    <3>1. \A i \in Made : token[i].previous # r
      BY <2>1, <2>2, <2>4, <2>5 DEF ChainInv
    <3> QED BY <1>0, <2>1, <2>6, <3>1
  <2>8. \A i \in Made' : token'[i].previous # NoToken =>
            token'[i].previous \in Made' /\ token'[token'[i].previous].state \notin Live
    <3>1. \A i \in Made : token[i].previous # NoToken =>
              token[i].previous \in Made /\ token'[token[i].previous].state \notin Live
      BY <1>0, <2>1, <2>7 DEF ChainInv, State
    <3>2. "rotated" \notin Live
      BY DEF Live
    <3>3. \A i \in Made : token'[i].previous # NoToken =>
              token'[i].previous \in Made' /\ token'[token'[i].previous].state \notin Live
      BY <2>1, <2>7, <3>1
    <3>4. token'[NextId].previous \in Made' /\ token'[token'[NextId].previous].state \notin Live
      BY <2>1, <2>6, <3>2
    <3> QED BY <2>1, <3>3, <3>4
  <2>9. \A i, j \in Made' : token'[i].previous = token'[j].previous => i = j \/ token'[i].previous = NoToken
    BY <2>1, <2>6, <2>7 DEF ChainInv
  <2>10. \A i, j \in Ids : token'[i].state \in Live /\ token'[j].state \in Live
            /\ token'[i].family = token'[j].family => i = j
    <3>1. \A i \in Ids \ {r, NextId} : token'[i].state \in Live => token'[i].family # token[r].family
      BY <1>0, <2>1, <2>2, <2>5 DEF ChainInv, State
    <3>2. \A i, j \in Ids \ {r, NextId} : token'[i].state \in Live /\ token'[j].state \in Live
              /\ token'[i].family = token'[j].family => i = j
      BY <1>0, <2>1 DEF ChainInv, State
    <3>3. token'[r].state \notin Live
      BY <2>6 DEF Live
    <3> QED BY <2>6, <3>1, <3>2, <3>3
  <2> QED BY <1>1, <2>3, <2>8, <2>9, <2>10 DEF ChainInv, Unrevoked, State, Live
<1>6. ASSUME NEW i \in Ids, SessionExpires(i) PROVE ChainInv'
  <2>1. /\ token[i].state = "active" /\ token' = [token EXCEPT ![i].state = "expired"] /\ UNCHANGED <<at, call>>
    BY <1>6 DEF SessionExpires, State
  <2>2. token[i] \in TokenRows
    BY <1>0
  <2>3. /\ token'[i].state = "expired" /\ token'[i].family = token[i].family
        /\ token'[i].previous = token[i].previous /\ \A j \in Ids \ {i} : token'[j] = token[j]
    BY <1>0, <2>1, <2>2 DEF TokenRows
  <2>4. \A j \in Ids :
            /\ token'[j].family = token[j].family /\ token'[j].previous = token[j].previous
            /\ token'[j].state \in Live <=> token[j].state \in Live
            /\ token'[j].state # "none" <=> token[j].state # "none"
    BY <2>1, <2>3 DEF Live
  <2>5. Made' = Made
    BY <2>4 DEF Made, State
  <2>6. \A q \in SessionCalls : at[q] = "rotate" => call[q].row \in Made
    BY DEF SessionInv, RowsAreMade
  <2>7. \A q \in SessionCalls : at'[q] = "rotate" => token'[call'[q].row].state \in Live
    BY <1>0, <2>1, <2>4, <2>6 DEF ChainInv, State
  <2>8. \A j \in Made : token'[j].previous # NoToken =>
            token'[j].previous \in Made /\ token'[token'[j].previous].state \notin Live
    BY <1>0, <2>4 DEF ChainInv, State
  <2>9. \A j, l \in Ids : token'[j].state \in Live /\ token'[l].state \in Live
            /\ token'[j].family = token'[l].family => j = l
    BY <1>0, <2>4 DEF ChainInv, State
  <2>10. \A j, l \in Made : token'[j].previous = token'[l].previous => j = l \/ token'[j].previous = NoToken
    BY <1>0, <2>4 DEF ChainInv
  <2> QED BY <1>1, <2>5, <2>7, <2>8, <2>9, <2>10 DEF ChainInv, Unrevoked, State, Live
<1> QED BY <1>2, <1>3, <1>4, <1>5, <1>6, TableMoves

-----------------------------------------------------------------------------
(* The access to a session that is over.                                    *)

Spared(i)  == i \in spared
Denying(i) == \E k \in SessionCalls : at[k] = "deny" /\ i \in call[k].deny
\* Nobody has an access token of the row, and no call is about to sign one.
Unsigned(i) == /\ \A j \in access : j.jti # i
               /\ \A k \in SessionCalls : at[k] \in {"capStart", "cap"} => call[k].row # i

\* Nothing signed for the row is to be taken any more: the row is revoked, or
\* the session it belonged to has no row that is not.
Over(i) == State(i) \in {"none", "revoked"} \/ ~GoesOn(i)

DenyInv ==
    \A i \in Ids : Over(i) => Spared(i) \/ i \in denied \/ Denying(i) \/ Unsigned(i)

LEMMA OneIsAnId == 1 \in Ids
BY SessionAssumption DEF SessionAssumption, Ids

LEMMA DenyInit == SessionInit => DenyInv
<1> SUFFICES ASSUME SessionInit, NEW i \in Ids, Over(i) PROVE Unsigned(i)
  BY DEF DenyInv
<1>1. CASE i = 1
  <2>1. State(1) = "active" /\ 1 \in Unrevoked
    BY OneIsAnId DEF SessionInit, State, Unrevoked
  <2> QED BY <1>1, <2>1 DEF Over, GoesOn, SameSession
<1>2. CASE i # 1
  BY <1>2 DEF SessionInit, Unsigned
<1> QED BY <1>1, <1>2

\* What one step does to the denylist and to the calls on their way there.
LEMMA DenialMoves ==
    ASSUME SessionInv, [SessionNext]_sessionVars, NEW i \in Ids
    PROVE  /\ Spared(i) => Spared(i)'
           /\ i \in denied => i \in denied' \/ Unsigned(i)'
           /\ Denying(i) => Denying(i)' \/ i \in denied' \/ Spared(i)'
<1>0. /\ at \in [SessionCalls -> SessionSteps] /\ call \in [SessionCalls -> SessionLocals]
      /\ i # MembershipId
  BY DEF SessionInv, SessionTypeOK, Ids, MembershipId
<1>1. Spared(i) => Spared(i)'
  <2>1. ASSUME NEW k \in SessionCalls, SessionRequest(k) \/ BeginRemoval(k)
        PROVE  UNCHANGED spared
    BY <2>1 DEF SessionRequest, BeginLogin, BeginPassword, BeginRefresh, BeginRevokeSession,
           BeginLogoutAll, BeginLogout, Switch, BeginRemoval, Start
  <2>2. ASSUME NEW k \in SessionCalls, SessionStep(k) \/ CrashSession(k)
        PROVE  spared \subseteq spared'
    BY <2>2 DEF SessionStep, CrashSession, Issue, CapStart, Cap, LockRow, Rotate, RevokeRow, RevokeStart,
           RevokeAll, Deny
  <2>3. SessionTime \/ UNCHANGED sessionVars => UNCHANGED spared
    BY DEF SessionTime, GraceEnds, AccessExpires, DenialEnds, SessionExpires, sessionVars
  <2> QED BY <2>1, <2>2, <2>3 DEF SessionNext, Spared
<1>2. i \in denied => i \in denied' \/ Unsigned(i)'
  <2>1. ASSUME NEW k \in SessionCalls, SessionRequest(k) \/ BeginRemoval(k)
        PROVE  UNCHANGED denied
    BY <2>1 DEF SessionRequest, BeginLogin, BeginPassword, BeginRefresh, BeginRevokeSession,
           BeginLogoutAll, BeginLogout, Switch, BeginRemoval, Start
  <2>2. ASSUME NEW k \in SessionCalls, SessionStep(k) \/ CrashSession(k)
        PROVE  denied \subseteq denied'
    BY <2>2 DEF SessionStep, CrashSession, Issue, CapStart, Cap, LockRow, Rotate, RevokeRow, RevokeStart,
           RevokeAll, Deny
  <2>3. GraceEnds \/ (\E j \in access : AccessExpires(j)) \/ (\E d \in Ids : SessionExpires(d))
        \/ UNCHANGED sessionVars => UNCHANGED denied
    BY DEF GraceEnds, AccessExpires, SessionExpires, sessionVars
  <2>4. ASSUME NEW d \in denied, DenialEnds(d), i \in denied, i \notin denied'
        PROVE  Unsigned(i)'
    BY <2>4 DEF DenialEnds, Unsigned
  <2> QED BY <2>1, <2>2, <2>3, <2>4 DEF SessionNext, SessionTime
<1>3. ASSUME NEW q \in SessionCalls, at[q] = "deny", i \in call[q].deny
      PROVE  Denying(i)' \/ i \in denied' \/ Spared(i)'
  <2>1. CASE Deny(q)
    BY <1>3, <2>1 DEF Deny
  <2>2. CASE CrashSession(q)
    BY <1>0, <1>3, <2>2 DEF CrashSession, Spared
  <2>3. CASE at'[q] = at[q] /\ call'[q] = call[q]
    BY <1>3, <2>3 DEF Denying
  <2>4. ASSUME NEW k \in SessionCalls, SessionRequest(k) \/ BeginRemoval(k)
        PROVE  at'[q] = at[q] /\ call'[q] = call[q]
    BY <1>0, <1>3, <2>4 DEF SessionRequest, BeginLogin, BeginPassword, BeginRefresh, BeginRevokeSession,
           BeginLogoutAll, BeginLogout, Switch, BeginRemoval, Start, Enter
  <2>5. ASSUME NEW k \in SessionCalls, SessionStep(k) \/ CrashSession(k), ~Deny(q), ~CrashSession(q)
        PROVE  at'[q] = at[q] /\ call'[q] = call[q]
    BY <1>0, <1>3, <2>5 DEF SessionStep, CrashSession, Issue, CapStart, Cap, LockRow, Rotate, RevokeRow,
           RevokeStart, RevokeAll, Deny, Enter, Finish
  <2>6. SessionTime \/ UNCHANGED sessionVars => at'[q] = at[q] /\ call'[q] = call[q]
    BY DEF SessionTime, GraceEnds, AccessExpires, DenialEnds, SessionExpires, sessionVars
  <2> QED BY <2>1, <2>2, <2>3, <2>4, <2>5, <2>6 DEF SessionNext
<1> QED BY <1>1, <1>2, <1>3 DEF Denying

\* A token is signed for a row that was made live in the same step, or by a
\* login for its own.
LEMMA SigningMoves ==
    ASSUME SessionInv, [SessionNext]_sessionVars, NEW i \in Ids, Unsigned(i), ~Unsigned(i)'
    PROVE  token'[i].state = "active"
<1>0. /\ at \in [SessionCalls -> SessionSteps] /\ call \in [SessionCalls -> SessionLocals]
      /\ token \in [Ids -> TokenRows] /\ i # MembershipId
  BY DEF SessionInv, SessionTypeOK, Ids, MembershipId
<1>1. ASSUME access' \subseteq access \cup {[jti |-> MembershipId, young |-> TRUE]},
             \A q \in SessionCalls : at'[q] \in {"capStart", "cap"} =>
                 at[q] \in {"capStart", "cap"} /\ call'[q].row = call[q].row
      PROVE  FALSE
  BY <1>0, <1>1 DEF Unsigned
<1>2. ASSUME NEW k \in SessionCalls, SessionRequest(k) \/ BeginRemoval(k) PROVE FALSE
  <2>1. access' \subseteq access \cup {[jti |-> MembershipId, young |-> TRUE]}
    BY <1>2 DEF SessionRequest, BeginLogin, BeginPassword, BeginRefresh, BeginRevokeSession,
           BeginLogoutAll, BeginLogout, Switch, Sign, BeginRemoval
  <2>2. \A q \in SessionCalls : at'[q] \in {"capStart", "cap"} =>
            at[q] \in {"capStart", "cap"} /\ call'[q].row = call[q].row
    BY <1>0, <1>2 DEF SessionRequest, BeginLogin, BeginPassword, BeginRefresh, BeginRevokeSession,
           BeginLogoutAll, BeginLogout, Switch, BeginRemoval, Start, Enter
  <2> QED BY <1>1, <2>1, <2>2
<1>3. ASSUME NEW k \in SessionCalls, SessionStep(k) \/ CrashSession(k),
             ~Issue(k), ~CapStart(k), ~Cap(k), ~Rotate(k)
      PROVE  FALSE
  <2>1. access' \subseteq access
    BY <1>3 DEF SessionStep, CrashSession, LockRow, RevokeRow, RevokeStart, RevokeAll, Deny
  <2>2. \A q \in SessionCalls : at'[q] \in {"capStart", "cap"} =>
            at[q] \in {"capStart", "cap"} /\ call'[q].row = call[q].row
    BY <1>0, <1>3 DEF SessionStep, CrashSession, LockRow, RevokeRow, RevokeStart, RevokeAll, Deny,
           Enter, Finish
  <2> QED BY <1>1, <2>1, <2>2
<1>4. ASSUME NEW k \in SessionCalls, CapStart(k) PROVE FALSE
  <2>1. access' \subseteq access
    BY <1>4 DEF CapStart
  <2>2. at' = [at EXCEPT ![k] = "cap"] /\ at[k] = "capStart" /\ call' = [call EXCEPT ![k].victims = OverCap]
    BY <1>4 DEF CapStart, Enter
  <2>3. call'[k].row = call[k].row
    BY <1>0, <2>2 DEF SessionLocals
  <2>4. \A q \in SessionCalls : at'[q] \in {"capStart", "cap"} =>
            at[q] \in {"capStart", "cap"} /\ call'[q].row = call[q].row
    BY <1>0, <2>2, <2>3
  <2> QED BY <1>1, <2>1, <2>4
<1>5. ASSUME NEW k \in SessionCalls, Cap(k) PROVE FALSE
  <2>1. access' = access \cup {[jti |-> call[k].row, young |-> TRUE]} /\ call[k].row # i
    BY <1>5 DEF Cap, Sign, Unsigned
  <2>2. \A q \in SessionCalls : at'[q] \in {"capStart", "cap"} =>
            at[q] \in {"capStart", "cap"} /\ call'[q].row = call[q].row
    BY <1>0, <1>5 DEF Cap, Finish
  <2> QED BY <2>1, <2>2 DEF Unsigned
<1>6. ASSUME NEW k \in SessionCalls, Issue(k) PROVE token'[i].state = "active"
  <2>1. access' \subseteq access /\ k \in Creating
    BY <1>6 DEF Issue, Creating
  <2>2. /\ at' = [at EXCEPT ![k] = "capStart"] /\ call' = [call EXCEPT ![k].row = NextId]
        /\ token' = [token EXCEPT ![NextId] = PersistNewRefresh(NextId, NoToken)]
    BY <1>6 DEF Issue, Enter
  <2>3. NextId \in Ids
    BY <2>1, FreshRow
  <2>4. call'[k].row = NextId
    BY <1>0, <2>2, <2>3, SessionEnters DEF SessionInv
  <2>5. CASE i = NextId
    BY <1>0, <2>2, <2>3, <2>5 DEF PersistNewRefresh
  <2>6. CASE i # NextId
    <3>1. \A q \in SessionCalls : at'[q] \in {"capStart", "cap"} => call'[q].row # i
      BY <1>0, <2>2, <2>4, <2>6 DEF Unsigned
    <3> QED BY <2>1, <3>1 DEF Unsigned
  <2> QED BY <2>5, <2>6
<1>7. ASSUME NEW k \in SessionCalls, Rotate(k) PROVE token'[i].state = "active"
  <2>1. access' = access \cup {[jti |-> NextId, young |-> TRUE]}
    BY <1>7 DEF Rotate, Sign
  <2>2. \A q \in SessionCalls : at'[q] \in {"capStart", "cap"} =>
            at[q] \in {"capStart", "cap"} /\ call'[q].row = call[q].row
    BY <1>0, <1>7 DEF Rotate, Finish
  <2>3. i = NextId
    BY <2>1, <2>2 DEF Unsigned
  <2>4. token'[NextId] = PersistNewRefresh(token[call[k].row].family, call[k].row)
    BY <1>7, Rotates
  <2> QED BY <2>3, <2>4 DEF PersistNewRefresh
<1>8. ASSUME SessionTime \/ UNCHANGED sessionVars PROVE FALSE
  <2>1. \A j \in access' : \E l \in access : l.jti = j.jti
    <3>1. GraceEnds => \A j \in access' : \E l \in access : l.jti = j.jti
      BY DEF GraceEnds, SessionInv, SessionTypeOK, AccessTokens
    <3>2. ~GraceEnds => access' \subseteq access
      BY <1>8 DEF SessionTime, AccessExpires, DenialEnds, SessionExpires, sessionVars
    <3> QED BY <3>1, <3>2
  <2>2. UNCHANGED <<at, call>>
    BY <1>8 DEF SessionTime, GraceEnds, AccessExpires, DenialEnds, SessionExpires, sessionVars
  <2> QED BY <2>1, <2>2 DEF Unsigned
<1> QED BY <1>2, <1>3, <1>4, <1>5, <1>6, <1>7, <1>8 DEF SessionNext, SessionStep

\* Where rows are revoked and a session ends with them, they are what was not
\* rotated away before.
LEMMA SessionEnds ==
    ASSUME SessionInv, NEW S \in SUBSET Made, Revoke(S), NEW i \in Ids, ~Over(i), Over(i)'
    PROVE  i \in S \cup RotatedAway(S)
<1>1. /\ token \in [Ids -> TokenRows] /\ Made' = Made
      /\ \A r \in Ids : /\ token'[r].family = token[r].family
                        /\ token'[r].state = IF r \in S THEN "revoked" ELSE token[r].state
  BY Revokes DEF SessionInv, SessionTypeOK
<1>2. SUFFICES ASSUME i \notin S PROVE i \in RotatedAway(S)
  OBVIOUS
<1>3. /\ State(i) \notin {"none", "revoked"} /\ i \in Made /\ GoesOn(i)
      /\ token'[i].state = token[i].state
  BY <1>1, <1>2 DEF Over, State, Made
<1>4. ASSUME NEW r \in Unrevoked, SameSession(i, r) PROVE r \in S
  <2> SUFFICES ASSUME r \notin S PROVE FALSE
    OBVIOUS
  <2>1. r \in Ids /\ token'[r].state = token[r].state
    BY <1>1 DEF Unrevoked
  <2>2. r \in Unrevoked' /\ SameSession(i, r)'
    BY <1>1, <1>4, <2>1 DEF Unrevoked, State, SameSession
  <2> QED BY <1>3, <2>2 DEF Over, GoesOn, State
<1>5. State(i) = "rotated"
  <2>1. i \notin Unrevoked
    BY <1>2, <1>4 DEF SameSession
  <2> QED BY <1>1, <1>3, <2>1 DEF State, Unrevoked, TokenRows, TokenStates
<1> QED BY <1>3, <1>4, <1>5 DEF RotatedAway, GoesOn

\* A new row, or one that expires, ends no session.
LEMMA SessionGoesOn ==
    ASSUME SessionInv, NEW i \in Ids, ~Over(i),
           \/ \E k \in SessionCalls : Issue(k) \/ Rotate(k)
           \/ \E d \in Ids : SessionExpires(d)
    PROVE  ~Over(i)'
<1>0. /\ token \in [Ids -> TokenRows] /\ Made \subseteq Ids
      /\ State(i) \notin {"none", "revoked"} /\ i \in Made
  BY DEF SessionInv, SessionTypeOK, Made, Over, State
<1>1. PICK r \in Unrevoked : SameSession(i, r)
  BY DEF Over, GoesOn
<1>2. r \in Made /\ State(r) \in {"active", "expired"}
  BY <1>1 DEF Unrevoked, Made, State
<1>3. ASSUME token'[i].state \notin {"none", "revoked"}, token'[i].family = token[i].family,
             NEW q \in Ids, token'[q].state \in {"active", "expired"}, token'[q].family = token[r].family
      PROVE  ~Over(i)'
  <2>1. q \in Unrevoked' /\ SameSession(i, q)'
    BY <1>1, <1>3 DEF Unrevoked, State, SameSession
  <2> QED BY <1>3, <2>1 DEF Over, GoesOn, State
<1>4. ASSUME NEW k \in SessionCalls, Issue(k) PROVE ~Over(i)'
  <2>1. k \in Creating
    BY <1>4 DEF Issue, Creating
  <2>2. NextId \in Ids /\ NextId \notin Made
    BY <2>1, FreshRow
  <2>3. token'[i] = token[i] /\ token'[r] = token[r]
    BY <1>0, <1>2, <1>4, <2>2, Inserts DEF Issue
  <2> QED BY <1>0, <1>2, <1>3, <2>3 DEF State
<1>5. ASSUME NEW k \in SessionCalls, Rotate(k) PROVE ~Over(i)'
  <2>1. PICK c \in Made : /\ NextId \in Ids /\ NextId \notin Made
                           /\ token'[NextId] = PersistNewRefresh(token[c].family, c)
                           /\ token'[c] = [token[c] EXCEPT !.state = "rotated"]
                           /\ \A l \in Ids \ {c, NextId} : token'[l] = token[l]
    BY <1>5, Rotates
  <2>2. token[c] \in TokenRows
    BY <1>0, <2>1
  <2>3. /\ token'[NextId].state = "active" /\ token'[NextId].family = token[c].family
        /\ token'[c].state = "rotated" /\ token'[c].family = token[c].family
    BY <2>1, <2>2 DEF PersistNewRefresh, TokenRows
  <2>4. token'[i].state \notin {"none", "revoked"} /\ token'[i].family = token[i].family
    BY <1>0, <2>1, <2>3 DEF State
  <2>5. CASE r = c
    BY <1>3, <2>1, <2>3, <2>4, <2>5
  <2>6. CASE r # c
    <3>1. token'[r] = token[r]
      BY <1>0, <1>2, <2>1, <2>6
    <3> QED BY <1>0, <1>2, <1>3, <2>4, <3>1 DEF State
  <2> QED BY <2>5, <2>6
<1>6. ASSUME NEW d \in Ids, SessionExpires(d) PROVE ~Over(i)'
  <2>1. token' = [token EXCEPT ![d].state = "expired"] /\ token[d].state = "active" /\ token[d] \in TokenRows
    BY <1>0, <1>6 DEF SessionExpires, State
  <2>2. \A l \in Ids : /\ token'[l].family = token[l].family
                       /\ token'[l].state = IF l = d THEN "expired" ELSE token[l].state
    BY <1>0, <2>1 DEF TokenRows
  <2> QED BY <1>0, <1>2, <1>3, <2>2 DEF State
<1> QED BY <1>4, <1>5, <1>6

\* Who ends a session denies the access to it, or knowingly spares it.
LEMMA RevocationMoves ==
    ASSUME SessionInv, [SessionNext]_sessionVars, NEW i \in Ids, ~Over(i), Over(i)'
    PROVE  Spared(i)' \/ Denying(i)'
<1>0. /\ at \in [SessionCalls -> SessionSteps] /\ call \in [SessionCalls -> SessionLocals]
      /\ token \in [Ids -> TokenRows] /\ Made \subseteq Ids
  BY DEF SessionInv, SessionTypeOK, Made
<1>1. ASSUME NEW S \in SUBSET Made, Revoke(S) PROVE i \in S \cup RotatedAway(S)
  BY <1>1, SessionEnds
<1>2. ASSUME NEW k \in SessionCalls, Cap(k) PROVE Spared(i)'
  <2>1. call[k].victims \in SUBSET Made
    BY <1>2 DEF Cap, SessionInv, RowsAreMade
  <2>2. Revoke(call[k].victims) /\ spared' = spared \cup call[k].victims \cup RotatedAway(call[k].victims)
    BY <1>2 DEF Cap
  <2>3. i \in call[k].victims \cup RotatedAway(call[k].victims)
    BY <1>1, <2>1, <2>2
  <2> QED BY <2>2, <2>3 DEF Spared
<1>3. ASSUME UNCHANGED token PROVE FALSE
  BY <1>3 DEF Over, GoesOn, SameSession, Unrevoked, State
<1>4. ASSUME NEW k \in SessionCalls, RevokeRow(k) PROVE Spared(i)' \/ Denying(i)'
  <2>1. PICK c \in Made : c = call[k].row
    BY <1>4 DEF RevokeRow, SessionInv, RowsAreMade
  <2>2. /\ Revoke({c}) /\ Enter(k, "deny") /\ UNCHANGED call
        /\ spared' = spared \cup (({c} \cup RotatedAway({c})) \ call[k].deny)
    BY <1>3, <1>4, <2>1 DEF RevokeRow
  <2>3. i \in {c} \cup RotatedAway({c})
    BY <1>1, <2>1, <2>2
  <2>4. at'[k] = "deny" /\ call'[k].deny = call[k].deny
    BY <1>0, <2>2 DEF Enter
  <2> QED BY <2>2, <2>3, <2>4 DEF Spared, Denying
<1>5. ASSUME NEW k \in SessionCalls, RevokeAll(k) PROVE Spared(i)' \/ Denying(i)'
  <2>1. Reachable(k) \in SUBSET Made /\ Revoke(Reachable(k))
    BY <1>5 DEF RevokeAll, Reachable, Unrevoked, Made, State
  <2>2. i \in Reachable(k) \cup RotatedAway(Reachable(k))
    BY <1>1, <2>1
  <2>3. CASE spared' = spared \cup Reachable(k) \cup RotatedAway(Reachable(k))
    BY <2>2, <2>3 DEF Spared
  <2>4. CASE /\ Enter(k, "deny")
             /\ spared' = spared \cup (RotatedAway(Reachable(k)) \ call[k].deny)
             /\ call' = [call EXCEPT ![k].deny = ToDeny(k, Reachable(k)), ![k].victims = Reachable(k)]
    <3>1. call'[k].deny = call[k].deny \cup Reachable(k) /\ at'[k] = "deny"
      BY <1>0, <2>4 DEF Enter, SessionLocals, ToDeny
    <3> QED BY <2>2, <2>4, <3>1 DEF Spared, Denying
  <2> QED BY <1>5, <2>3, <2>4 DEF RevokeAll
<1>6. ASSUME NEW k \in SessionCalls, Issue(k) \/ Rotate(k) PROVE FALSE
  BY <1>6, SessionGoesOn
<1>7. ASSUME NEW d \in Ids, SessionExpires(d) PROVE FALSE
  BY <1>7, SessionGoesOn
<1>8. ASSUME NEW k \in SessionCalls, SessionRequest(k) \/ BeginRemoval(k) \/ CrashSession(k)
             \/ CapStart(k) \/ LockRow(k) \/ RevokeStart(k) \/ Deny(k)
      PROVE  UNCHANGED token
  BY <1>8 DEF SessionRequest, BeginLogin, BeginPassword, BeginRefresh, BeginRevokeSession, BeginLogoutAll,
         BeginLogout, Switch, BeginRemoval, CrashSession, CapStart, LockRow, RevokeStart, Deny
<1>9. GraceEnds \/ (\E j \in access : AccessExpires(j)) \/ (\E d \in denied : DenialEnds(d))
      \/ UNCHANGED sessionVars => UNCHANGED token
  BY DEF GraceEnds, AccessExpires, DenialEnds, sessionVars
<1> QED BY <1>2, <1>3, <1>4, <1>5, <1>6, <1>7, <1>8, <1>9 DEF SessionNext, SessionStep, SessionTime

LEMMA DenyStep == SessionInv /\ DenyInv /\ [SessionNext]_sessionVars => DenyInv'
<1> SUFFICES ASSUME SessionInv, DenyInv, [SessionNext]_sessionVars, NEW i \in Ids, Over(i)'
             PROVE  Spared(i)' \/ i \in denied' \/ Denying(i)' \/ Unsigned(i)'
  BY DEF DenyInv
<1>1. CASE Over(i)
  <2>1. Spared(i) \/ i \in denied \/ Denying(i) \/ Unsigned(i)
    BY <1>1 DEF DenyInv
  <2>2. token'[i].state # "active"
    <3> SUFFICES ASSUME token'[i].state = "active" PROVE FALSE
      OBVIOUS
    <3>1. i \in Unrevoked' /\ SameSession(i, i)'
      BY DEF Unrevoked, State, SameSession
    <3> QED BY <3>1 DEF Over, GoesOn, State
  <2> QED BY <2>1, <2>2, DenialMoves, SigningMoves
<1>2. CASE ~Over(i)
  BY <1>2, RevocationMoves
<1> QED BY <1>1, <1>2

-----------------------------------------------------------------------------
LEMMA SessionsAlways == AccountsSpec => [](SessionInv /\ ChainInv /\ DenyInv)
<1>1. AccountsInit => SessionInv /\ ChainInv /\ DenyInv
  BY SessionInitInv, ChainInit, DenyInit DEF AccountsInit
<1>2. SessionInv /\ ChainInv /\ DenyInv /\ [AccountsNext]_accountVars => (SessionInv /\ ChainInv /\ DenyInv)'
  BY PartsStep, SessionStepInv, ChainStep, DenyStep
<1> QED BY <1>1, <1>2, PTL DEF AccountsSpec

\* Refreshes that overlap with each other, with logins and with revocations
\* replace a token once, and leave a session one live token.
THEOREM OneChain == AccountsSpec => []OneChainPerFamily
<1>1. SessionInv /\ ChainInv => OneChainPerFamily
  BY DEF ChainInv, OneChainPerFamily, Active, Unrevoked
<1> QED BY <1>1, SessionsAlways, PTL

\* An access token that is still taken, unless it is from a switch of
\* workspaces, is of a session that goes on, its own row not revoked; or a call
\* is about to deny it, or it was knowingly left to its time.
THEOREM AccessEnds == AccountsSpec => []RevokedAccessEnds
<1>1. SessionInv /\ DenyInv => RevokedAccessEnds
  <2> SUFFICES ASSUME SessionInv, DenyInv, NEW j \in access, j.jti # MembershipId, Usable(j),
                      ~(State(j.jti) # "revoked" /\ GoesOn(j.jti)), ~Spared(j.jti)
               PROVE  Denying(j.jti)
    BY DEF RevokedAccessEnds, Spared, Denying
  <2>1. j.jti \in Ids /\ Over(j.jti)
    BY DEF SessionInv, SessionTypeOK, AccessTokens, Over
  <2> QED BY <2>1 DEF DenyInv, Unsigned, Usable
<1> QED BY <1>1, SessionsAlways, PTL

-----------------------------------------------------------------------------
(* Members: types, and what the locals of a call say from the start.        *)

LocalFacts(c) ==
    /\ c.to # "owner"
    /\ c.op = "transfer" => c.target # c.actor
    /\ c.op = "switchOff" => c.stale = {}

Moving(k)       == step[k] \in {"promote", "commit"}
Transferring(k) == step[k] = "lockActor" \/ Moving(k)

MemberInv ==
    /\ MembershipTypeOK
    /\ \A u \in Users : invited[u] # "owner"
    /\ \A k \in MemberCalls : step[k] # "idle" => LocalFacts(local[k])
    /\ \A k \in MemberCalls : Transferring(k) => local[k].op = "transfer"

LEMMA MemberInit == MembershipInit => MemberInv
<1> SUFFICES ASSUME MembershipInit PROVE MemberInv
  OBVIOUS
<1>0. /\ Creator \in Users /\ MaxChanges \in Nat /\ MaxFailures \in Nat
  BY MembershipAssumption DEF MembershipAssumption
<1>1. /\ role \in [Users -> Roles \cup {Absent}]
      /\ invited \in [Users -> Roles \cup {Absent}] /\ cached \in [Users -> Roles \cup {Absent}]
  BY DEF MembershipInit, Roles
<1>2. /\ joined \in [Users -> Nat] /\ owner \in Users /\ wsVersion \in Nat
      /\ wsStatus \in {"active", "inactive"} /\ stale \subseteq Users
      /\ changes \in 0..MaxChanges /\ failures \in 0..MaxFailures
  BY <1>0 DEF MembershipInit
<1>3. /\ step \in [MemberCalls -> Steps] /\ local \in [MemberCalls -> Locals \cup {Absent}]
      /\ \A k \in MemberCalls : step[k] = "idle"
  BY DEF MembershipInit, Steps
<1>4. torn \in BOOLEAN
  BY DEF MembershipInit
<1>5. MembershipTypeOK
  BY <1>1, <1>2, <1>3, <1>4 DEF MembershipTypeOK
<1>6. ASSUME NEW u \in Users PROVE invited[u] # "owner"
  BY <1>6, MembershipAssumption DEF MembershipInit, MembershipAssumption, Roles
<1> QED BY <1>3, <1>5, <1>6 DEF MemberInv, Transferring, Moving

\* What a call keeps while its locals are edited.
LEMMA LocalsEdited ==
    ASSUME NEW c \in Locals
    PROVE  /\ \A r \in Roles : LET d == [c EXCEPT !.as = r] IN
                /\ d \in Locals /\ d.op = c.op /\ d.actor = c.actor /\ d.target = c.target
                /\ d.to = c.to /\ d.stale = c.stale
           /\ \A n, m \in Nat : LET d == [c EXCEPT !.version = n, !.row = m] IN
                /\ d \in Locals /\ d.op = c.op /\ d.actor = c.actor /\ d.target = c.target
                /\ d.to = c.to /\ d.stale = c.stale
           /\ \A S \in SUBSET Users : LET d == [c EXCEPT !.stale = S] IN
                /\ d \in Locals /\ d.op = c.op /\ d.actor = c.actor /\ d.target = c.target
                /\ d.to = c.to /\ d.stale = S
BY DEF Locals

\* How the calls move: one at a time, and a call keeps what it was asked.
LEMMA CallsMove ==
    ASSUME MemberInv, NEW k \in MemberCalls, MemberStep(k) \/ CrashMember(k)
    PROVE  /\ step[k] # "idle" /\ local[k] \in Locals
           /\ step' \in [MemberCalls -> Steps] /\ local' \in [MemberCalls -> Locals \cup {Absent}]
           /\ \A q \in MemberCalls \ {k} : step'[q] = step[q] /\ local'[q] = local[q]
           /\ step'[k] # "idle" => /\ local'[k] \in Locals /\ local'[k].op = local[k].op
                                   /\ local'[k].actor = local[k].actor
                                   /\ local'[k].target = local[k].target /\ local'[k].to = local[k].to
           /\ step'[k] \notin {"idle", "invalidate"} => local'[k].stale = local[k].stale
<1>0. /\ step \in [MemberCalls -> Steps] /\ local \in [MemberCalls -> Locals \cup {Absent}]
      /\ role \in [Users -> Roles \cup {Absent}] /\ joined \in [Users -> Nat] /\ wsVersion \in Nat
  BY DEF MemberInv, MembershipTypeOK
<1>1. step[k] # "idle"
  BY DEF WaitsFor, WantsMember, MemberStep, CrashMember, LoadRole, FillCache, Decide, ChangeRole, Remove, LockTarget, LockActor, DeadlockAborted, NameOwner,
         CommitTransfer, EditWorkspace, SwitchStatus, Invite, Invalidate, WithOp
<1>2. /\ local[k] \in Locals /\ local[k].target \in Users /\ local[k].actor \in Users
  BY <1>1 DEF MemberInv, MembershipTypeOK, Locals
<1>3. \/ Answer(k)
      \/ \E s \in Steps \ {"invalidate"} : GoOn(k, s) /\ UNCHANGED local
      \/ GoOn(k, "fill") /\ \E r \in Roles : local' = [local EXCEPT ![k].as = r]
      \/ GoOn(k, "write") /\ \E n, m \in Nat : local' = [local EXCEPT ![k].version = n, ![k].row = m]
      \/ GoOn(k, "invalidate") /\ (UNCHANGED local \/ \E S \in SUBSET Users : local' = [local EXCEPT ![k].stale = S])
  <2>1. CASE LoadRole(k)
    BY <1>0, <1>2, <2>1 DEF LoadRole
  <2>2. CASE FillCache(k) \/ LockTarget(k) \/ LockActor(k) \/ DeadlockAborted(k) \/ NameOwner(k)
    BY <2>2 DEF FillCache, LockTarget, LockActor, DeadlockAborted, NameOwner, Steps
  <2>3. CASE Decide(k)
    <3>1. wsVersion \in Nat /\ joined[local[k].target] \in Nat
      BY <1>0, <1>2
    <3> QED BY <2>3, <3>1 DEF Decide
  <2>4. CASE ChangeRole(k) \/ Remove(k) \/ CommitTransfer(k)
    <3>1. {local[k].target} \in SUBSET Users /\ {local[k].actor, local[k].target} \in SUBSET Users
      BY <1>2
    <3> QED BY <2>4, <3>1 DEF ChangeRole, Remove, CommitTransfer
  <2>5. CASE EditWorkspace(k) \/ SwitchStatus(k) \/ Invite(k) \/ Invalidate(k) \/ CrashMember(k)
    BY <2>5 DEF EditWorkspace, SwitchStatus, Invite, Invalidate, CrashMember
  <2> QED BY <2>1, <2>2, <2>3, <2>4, <2>5 DEF MemberStep
<1>4. CASE Answer(k)
  BY <1>0, <1>1, <1>2, <1>4 DEF Answer, Steps
<1>5. ASSUME NEW s \in Steps, GoOn(k, s), NEW d \in Locals, local' = [local EXCEPT ![k] = d],
             d.op = local[k].op, d.actor = local[k].actor, d.target = local[k].target, d.to = local[k].to,
             s = "invalidate" \/ d.stale = local[k].stale
      PROVE  /\ step' \in [MemberCalls -> Steps] /\ local' \in [MemberCalls -> Locals \cup {Absent}]
             /\ \A q \in MemberCalls \ {k} : step'[q] = step[q] /\ local'[q] = local[q]
             /\ step'[k] # "idle" => /\ local'[k] \in Locals /\ local'[k].op = local[k].op
                                     /\ local'[k].actor = local[k].actor
                                     /\ local'[k].target = local[k].target /\ local'[k].to = local[k].to
             /\ step'[k] \notin {"idle", "invalidate"} => local'[k].stale = local[k].stale
  BY <1>0, <1>5 DEF GoOn
<1>6. ASSUME UNCHANGED local PROVE local' = [local EXCEPT ![k] = local[k]]
  BY <1>0, <1>6
<1>7. "fill" \in Steps /\ "write" \in Steps /\ "invalidate" \in Steps
  BY DEF Steps
<1>8. ASSUME NEW s \in Steps, GoOn(k, s), UNCHANGED local
      PROVE  /\ step' \in [MemberCalls -> Steps] /\ local' \in [MemberCalls -> Locals \cup {Absent}]
             /\ \A q \in MemberCalls \ {k} : step'[q] = step[q] /\ local'[q] = local[q]
             /\ local'[k] = local[k]
  BY <1>0, <1>8 DEF GoOn
<1>9. ASSUME NEW r \in Roles, GoOn(k, "fill"), local' = [local EXCEPT ![k].as = r]
      PROVE  \E d \in Locals : /\ local' = [local EXCEPT ![k] = d] /\ d.op = local[k].op /\ d.actor = local[k].actor
                               /\ d.target = local[k].target /\ d.to = local[k].to /\ d.stale = local[k].stale
  BY <1>2, <1>9, LocalsEdited
<1>10. ASSUME NEW n \in Nat, NEW m \in Nat, local' = [local EXCEPT ![k].version = n, ![k].row = m]
       PROVE  \E d \in Locals : /\ local' = [local EXCEPT ![k] = d] /\ d.op = local[k].op /\ d.actor = local[k].actor
                                /\ d.target = local[k].target /\ d.to = local[k].to /\ d.stale = local[k].stale
  <2> DEFINE d == [local[k] EXCEPT !.version = n, !.row = m]
  <2>1. local' = [local EXCEPT ![k] = d]
    BY <1>0, <1>10
  <2>2. /\ d \in Locals /\ d.op = local[k].op /\ d.actor = local[k].actor /\ d.target = local[k].target
        /\ d.to = local[k].to /\ d.stale = local[k].stale
    BY <1>2, LocalsEdited
  <2> HIDE DEF d
  <2> QED BY <2>1, <2>2
<1>11. ASSUME NEW S \in SUBSET Users, local' = [local EXCEPT ![k].stale = S]
       PROVE  \E d \in Locals : /\ local' = [local EXCEPT ![k] = d] /\ d.op = local[k].op /\ d.actor = local[k].actor
                                /\ d.target = local[k].target /\ d.to = local[k].to
  <2> DEFINE d == [local[k] EXCEPT !.stale = S]
  <2>1. local' = [local EXCEPT ![k] = d]
    BY <1>0, <1>11
  <2>2. /\ d \in Locals /\ d.op = local[k].op /\ d.actor = local[k].actor /\ d.target = local[k].target
        /\ d.to = local[k].to
    BY <1>2, LocalsEdited
  <2> HIDE DEF d
  <2> QED BY <2>1, <2>2
<1>12. CASE \E s \in Steps \ {"invalidate"} : GoOn(k, s) /\ UNCHANGED local
  BY <1>1, <1>2, <1>8, <1>12
<1>13. CASE GoOn(k, "invalidate") /\ UNCHANGED local
  BY <1>1, <1>2, <1>7, <1>8, <1>13
<1>14. CASE GoOn(k, "fill") /\ \E r \in Roles : local' = [local EXCEPT ![k].as = r]
  BY <1>1, <1>2, <1>5, <1>7, <1>9, <1>14
<1>15. CASE GoOn(k, "write") /\ \E n, m \in Nat : local' = [local EXCEPT ![k].version = n, ![k].row = m]
  BY <1>1, <1>2, <1>5, <1>7, <1>10, <1>15
<1>16. CASE GoOn(k, "invalidate") /\ \E S \in SUBSET Users : local' = [local EXCEPT ![k].stale = S]
  BY <1>1, <1>2, <1>5, <1>7, <1>11, <1>16
<1> QED BY <1>3, <1>4, <1>12, <1>13, <1>14, <1>15, <1>16

LEMMA MemberCallInv ==
    ASSUME MemberInv, NEW k \in MemberCalls, MemberStep(k) \/ CrashMember(k)
    PROVE  MemberInv'
<1>0. /\ role \in [Users -> Roles \cup {Absent}] /\ joined \in [Users -> Nat] /\ owner \in Users
      /\ wsVersion \in Nat /\ wsStatus \in {"active", "inactive"}
      /\ invited \in [Users -> Roles \cup {Absent}] /\ cached \in [Users -> Roles \cup {Absent}]
      /\ torn \in BOOLEAN /\ stale \subseteq Users /\ changes \in 0..MaxChanges /\ failures \in 0..MaxFailures
      /\ MaxFailures \in Nat
  BY MembershipAssumption DEF MemberInv, MembershipTypeOK, MembershipAssumption
<1>1. /\ step[k] # "idle" /\ local[k] \in Locals /\ LocalFacts(local[k])
      /\ step' \in [MemberCalls -> Steps] /\ local' \in [MemberCalls -> Locals \cup {Absent}]
      /\ \A q \in MemberCalls \ {k} : step'[q] = step[q] /\ local'[q] = local[q]
  BY CallsMove DEF MemberInv
<1>2. step'[k] # "idle" => /\ local'[k] \in Locals /\ local'[k].op = local[k].op
                          /\ local'[k].actor = local[k].actor
                          /\ local'[k].target = local[k].target /\ local'[k].to = local[k].to
  BY CallsMove
<1>3. /\ local[k].as \in Roles \cup {Absent} /\ local[k].target \in Users /\ local[k].actor \in Users
      /\ local[k].to \in Roles /\ local[k].to # "owner" /\ local[k].stale \subseteq Users
  BY <1>1 DEF Locals, LocalFacts
<1>4. role' \in [Users -> Roles \cup {Absent}]
  BY <1>0, <1>3 DEF MemberStep, CrashMember, LoadRole, FillCache, Decide, ChangeRole, Remove, LockTarget, LockActor, DeadlockAborted, NameOwner,
         CommitTransfer, EditWorkspace, SwitchStatus, Invite, Invalidate, Roles
<1>5. /\ invited' \in [Users -> Roles \cup {Absent}] /\ \A u \in Users : invited'[u] # "owner"
  <2>1. UNCHANGED invited \/ invited' = [invited EXCEPT ![local[k].target] = local[k].to]
    BY <1>0 DEF MemberStep, CrashMember, LoadRole, FillCache, Decide, ChangeRole, Remove, LockTarget, LockActor, DeadlockAborted, NameOwner,
           CommitTransfer, EditWorkspace, SwitchStatus, Invite, Invalidate
  <2> QED BY <1>0, <1>3, <2>1 DEF MemberInv
<1>6. cached' \in [Users -> Roles \cup {Absent}] /\ stale' \subseteq Users
  <2>1. CASE FillCache(k)
    BY <1>0, <1>3, <2>1 DEF FillCache
  <2>2. CASE Invalidate(k)
    BY <1>0, <2>2 DEF Invalidate
  <2>3. CASE ~FillCache(k) /\ ~Invalidate(k)
    <3>1. UNCHANGED cached /\ stale' \subseteq stale \cup local[k].stale
      BY <2>3 DEF MemberStep, CrashMember, LoadRole, Decide, ChangeRole, Remove, LockTarget, LockActor, DeadlockAborted, NameOwner,
             CommitTransfer, EditWorkspace, SwitchStatus, Invite
    <3> QED BY <1>0, <1>3, <3>1
  <2> QED BY <2>1, <2>2, <2>3
<1>7. owner' \in Users /\ wsVersion' \in Nat /\ wsStatus' \in {"active", "inactive"} /\ UNCHANGED <<joined, changes>>
  BY <1>0, <1>3 DEF MemberStep, CrashMember, LoadRole, FillCache, Decide, ChangeRole, Remove, LockTarget, LockActor, DeadlockAborted, NameOwner,
         CommitTransfer, EditWorkspace, SwitchStatus, SwitchedStatus, Invite, Invalidate, workspace
<1>8. failures' \in 0..MaxFailures
  <2>1. UNCHANGED failures \/ (failures < MaxFailures /\ failures' = failures + 1)
    BY DEF MemberStep, CrashMember, LoadRole, FillCache, Decide, ChangeRole, Remove, LockTarget, LockActor, DeadlockAborted, NameOwner,
           CommitTransfer, EditWorkspace, SwitchStatus, Invite, Invalidate
  <2> QED BY <1>0, <2>1
<1>9. torn' \in BOOLEAN
  BY <1>0 DEF MemberStep, CrashMember, LoadRole, FillCache, Decide, ChangeRole, Remove, LockTarget, LockActor, DeadlockAborted, NameOwner,
         CommitTransfer, EditWorkspace, SwitchStatus, Invite, Invalidate
<1>10. \A q \in MemberCalls : step'[q] # "idle" => local'[q] \in Locals
  BY <1>1, <1>2 DEF MemberInv, MembershipTypeOK
<1>11. MembershipTypeOK'
  BY <1>0, <1>1, <1>4, <1>5, <1>6, <1>7, <1>8, <1>9, <1>10 DEF MembershipTypeOK
<1>12. step'[k] # "idle" => LocalFacts(local'[k])
  <2>1. step'[k] \notin {"idle", "invalidate"} => local'[k].stale = local[k].stale
    BY CallsMove
  <2>2. step'[k] = "invalidate" /\ local[k].op = "switchOff" => local'[k].stale = local[k].stale
    <3> SUFFICES ASSUME step'[k] = "invalidate", local[k].op = "switchOff"
                 PROVE  local'[k].stale = local[k].stale
      OBVIOUS
    <3>1. step[k] # "commit"
      BY <1>1 DEF MemberInv, Transferring, Moving
    <3>2. SwitchStatus(k)
      BY <1>1, <3>1 DEF MemberStep, CrashMember, LoadRole, FillCache, Decide, ChangeRole, Remove, LockTarget, LockActor, DeadlockAborted,
             NameOwner, CommitTransfer, EditWorkspace, Invite, Invalidate, WithOp, GoOn, Answer,
             MemberInv, MembershipTypeOK
    <3> QED BY <1>1, <3>2 DEF SwitchStatus, Answer, MemberInv, MembershipTypeOK
  <2> QED BY <1>1, <1>2, <2>1, <2>2 DEF LocalFacts
<1>13. Transferring(k)' => local'[k].op = "transfer"
  <2>1. Transferring(k)' => LockTarget(k) \/ LockActor(k) \/ NameOwner(k)
    BY <1>1 DEF MemberStep, CrashMember, LoadRole, FillCache, Decide, ChangeRole, Remove, DeadlockAborted,
           CommitTransfer, EditWorkspace, SwitchStatus, Invite, Invalidate, GoOn, Answer,
           MemberInv, MembershipTypeOK, Transferring, Moving
  <2>2. LockTarget(k) \/ LockActor(k) \/ NameOwner(k) => local[k].op = "transfer"
    BY DEF LockTarget, LockActor, NameOwner, WithOp, MemberInv, Transferring, Moving
  <2>3. Transferring(k)' => step'[k] # "idle"
    BY DEF Transferring, Moving
  <2> QED BY <1>2, <2>1, <2>2, <2>3
<1>14. ASSUME NEW q \in MemberCalls \ {k} PROVE Transferring(q)' => local'[q].op = "transfer"
  BY <1>1, <1>14 DEF MemberInv, Transferring, Moving
<1> QED BY <1>1, <1>5, <1>11, <1>12, <1>13, <1>14 DEF MemberInv

LEMMA MemberRestInv ==
    ASSUME MemberInv, MemberTime \/ UNCHANGED memberVars \/ \E k \in MemberCalls : Ask(k)
    PROVE  MemberInv'
<1>0. MembershipTypeOK
  BY DEF MemberInv
<1>1. ASSUME NEW k \in MemberCalls, Ask(k) PROVE MemberInv'
  <2>1. changes' \in 0..MaxChanges
    <3>1. changes < MaxChanges /\ changes' = changes + 1 /\ MaxChanges \in Nat /\ changes \in 0..MaxChanges
      BY <1>0, <1>1, MembershipAssumption DEF Ask, MembershipTypeOK, MembershipAssumption
    <3> QED BY <3>1
  <2>2. PICK op \in Operations, u \in Users, t \in Users, r \in Roles \ {"owner"} :
            /\ op = "transfer" => t # u
            /\ local' = [local EXCEPT ![k] = [op |-> op, actor |-> u, as |-> cached[u],
                             target |-> t, to |-> r, version |-> 0, row |-> 0, stale |-> {}]]
            /\ GoOn(k, IF cached[u] = Absent THEN "load" ELSE "decide")
    BY <1>1 DEF Ask
  <2> DEFINE c == [op |-> op, actor |-> u, as |-> cached[u],
                   target |-> t, to |-> r, version |-> 0, row |-> 0, stale |-> {}]
  <2>3. c \in Locals /\ LocalFacts(c)
    <3>1. cached[u] \in Roles \cup {Absent}
      BY <1>0 DEF MembershipTypeOK
    <3> QED BY <2>2, <3>1 DEF Locals, LocalFacts
  <2>4. local' = [local EXCEPT ![k] = c]
    BY <2>2
  <2> HIDE DEF c
  <2>5. step' \in [MemberCalls -> Steps] /\ step'[k] \in {"load", "decide"}
        /\ \A q \in MemberCalls \ {k} : step'[q] = step[q]
    BY <1>0, <2>2 DEF GoOn, MembershipTypeOK, Steps
  <2>6. local' \in [MemberCalls -> Locals \cup {Absent}] /\ local'[k] = c
        /\ \A q \in MemberCalls \ {k} : local'[q] = local[q]
    BY <1>0, <2>3, <2>4 DEF MembershipTypeOK
  <2>7. MembershipTypeOK'
    BY <1>0, <1>1, <2>1, <2>3, <2>5, <2>6 DEF Ask, MembershipTypeOK, workspace
  <2>8. ASSUME NEW q \in MemberCalls, step'[q] # "idle" PROVE LocalFacts(local'[q])
    <3>1. CASE q = k
      BY <2>3, <2>6, <3>1
    <3>2. CASE q # k
      BY <2>5, <2>6, <2>8, <3>2 DEF MemberInv
    <3> QED BY <3>1, <3>2
  <2>9. ASSUME NEW q \in MemberCalls, Transferring(q)'
        PROVE  local'[q].op = "transfer"
    BY <2>5, <2>6, <2>9 DEF MemberInv, Transferring, Moving
  <2>10. UNCHANGED invited
    BY <1>1 DEF Ask
  <2> QED BY <2>7, <2>8, <2>9, <2>10 DEF MemberInv
<1>2. ASSUME NEW u \in Users, AcceptInvite(u) PROVE MemberInv'
  <2>1. /\ role' \in [Users -> Roles \cup {Absent}] /\ joined' \in [Users -> Nat]
        /\ invited' \in [Users -> Roles \cup {Absent}] /\ cached' \in [Users -> Roles \cup {Absent}]
        /\ stale' \subseteq Users
    BY <1>0, <1>2 DEF AcceptInvite, MembershipTypeOK
  <2>2. MembershipTypeOK'
    BY <1>0, <1>2, <2>1 DEF AcceptInvite, MembershipTypeOK, workspace
  <2>3. \A v \in Users : invited'[v] # "owner"
    BY <1>0, <1>2, MembershipAssumption DEF AcceptInvite, MemberInv, MembershipTypeOK, MembershipAssumption, Roles
  <2> QED BY <1>2, <2>2, <2>3 DEF AcceptInvite, MemberInv, Transferring, Moving
<1>3. ASSUME NEW u \in Users, CacheExpires(u) PROVE MemberInv'
  <2>1. cached' \in [Users -> Roles \cup {Absent}] /\ stale' \subseteq Users
    BY <1>0, <1>3 DEF CacheExpires, MembershipTypeOK
  <2>2. MembershipTypeOK'
    BY <1>0, <1>3, <2>1 DEF CacheExpires, MembershipTypeOK, workspace
  <2> QED BY <1>3, <2>2 DEF CacheExpires, MemberInv, Transferring, Moving
<1>4. CASE UNCHANGED memberVars
  BY <1>4 DEF memberVars, MemberInv, MembershipTypeOK, Transferring, Moving
<1> QED BY <1>1, <1>2, <1>3, <1>4 DEF MemberTime

LEMMA MemberStepInv == MemberInv /\ [MembershipNext]_memberVars => MemberInv'
BY MemberCallInv, MemberRestInv DEF MembershipNext

-----------------------------------------------------------------------------
(* The owner.  At most one member owns; the one transfer that can be between *)
(* its two commits is the owner's; and unless a transfer was torn, the       *)
(* workspace names the owner, or the member about to be promoted.            *)

Named ==
    /\ Owns(owner) \/ \E k \in MemberCalls : step[k] = "commit"
    /\ \A k \in MemberCalls : step[k] = "commit" => local[k].target = owner

OwnerInv ==
    /\ \A u, v \in Users : Owns(u) /\ Owns(v) => u = v
    /\ \A k \in MemberCalls : Moving(k) => Owns(local[k].actor)
    /\ \A k, q \in MemberCalls : Moving(k) /\ Moving(q) => k = q
    /\ ~torn => Named

LEMMA OwnerInit == MembershipInit => OwnerInv
BY MembershipAssumption DEF MembershipAssumption, MembershipInit, OwnerInv, Owns, Moving, Named

\* Whose role a step may change.
LEMMA RoleMoves ==
    ASSUME MemberInv, [MembershipNext]_memberVars
    PROVE  \/ UNCHANGED role
           \/ \E u \in Users, x \in (Roles \cup {Absent}) \ {"owner"} :
                  /\ role' = [role EXCEPT ![u] = x] /\ UNCHANGED owner
                  /\ RowLocked(u) => ~Owns(u)
                  /\ Owns(u) => torn'
           \/ \E k \in MemberCalls : CommitTransfer(k)
<1>0. role \in [Users -> Roles \cup {Absent}] /\ invited \in [Users -> Roles \cup {Absent}]
  BY DEF MemberInv, MembershipTypeOK
<1>1. ASSUME NEW k \in MemberCalls, ChangeRole(k) \/ Remove(k)
      PROVE  \/ UNCHANGED role
             \/ \E u \in Users, x \in (Roles \cup {Absent}) \ {"owner"} :
                    /\ role' = [role EXCEPT ![u] = x] /\ UNCHANGED owner
                    /\ RowLocked(u) => ~Owns(u)
                    /\ Owns(u) => torn'
  <2>1. local[k] \in Locals /\ LocalFacts(local[k])
    BY <1>1 DEF ChangeRole, Remove, WithOp, MemberInv, MembershipTypeOK
  <2>2. /\ local[k].target \in Users /\ local[k].to \in (Roles \cup {Absent}) \ {"owner"}
        /\ Absent \in (Roles \cup {Absent}) \ {"owner"}
    BY <2>1, MembershipAssumption DEF Locals, LocalFacts, MembershipAssumption, Roles
  <2>3. ~RowLocked(local[k].target) /\ UNCHANGED owner
    BY <1>1 DEF ChangeRole, Remove, workspace
  <2>4. \/ UNCHANGED role
        \/ /\ Owns(local[k].target) => torn'
           /\ \/ role' = [role EXCEPT ![local[k].target] = local[k].to]
              \/ role' = [role EXCEPT ![local[k].target] = Absent]
    BY <1>1 DEF ChangeRole, Remove
  <2> QED BY <2>2, <2>3, <2>4
<1>2. ASSUME NEW u \in Users, AcceptInvite(u), role' # role
      PROVE  \E x \in (Roles \cup {Absent}) \ {"owner"} :
                /\ role' = [role EXCEPT ![u] = x] /\ UNCHANGED owner /\ ~Owns(u)
  <2>1. invited[u] \in (Roles \cup {Absent}) \ {"owner"}
    BY <1>0 DEF MemberInv
  <2>2. role' = [role EXCEPT ![u] = invited[u]] /\ UNCHANGED owner /\ role[u] = Absent
    BY <1>2 DEF AcceptInvite, workspace
  <2> QED BY <2>1, <2>2, MembershipAssumption DEF MembershipAssumption, Owns, Roles
<1>3. ASSUME NEW k \in MemberCalls, Ask(k) \/ MemberStep(k) \/ CrashMember(k),
             ~ChangeRole(k), ~Remove(k), ~CommitTransfer(k)
      PROVE  UNCHANGED role
  BY <1>3 DEF Ask, MemberStep, CrashMember, LoadRole, FillCache, Decide, LockTarget, LockActor, DeadlockAborted, NameOwner,
         EditWorkspace, SwitchStatus, Invite, Invalidate
<1>4. ASSUME NEW u \in Users, CacheExpires(u) PROVE UNCHANGED role
  BY <1>4 DEF CacheExpires
<1>5. UNCHANGED memberVars => UNCHANGED role
  BY DEF memberVars
<1> QED BY <1>1, <1>2, <1>3, <1>4, <1>5 DEF MembershipNext, MemberTime, MemberStep

\* No other call has the lock on the row of the one who gives the workspace away.
ActorIsFree(q) == \A m \in MemberCalls \ {q} : local[q].actor \notin HeldRows(m)

\* How transfers move.
LEMMA NameMoves ==
    ASSUME MemberInv, [MembershipNext]_memberVars
    PROVE  /\ torn => torn'
           /\ UNCHANGED owner
              \/ \E k \in MemberCalls : NameOwner(k) /\ (~torn' => owner' = local[k].target)
<1>0. torn \in BOOLEAN
  BY DEF MemberInv, MembershipTypeOK
<1>1. ASSUME NEW k \in MemberCalls, NameOwner(k)
      PROVE  (torn => torn') /\ (~torn' => owner' = local[k].target)
  BY <1>0, <1>1 DEF NameOwner
<1>2. ASSUME NEW k \in MemberCalls, Ask(k) \/ MemberStep(k) \/ CrashMember(k), ~NameOwner(k)
      PROVE  UNCHANGED owner
  BY <1>2 DEF Ask, MemberStep, CrashMember, LoadRole, FillCache, Decide, ChangeRole, Remove, LockTarget, LockActor, DeadlockAborted,
         CommitTransfer, EditWorkspace, SwitchStatus, Invite, Invalidate, workspace
<1>3. ASSUME NEW k \in MemberCalls, Ask(k) \/ MemberStep(k) \/ CrashMember(k), ~NameOwner(k)
      PROVE  torn => torn'
  BY <1>0, <1>3 DEF Ask, MemberStep, CrashMember, LoadRole, FillCache, Decide, ChangeRole, Remove, LockTarget, LockActor, DeadlockAborted,
         CommitTransfer, EditWorkspace, SwitchStatus, Invite, Invalidate
<1>4. MemberTime \/ UNCHANGED memberVars => UNCHANGED <<torn, owner>>
  BY DEF MemberTime, AcceptInvite, CacheExpires, memberVars, workspace
<1> QED BY <1>1, <1>2, <1>3, <1>4 DEF MembershipNext

LEMMA TransferMoves ==
    ASSUME MemberInv, [MembershipNext]_memberVars, NEW q \in MemberCalls
    PROVE  /\ step'[q] = "promote" =>
                \/ step[q] = "promote" /\ local'[q] = local[q]
                \/ /\ LockActor(q) /\ UNCHANGED <<role, owner, torn, local>>
                   /\ Owns(local[q].actor) /\ ActorIsFree(q)
                   /\ step' = [step EXCEPT ![q] = "promote"]
           /\ step'[q] = "commit" =>
                \/ step[q] = "commit" /\ local'[q] = local[q]
                \/ NameOwner(q)
           /\ step[q] = "commit" => step'[q] = "commit" \/ CommitTransfer(q) \/ torn'
<1>0. /\ step \in [MemberCalls -> Steps] /\ local \in [MemberCalls -> Locals \cup {Absent}]
  BY DEF MemberInv, MembershipTypeOK
<1>1. ASSUME NEW k \in MemberCalls, Ask(k) PROVE /\ step[k] = "idle" /\ step'[k] \in {"load", "decide"}
                                                 /\ \A p \in MemberCalls \ {k} : step'[p] = step[p] /\ local'[p] = local[p]
                                      BY <1>0, <1>1 DEF Ask, GoOn
<1>2. ASSUME NEW k \in MemberCalls, MemberStep(k) \/ CrashMember(k),
             ~LockActor(k), ~NameOwner(k)
      PROVE  /\ step'[k] \notin {"promote", "commit"}
             /\ step[k] = "commit" => CommitTransfer(k) \/ torn'
  <2>1. \/ Answer(k)
        \/ \E s \in Steps \ {"promote", "commit"} : GoOn(k, s)
    BY <1>2 DEF MemberStep, CrashMember, LoadRole, FillCache, Decide, ChangeRole, Remove, LockTarget, DeadlockAborted,
           CommitTransfer, EditWorkspace, SwitchStatus, Invite, Invalidate, Steps
  <2>2. step'[k] \notin {"promote", "commit"}
    BY <1>0, <2>1 DEF GoOn, Answer
  <2>3. CrashMember(k) => (step[k] = "commit" => torn')
    BY Zenon DEF CrashMember
  <2>4. step[k] = "commit" => CommitTransfer(k) \/ CrashMember(k)
    BY <1>2 DEF MemberStep, LoadRole, FillCache, Decide, ChangeRole, Remove, LockTarget, DeadlockAborted, WaitsFor,
           WantsMember, EditWorkspace, SwitchStatus, Invite, Invalidate, WithOp
  <2> QED BY <2>2, <2>3, <2>4
<1>3. ASSUME NEW k \in MemberCalls, LockActor(k)
      PROVE  /\ step[k] = "lockActor" /\ UNCHANGED <<role, owner, torn>>
             /\ step'[k] # "commit"
             /\ step'[k] = "promote" =>
                    /\ UNCHANGED local /\ Owns(local[k].actor) /\ ActorIsFree(k)
                    /\ step' = [step EXCEPT ![k] = "promote"]
  <2>1. ActorIsFree(k)
    <3>1. local[k].actor \in Users /\ step[k] = "lockActor"
      BY <1>3 DEF LockActor, MemberInv, MembershipTypeOK, Locals
    <3> QED BY <1>3, <3>1 DEF LockActor, MayGoOn, WaitsFor, WantsMember, ActorIsFree
  <2> QED BY <1>0, <1>3, <2>1 DEF LockActor, workspace, GoOn, Answer
<1>4. ASSUME NEW k \in MemberCalls, NameOwner(k)
      PROVE  step[k] = "promote" /\ step'[k] = "commit"
  BY <1>0, <1>4 DEF NameOwner, GoOn
<1>5. ASSUME NEW k \in MemberCalls, MemberStep(k) \/ CrashMember(k)
      PROVE  \A p \in MemberCalls \ {k} : step'[p] = step[p] /\ local'[p] = local[p]
  BY <1>5, CallsMove
<1>6. MemberTime \/ UNCHANGED memberVars => UNCHANGED <<step, local, torn, owner>>
  BY DEF MemberTime, AcceptInvite, CacheExpires, memberVars, workspace
<1>7. ASSUME NEW k \in MemberCalls, Ask(k) \/ MemberStep(k) \/ CrashMember(k), k # q
      PROVE  step'[q] = step[q] /\ local'[q] = local[q]
  BY <1>1, <1>5, <1>7
<1>8. ASSUME Ask(q) \/ MemberStep(q) \/ CrashMember(q)
      PROVE  /\ step'[q] = "promote" =>
                   /\ LockActor(q) /\ UNCHANGED <<role, owner, torn, local>>
                   /\ Owns(local[q].actor) /\ ActorIsFree(q)
                   /\ step' = [step EXCEPT ![q] = "promote"]
             /\ step'[q] = "commit" => NameOwner(q)
             /\ step[q] = "commit" => step'[q] = "commit" \/ CommitTransfer(q) \/ torn'
  BY <1>1, <1>2, <1>3, <1>4, <1>8
<1>9. ASSUME NEW k \in MemberCalls, Ask(k) \/ MemberStep(k) \/ CrashMember(k)
      PROVE  /\ step'[q] = "promote" =>
                   \/ step[q] = "promote" /\ local'[q] = local[q]
                   \/ /\ LockActor(q) /\ UNCHANGED <<role, owner, torn, local>>
                      /\ Owns(local[q].actor) /\ ActorIsFree(q)
                      /\ step' = [step EXCEPT ![q] = "promote"]
             /\ step'[q] = "commit" => (step[q] = "commit" /\ local'[q] = local[q]) \/ NameOwner(q)
             /\ step[q] = "commit" => step'[q] = "commit" \/ CommitTransfer(q) \/ torn'
  <2>1. CASE k = q
    BY <1>8, <1>9, <2>1
  <2>2. CASE k # q
    BY <1>7, <1>9, <2>2
  <2> QED BY <2>1, <2>2
<1>10. CASE MemberTime \/ UNCHANGED memberVars
  BY <1>6, <1>10
<1> QED BY <1>9, <1>10 DEF MembershipNext

LEMMA OwnerStep == MemberInv /\ OwnerInv /\ [MembershipNext]_memberVars => OwnerInv'
<1> SUFFICES ASSUME MemberInv, OwnerInv, [MembershipNext]_memberVars
             PROVE  OwnerInv'
  OBVIOUS
<1>0. role \in [Users -> Roles \cup {Absent}] /\ owner \in Users
  BY DEF MemberInv, MembershipTypeOK
<1>1. ASSUME NEW k \in MemberCalls, Moving(k)
      PROVE  /\ local[k].actor \in Users /\ local[k].target \in Users /\ local[k].target # local[k].actor
             /\ Owns(local[k].actor) /\ local[k].actor \in HeldRows(k) /\ RowLocked(local[k].actor)
  <2>1. local[k] \in Locals /\ LocalFacts(local[k]) /\ local[k].op = "transfer"
    BY <1>1 DEF MemberInv, MembershipTypeOK, Transferring, Moving
  <2>2. local[k].actor \in Users /\ local[k].target \in Users /\ local[k].target # local[k].actor
        /\ Owns(local[k].actor)
    BY <1>1, <2>1 DEF Locals, LocalFacts, OwnerInv
  <2>3. local[k].actor \in HeldRows(k)
    BY <1>1, <2>2 DEF HeldRows, Moving
  <2> QED BY <2>2, <2>3 DEF RowLocked
<1>2. ASSUME NEW k \in MemberCalls, CommitTransfer(k)
      PROVE  /\ Moving(k) /\ ~Moving(k)' /\ UNCHANGED owner
             /\ \A u \in Users : role'[u] = "owner" <=> u = local[k].target
  <2>1. Moving(k) /\ UNCHANGED owner
    BY <1>2 DEF CommitTransfer, Moving, workspace
  <2>2. ~Moving(k)'
    BY <1>2 DEF CommitTransfer, Moving, GoOn, MemberInv, MembershipTypeOK
  <2>3. role' = [role EXCEPT ![local[k].target] = "owner", ![local[k].actor] = "admin"]
    BY <1>2 DEF CommitTransfer
  <2>4. \A u \in Users : Owns(u) => u = local[k].actor
    BY <1>1, <2>1 DEF OwnerInv
  <2> QED BY <1>0, <1>1, <2>1, <2>2, <2>3, <2>4 DEF Owns
<1>3. ASSUME NEW q \in MemberCalls, Moving(q)'
      PROVE  \/ Moving(q) /\ local'[q].actor = local[q].actor /\ local'[q].target = local[q].target
             \/ /\ UNCHANGED <<role, owner, torn, local>> /\ step'[q] = "promote"
                /\ \A p \in MemberCalls \ {q} : step'[p] = step[p]
                /\ \A p \in MemberCalls : ~Moving(p)
                /\ Owns(local[q].actor)
  <2>1. CASE step'[q] = "promote"
    <3>1. \/ step[q] = "promote" /\ local'[q] = local[q]
          \/ /\ UNCHANGED <<role, owner, torn, local>>
             /\ Owns(local[q].actor) /\ ActorIsFree(q)
             /\ step[q] = "lockActor" /\ step' = [step EXCEPT ![q] = "promote"]
      BY <2>1, TransferMoves DEF LockActor
    <3>2. ASSUME Owns(local[q].actor), ActorIsFree(q), step[q] = "lockActor", NEW p \in MemberCalls
          PROVE  ~Moving(p)
      <4>1. local[q].actor \in Users
        BY <3>2 DEF MemberInv, MembershipTypeOK, Locals
      <4>2. CASE p = q
        BY <3>2, <4>2 DEF Moving
      <4>3. CASE p # q
        BY <1>1, <3>2, <4>1, <4>3 DEF OwnerInv, ActorIsFree
      <4> QED BY <4>2, <4>3
    <3>3. step' = [step EXCEPT ![q] = "promote"] =>
             step'[q] = "promote" /\ \A p \in MemberCalls \ {q} : step'[p] = step[p]
      BY DEF MemberInv, MembershipTypeOK
    <3> QED BY <3>1, <3>2, <3>3 DEF Moving
  <2>2. CASE step'[q] = "commit"
    BY <2>2, TransferMoves DEF NameOwner, Moving
  <2> QED BY <1>3, <2>1, <2>2 DEF Moving
<1>4. \A k, q \in MemberCalls : Moving(k)' /\ Moving(q)' => k = q
  BY <1>3 DEF OwnerInv, Moving
<1>5. CASE UNCHANGED role
  <2>1. \A u, v \in Users : Owns(u)' /\ Owns(v)' => u = v
    BY <1>5 DEF OwnerInv, Owns
  <2>2. \A k \in MemberCalls : Moving(k)' => role'[local'[k].actor] = "owner"
    BY <1>3, <1>5 DEF OwnerInv, Owns
  <2>3. ASSUME ~torn' PROVE Named'
    <3>1. ~torn /\ Named
      BY <2>3, NameMoves DEF OwnerInv
    <3>2. CASE UNCHANGED owner
      <4>1. ASSUME NEW k \in MemberCalls, step[k] = "commit" PROVE step'[k] = "commit"
        <5>1. ~CommitTransfer(k)
          BY <1>1, <1>2, <1>5, <4>1 DEF Moving, Owns
        <5> QED BY <2>3, <4>1, <5>1, TransferMoves
      <4>2. ASSUME NEW k \in MemberCalls, step'[k] = "commit" PROVE local'[k].target = owner
        BY <2>3, <3>1, <3>2, <4>2, TransferMoves DEF Named, NameOwner
      <4> QED BY <1>5, <3>1, <3>2, <4>1, <4>2 DEF Named, Owns
    <3>3. ASSUME NEW k \in MemberCalls, NameOwner(k), owner' = local[k].target PROVE Named'
      <4>1. step'[k] = "commit" /\ UNCHANGED local
        BY <3>3 DEF NameOwner, GoOn, MemberInv, MembershipTypeOK
      <4>2. \A q \in MemberCalls : step'[q] = "commit" => q = k
        BY <1>4, <4>1 DEF Moving
      <4> QED BY <3>3, <4>1, <4>2 DEF Named
    <3> QED BY <2>3, <3>2, <3>3, NameMoves
  <2> QED BY <1>4, <2>1, <2>2, <2>3 DEF OwnerInv, Owns
<1>6. ASSUME NEW u \in Users, NEW x \in (Roles \cup {Absent}) \ {"owner"},
             role' = [role EXCEPT ![u] = x], UNCHANGED owner,
             RowLocked(u) => ~Owns(u), Owns(u) => torn'
      PROVE  OwnerInv'
  <2>1. \A v \in Users : /\ role'[v] = "owner" => role[v] = "owner"
                         /\ v # u => role'[v] = role[v]
    BY <1>0, <1>6
  <2>2. ASSUME NEW v \in Users, NEW w \in Users, role'[v] = "owner", role'[w] = "owner" PROVE v = w
    <3>1. role[v] = "owner" /\ role[w] = "owner"
      BY <2>1, <2>2
    <3>2. Owns(v) /\ Owns(w)
      BY <3>1 DEF Owns
    <3> QED BY <3>2 DEF OwnerInv
  <2>3. ASSUME NEW k \in MemberCalls, Moving(k)' PROVE role'[local'[k].actor] = "owner"
    <3>1. CASE Moving(k) /\ local'[k].actor = local[k].actor
      <4>1. local[k].actor # u
        BY <1>1, <1>6, <3>1
      <4> QED BY <1>1, <2>1, <3>1, <4>1 DEF Owns
    <3>2. CASE UNCHANGED <<role, local>> /\ Owns(local[k].actor)
      BY <3>2 DEF Owns
    <3> QED BY <1>3, <2>3, <3>1, <3>2
  <2>4. ASSUME ~torn' PROVE Named'
    <3>1. ~torn /\ Named
      BY <2>4, NameMoves DEF OwnerInv
    <3>2. Owns(owner) => role'[owner] = "owner"
      BY <1>0, <1>6, <2>1, <2>4 DEF Owns
    <3>3. ASSUME NEW k \in MemberCalls, step[k] = "commit"
          PROVE  step'[k] = "commit" \/ role'[owner] = "owner"
      <4>1. CommitTransfer(k) => role'[local[k].target] = "owner"
        BY <1>1, <1>2, <3>3 DEF Moving
      <4> QED BY <2>4, <3>1, <3>3, <4>1, TransferMoves DEF Named
    <3>4. ASSUME NEW k \in MemberCalls, step'[k] = "commit" PROVE local'[k].target = owner
      <4>1. CASE step[k] = "commit" /\ local'[k] = local[k]
        BY <3>1, <4>1 DEF Named
      <4>2. CASE NameOwner(k)
        BY <1>6, <2>4, <4>2 DEF NameOwner
      <4> QED BY <3>4, <4>1, <4>2, TransferMoves
    <3> QED BY <1>6, <3>1, <3>2, <3>3, <3>4 DEF Named, Owns
  <2> QED BY <1>4, <2>2, <2>3, <2>4 DEF OwnerInv, Owns
<1>7. ASSUME NEW k \in MemberCalls, CommitTransfer(k) PROVE OwnerInv'
  <2>1. \A q \in MemberCalls : ~Moving(q)'
    <3> SUFFICES ASSUME NEW q \in MemberCalls, Moving(q)' PROVE FALSE
      OBVIOUS
    <3>1. Moving(q) /\ q # k
      BY <1>2, <1>3, <1>7
    <3> QED BY <1>2, <1>7, <3>1 DEF OwnerInv
  <2>2. ~torn' => role'[owner] = "owner"
    <3>1. ~torn' => local[k].target = owner
      BY <1>7, NameMoves DEF OwnerInv, Named, CommitTransfer
    <3> QED BY <1>0, <1>2, <1>7, <3>1
  <2> QED BY <1>2, <1>7, <2>1, <2>2 DEF OwnerInv, Named, Owns, Moving
<1> QED BY <1>5, <1>6, <1>7, RoleMoves

-----------------------------------------------------------------------------
(* The cache: CacheIsCurrent is kept by every step by itself.               *)

Current(u) == \/ cached[u] \in {Absent, role[u]} \/ u \in stale
              \/ \E k \in MemberCalls : step[k] = "invalidate" /\ u \in local[k].stale

LEMMA CacheInit == MembershipInit => CacheIsCurrent
BY DEF MembershipInit, CacheIsCurrent

LEMMA CacheStep == MemberInv /\ CacheIsCurrent /\ [MembershipNext]_memberVars => CacheIsCurrent'
<1> SUFFICES ASSUME MemberInv, CacheIsCurrent, [MembershipNext]_memberVars, NEW u \in Users
             PROVE  Current(u)'
  BY DEF CacheIsCurrent, Current
<1>0. /\ role \in [Users -> Roles \cup {Absent}] /\ cached \in [Users -> Roles \cup {Absent}]
      /\ step \in [MemberCalls -> Steps] /\ local \in [MemberCalls -> Locals \cup {Absent}]
      /\ Current(u)
  BY DEF MemberInv, MembershipTypeOK, CacheIsCurrent, Current
<1>1. ASSUME NEW k \in MemberCalls, MemberStep(k) \/ CrashMember(k), step[k] # "invalidate",
             UNCHANGED <<role, cached, stale>>
      PROVE  Current(u)'
  <2>1. \A q \in MemberCalls \ {k} : step'[q] = step[q] /\ local'[q] = local[q]
    BY <1>1, CallsMove
  <2> QED BY <1>0, <1>1, <2>1 DEF Current
<1>2. ASSUME NEW k \in MemberCalls, ChangeRole(k) \/ Remove(k) \/ CommitTransfer(k) PROVE Current(u)'
  <2>1. \A q \in MemberCalls \ {k} : step'[q] = step[q] /\ local'[q] = local[q]
    BY <1>2, CallsMove DEF MemberStep
  <2>2. step[k] # "invalidate" /\ UNCHANGED <<cached, stale>> /\ step'[k] = "invalidate"
    BY <1>0, <1>2 DEF ChangeRole, Remove, CommitTransfer, WithOp, GoOn
  <2>3. local[k] \in Locals /\ local[k].target \in Users /\ local[k].actor \in Users
    BY <1>2 DEF ChangeRole, Remove, CommitTransfer, WithOp, MemberInv, MembershipTypeOK, Locals
  <2>4. PICK S \in SUBSET Users : /\ local' = [local EXCEPT ![k].stale = S]
                                  /\ u \notin S => role'[u] = role[u]
    <3>1. {local[k].target} \in SUBSET Users /\ {local[k].actor, local[k].target} \in SUBSET Users
      BY <2>3
    <3>2. CASE ChangeRole(k) \/ Remove(k)
      <4>1. local' = [local EXCEPT ![k].stale = {local[k].target}]
        BY <3>2 DEF ChangeRole, Remove
      <4>2. u # local[k].target => role'[u] = role[u]
        BY <1>0, <3>2 DEF ChangeRole, Remove
      <4> QED BY <3>1, <4>1, <4>2
    <3>3. CASE CommitTransfer(k)
      <4>1. local' = [local EXCEPT ![k].stale = {local[k].actor, local[k].target}]
        BY <3>3 DEF CommitTransfer
      <4>2. u \notin {local[k].actor, local[k].target} => role'[u] = role[u]
        BY <1>0, <3>3 DEF CommitTransfer
      <4> QED BY <3>1, <4>1, <4>2
    <3> QED BY <1>2, <3>2, <3>3
  <2>5. local'[k].stale = S
    <3>1. local' = [local EXCEPT ![k] = [local[k] EXCEPT !.stale = S]]
      BY <1>0, <2>4
    <3>2. [local[k] EXCEPT !.stale = S].stale = S
      BY <2>3, LocalsEdited
    <3> QED BY <1>0, <3>1, <3>2
  <2>6. CASE u \in S
    BY <2>2, <2>5, <2>6 DEF Current
  <2>7. CASE u \notin S
    <3>1. UNCHANGED <<cached, stale>> /\ role'[u] = role[u]
      BY <2>2, <2>4, <2>7
    <3>2. ASSUME NEW q \in MemberCalls, step[q] = "invalidate", u \in local[q].stale
          PROVE  step'[q] = "invalidate" /\ u \in local'[q].stale
      BY <2>1, <2>2, <3>2
    <3> QED BY <1>0, <3>1, <3>2 DEF Current
  <2> QED BY <2>6, <2>7
<1>3. ASSUME NEW k \in MemberCalls, FillCache(k) PROVE Current(u)'
  <2>1. \A q \in MemberCalls \ {k} : step'[q] = step[q] /\ local'[q] = local[q]
    BY <1>3, CallsMove DEF MemberStep
  <2>2. UNCHANGED role /\ step[k] = "fill"
    BY <1>3 DEF FillCache
  <2>3. CASE u = local[k].actor
    BY <1>0, <1>3, <2>3 DEF FillCache, Current
  <2>4. CASE u # local[k].actor
    <3>1. cached'[u] = cached[u] /\ (u \in stale => u \in stale')
      BY <1>0, <1>3, <2>4 DEF FillCache
    <3> QED BY <1>0, <2>1, <2>2, <3>1 DEF Current
  <2> QED BY <2>3, <2>4
<1>4. ASSUME NEW k \in MemberCalls, Invalidate(k) PROVE Current(u)'
  <2>1. \A q \in MemberCalls \ {k} : step'[q] = step[q] /\ local'[q] = local[q]
    BY <1>4, CallsMove DEF MemberStep
  <2>2. UNCHANGED role /\ step[k] = "invalidate"
    BY <1>4 DEF Invalidate
  <2>3. CASE u \in Concerned(local[k])
    BY <1>4, <2>3 DEF Invalidate, Current
  <2>4. CASE u \notin Concerned(local[k])
    <3>1. u \notin local[k].stale
      BY <2>2, <2>4 DEF Concerned, MemberInv, LocalFacts
    <3>2. cached'[u] = cached[u] /\ (u \in stale => u \in stale')
      BY <1>4, <2>4 DEF Invalidate
    <3> QED BY <1>0, <2>1, <2>2, <3>1, <3>2 DEF Current
  <2> QED BY <2>3, <2>4
<1>5. ASSUME NEW k \in MemberCalls, CrashMember(k) PROVE Current(u)'
  <2>1. \A q \in MemberCalls \ {k} : step'[q] = step[q] /\ local'[q] = local[q]
    BY <1>5, CallsMove
  <2>2. UNCHANGED <<role, cached>> /\ (u \in stale => u \in stale')
        /\ (step[k] = "invalidate" /\ u \in local[k].stale => u \in stale')
    BY <1>5 DEF CrashMember
  <2> QED BY <1>0, <2>1, <2>2 DEF Current
<1>6. ASSUME NEW k \in MemberCalls, Ask(k) PROVE Current(u)'
  <2>1. UNCHANGED <<role, cached, stale>> /\ step[k] = "idle"
    BY <1>6 DEF Ask
  <2>2. \A q \in MemberCalls \ {k} : step'[q] = step[q] /\ local'[q] = local[q]
    BY <1>0, <1>6 DEF Ask, GoOn
  <2> QED BY <1>0, <2>1, <2>2 DEF Current
<1>7. ASSUME NEW v \in Users, AcceptInvite(v) \/ CacheExpires(v) PROVE Current(u)'
  <2>1. UNCHANGED <<step, local>>
    BY <1>7 DEF AcceptInvite, CacheExpires
  <2>2. CASE u = v
    BY <1>0, <1>7, <2>2 DEF AcceptInvite, CacheExpires, Current
  <2>3. CASE u # v
    <3>1. cached'[u] = cached[u] /\ role'[u] = role[u] /\ (u \in stale => u \in stale')
      BY <1>0, <1>7, <2>3 DEF AcceptInvite, CacheExpires
    <3> QED BY <1>0, <2>1, <3>1 DEF Current
  <2> QED BY <2>2, <2>3
<1>8. CASE UNCHANGED memberVars
  BY <1>0, <1>8 DEF memberVars, Current
<1>9. ASSUME NEW k \in MemberCalls, MemberStep(k), ~ChangeRole(k), ~Remove(k), ~CommitTransfer(k),
             ~FillCache(k), ~Invalidate(k)
      PROVE  step[k] # "invalidate" /\ UNCHANGED <<role, cached, stale>>
  BY <1>9 DEF MemberStep, LoadRole, Decide, LockTarget, LockActor, DeadlockAborted, WaitsFor, WantsMember, NameOwner,
         EditWorkspace, SwitchStatus, Invite, WithOp
<1>10. ASSUME NEW k \in MemberCalls, MemberStep(k) PROVE Current(u)'
  BY <1>1, <1>2, <1>3, <1>4, <1>9, <1>10
<1> QED BY <1>5, <1>6, <1>7, <1>8, <1>10 DEF MembershipNext, MemberTime

-----------------------------------------------------------------------------
LEMMA MembersAlways == AccountsSpec => [](MemberInv /\ OwnerInv /\ CacheIsCurrent)
<1>1. AccountsInit => MemberInv /\ OwnerInv /\ CacheIsCurrent
  BY MemberInit, OwnerInit, CacheInit DEF AccountsInit
<1>2. MemberInv /\ OwnerInv /\ CacheIsCurrent /\ [AccountsNext]_accountVars
        => (MemberInv /\ OwnerInv /\ CacheIsCurrent)'
  BY PartsStep, MemberStepInv, OwnerStep, CacheStep
<1> QED BY <1>1, <1>2, PTL DEF AccountsSpec

\* The workspace names the member who owns it, but inside a transfer and where
\* one was torn.
THEOREM OwnerNamed == AccountsSpec => []OwnerIsNamed
<1>1. OwnerInv => OwnerIsNamed
  BY DEF OwnerInv, Named, OwnerIsNamed, Moving
<1> QED BY <1>1, MembersAlways, PTL

\* A request is let in with the role its member has, but for entries about to be
\* deleted, and those a slow guard or a dead call left.
THEOREM CacheCurrent == AccountsSpec => []CacheIsCurrent
BY MembersAlways, PTL

-----------------------------------------------------------------------------
(* A removed member is signed out.  While the user is no member and a row    *)
(* the session still has is due, some call is on its way from the removal to *)
(* that row.                                                                *)

\* The live rows of the session the user came with, but for those that came by
\* a rotation while a revocation of all waited.
Due == {i \in Unrevoked : token[i].family = 1} \ missed

Sweeping(k) ==
    /\ call[k].kind = "removal"
    /\ at[k] = "revokeStart" \/ (at[k] = "revokeAll" /\ Due \subseteq call[k].victims)

RemovedInv ==
    /\ 1 \in Made
    /\ role[Holder] = Absent /\ crashes + failures = 0 /\ Due # {}
          => \E k \in SessionCalls : Removing(k) \/ Sweeping(k)

LEMMA RemovedInit == AccountsInit => RemovedInv
BY OneIsAnId DEF AccountsInit, SessionInit, RemovedInv, Made, State

LEMMA MissedMoves ==
    ASSUME [AccountsNext]_accountVars
    PROVE  missed' = missed \cup NewlyMissed \/ UNCHANGED <<token, missed>>
BY DEF AccountsNext, accountVars, callVars, sessionVars

\* A row comes to be due only by a rotation of a due one that no revocation of
\* all was waiting for; the first row stays.
LEMMA DueMoves ==
    ASSUME SessionInv, ChainInv, RemovedInv, [AccountsNext]_accountVars
    PROVE  /\ 1 \in Made'
           /\ \A i \in Due' : i \in Due \/ \E r \in Due : \A m \in SessionCalls :
                                   at[m] = "revokeAll" => r \notin call[m].victims
<1>0. /\ token \in [Ids -> TokenRows] /\ 1 \in Made /\ 1 \in Ids /\ Made \subseteq Ids
      /\ Unrevoked \subseteq Ids
  BY OneIsAnId DEF SessionInv, SessionTypeOK, RemovedInv, Made, Unrevoked
<1>1. missed \subseteq missed'
  BY MissedMoves
<1>2. \A i \in Ids : i \in Due' <=> /\ token'[i].state \in {"active", "expired"} /\ token'[i].family = 1
                                  /\ i \notin missed'
  BY DEF Due, Unrevoked, State
<1>3. \A i \in Ids : i \in Due <=> /\ token[i].state \in {"active", "expired"} /\ token[i].family = 1
                                 /\ i \notin missed
  BY DEF Due, Unrevoked, State
<1>4. \A i \in Due' : i \in Ids
  BY DEF Due, Unrevoked
<1>5. CASE UNCHANGED token
  BY <1>0, <1>1, <1>2, <1>3, <1>4, <1>5 DEF Made, State
<1>6. ASSUME NEW S \in SUBSET Made, Revoke(S) PROVE 1 \in Made' /\ Due' \subseteq Due
  <2>1. /\ Made' = Made
        /\ \A i \in Ids : /\ token'[i].family = token[i].family
                          /\ token'[i].state = IF i \in S THEN "revoked" ELSE token[i].state
    BY <1>0, <1>6, Revokes
  <2> QED BY <1>0, <1>1, <1>2, <1>3, <1>4, <2>1
<1>7. ASSUME NEW k \in SessionCalls, Issue(k) PROVE 1 \in Made' /\ Due' \subseteq Due
  <2>1. k \in Creating
    BY <1>7 DEF Issue, Creating
  <2>2. NextId \in Ids /\ NextId \notin Made
    BY <2>1, FreshRow
  <2>3. /\ Made' = Made \cup {NextId} /\ token'[NextId] = PersistNewRefresh(NextId, NoToken)
        /\ \A i \in Ids \ {NextId} : token'[i] = token[i]
    BY <1>0, <1>7, <2>2, Inserts DEF Issue
  <2>4. token'[NextId].family # 1
    BY <1>0, <2>2, <2>3 DEF PersistNewRefresh
  <2> QED BY <1>0, <1>1, <1>2, <1>3, <1>4, <2>3, <2>4
<1>8. ASSUME NEW k \in SessionCalls, Rotate(k), NEW i \in Due', i \notin Due
      PROVE  \E r \in Due : \A m \in SessionCalls : at[m] = "revokeAll" => r \notin call[m].victims
  <2>1. PICK r \in Made : /\ r = call[k].row /\ NextId \in Ids /\ NextId \notin Made
                           /\ token'[NextId] = PersistNewRefresh(token[r].family, r)
                           /\ token'[r] = [token[r] EXCEPT !.state = "rotated"]
                           /\ \A l \in Ids \ {r, NextId} : token'[l] = token[l]
    BY <1>8, Rotates
  <2>2. token[r] \in TokenRows
    BY <1>0, <2>1
  <2>3. token'[NextId].family = token[r].family /\ token'[NextId].previous = r /\ token'[r].state = "rotated"
    BY <2>1, <2>2 DEF PersistNewRefresh, TokenRows
  <2>4. i = NextId
    <3>1. i \in Ids /\ token'[i].state \in {"active", "expired"} /\ token'[i].family = 1 /\ i \notin missed
      BY <1>1, <1>2, <1>4, <1>8
    <3>2. i # r
      BY <2>3, <3>1
    <3>3. i # NextId => token'[i] = token[i]
      BY <2>1, <3>1, <3>2
    <3> QED BY <1>3, <1>8, <3>1, <3>3
  <2>5. token[r].family = 1 /\ NextId \notin missed'
    BY <1>2, <1>4, <1>8, <2>3, <2>4
  <2>6. token[r].state \in {"active", "expired"}
    BY <1>8, <2>1 DEF ChainInv, Rotate, State, Live
  <2>7. missed' = missed \cup NewlyMissed
    BY <1>0, <2>1, <2>3, <2>6, MissedMoves
  <2>8. NextId \notin NewlyMissed
    BY <2>5, <2>7
  <2>9. State(NextId) = "none" /\ token'[NextId].previous # NoToken
    BY <1>0, <2>1, <2>3 DEF Made, State, NoToken, Ids
  <2>10. r \notin missed /\ \A m \in SessionCalls : at[m] = "revokeAll" => r \notin call[m].victims
    BY <2>1, <2>3, <2>8, <2>9 DEF NewlyMissed
  <2> QED BY <1>0, <1>3, <2>1, <2>5, <2>6, <2>10
<1>9. ASSUME NEW k \in SessionCalls, Rotate(k) PROVE 1 \in Made'
  BY <1>0, <1>9, Rotates
<1>10. ASSUME NEW d \in Ids, SessionExpires(d) PROVE 1 \in Made' /\ Due' \subseteq Due
  <2>1. token' = [token EXCEPT ![d].state = "expired"] /\ token[d].state = "active" /\ token[d] \in TokenRows
    BY <1>0, <1>10 DEF SessionExpires, State
  <2>2. \A l \in Ids : /\ token'[l].family = token[l].family
                       /\ token'[l].state = IF l = d THEN "expired" ELSE token[l].state
    BY <1>0, <2>1 DEF TokenRows
  <2>3. \A i \in Due' : i \in Due
    BY <1>1, <1>2, <1>3, <1>4, <2>1, <2>2
  <2> QED BY <1>0, <2>2, <2>3 DEF Made, State
<1>11. [SessionNext]_sessionVars
  BY PartsStep
<1> QED BY <1>5, <1>6, <1>7, <1>8, <1>9, <1>10, <1>11, TableMoves

\* A call on its way stays on it, unless it dies or revokes what is due.
LEMMA SweepGoesOn ==
    ASSUME SessionInv, ChainInv, RemovedInv, [AccountsNext]_accountVars, NEW k \in SessionCalls, Sweeping(k),
           Due' # {}, crashes' = 0
    PROVE  Sweeping(k)'
<1>0. /\ at \in [SessionCalls -> SessionSteps] /\ call \in [SessionCalls -> SessionLocals]
      /\ crashes \in Nat /\ token \in [Ids -> TokenRows]
  BY DEF SessionInv, SessionTypeOK
<1>1. ASSUME at'[k] = at[k], call'[k] = call[k] PROVE Sweeping(k)'
  <2>1. CASE at[k] = "revokeStart"
    BY <1>1, <2>1 DEF Sweeping
  <2>2. CASE at[k] = "revokeAll" /\ Due \subseteq call[k].victims
    <3>1. Due' \subseteq Due
      BY <2>2, DueMoves
    <3> QED BY <1>1, <2>2, <3>1 DEF Sweeping
  <2> QED BY <2>1, <2>2 DEF Sweeping
<1>2. ASSUME NEW q \in SessionCalls, SessionRequest(q) \/ BeginRemoval(q) PROVE Sweeping(k)'
  <2>1. at'[k] = at[k] /\ call'[k] = call[k]
    BY <1>0, <1>2 DEF SessionRequest, BeginLogin, BeginPassword, BeginRefresh, BeginRevokeSession, BeginLogoutAll,
           BeginLogout, Switch, BeginRemoval, Start, Enter, Sweeping
  <2> QED BY <1>1, <2>1
<1>3. ASSUME NEW q \in SessionCalls, CrashSession(q) PROVE FALSE
  BY <1>0, <1>3 DEF CrashSession
<1>4. ASSUME NEW q \in SessionCalls, SessionStep(q), q # k PROVE Sweeping(k)'
  <2>1. at'[k] = at[k] /\ call'[k] = call[k]
    BY <1>0, <1>4 DEF SessionStep, Issue, CapStart, Cap, LockRow, Rotate, RevokeRow, RevokeStart, RevokeAll, Deny,
           Enter, Finish
  <2> QED BY <1>1, <2>1
<1>5. CASE RevokeStart(k)
  <2>1. at'[k] = "revokeAll" /\ UNCHANGED token
    BY <1>0, <1>5 DEF RevokeStart, Enter
  <2>2. call'[k].kind = call[k].kind /\ call'[k].victims = Unrevoked
    <3>1. Unrevoked \in SUBSET Ids /\ call[k] \in SessionLocals
      BY <1>0 DEF Unrevoked
    <3> QED BY <1>0, <1>5, <3>1 DEF RevokeStart, SessionLocals
  <2>3. Due' \subseteq Unrevoked
    BY <2>1 DEF Due, Unrevoked, State
  <2> QED BY <2>1, <2>2, <2>3 DEF Sweeping
<1>6. CASE RevokeAll(k)
  <2>1. Due \subseteq Reachable(k) /\ Reachable(k) \in SUBSET Made
    BY <1>6 DEF RevokeAll, Sweeping, Reachable, Due, Unrevoked, Made, State
  <2>2. \A i \in Ids : /\ token'[i].family = token[i].family
                       /\ token'[i].state = IF i \in Reachable(k) THEN "revoked" ELSE token[i].state
    BY <1>0, <1>6, <2>1, Revokes DEF RevokeAll
  <2>3. missed \subseteq missed'
    BY MissedMoves
  <2>4. Due' = {}
    BY <2>1, <2>2, <2>3 DEF Due, Unrevoked, State
  <2> QED BY <2>4
<1>7. CASE SessionStep(k)
  BY <1>5, <1>6, <1>7 DEF SessionStep, Issue, CapStart, Cap, LockRow, Rotate, RevokeRow, Deny, Sweeping
<1>8. SessionTime \/ UNCHANGED sessionVars => UNCHANGED <<at, call>>
  BY DEF SessionTime, GraceEnds, AccessExpires, DenialEnds, SessionExpires, sessionVars
<1>9. CASE UNCHANGED <<at, call>>
  BY <1>1, <1>9
<1>10. [SessionNext]_sessionVars
  BY PartsStep
<1> QED BY <1>2, <1>3, <1>4, <1>7, <1>8, <1>9, <1>10 DEF SessionNext

\* A member is lost in the step that sends a call on its way.
LEMMA RemovalBegins ==
    ASSUME MemberInv, [MembershipNext]_memberVars, role[Holder] # Absent, role'[Holder] = Absent
    PROVE  \E k \in MemberCalls : Removing(k)'
<1>0. /\ role \in [Users -> Roles \cup {Absent}] /\ Holder \in Users /\ Absent \notin Roles
      /\ step \in [MemberCalls -> Steps] /\ local \in [MemberCalls -> Locals \cup {Absent}]
  BY MembershipAssumption, AccountsAssumption
     DEF MemberInv, MembershipTypeOK, MembershipAssumption, AccountsAssumption
<1>1. ASSUME NEW k \in MemberCalls, Remove(k) PROVE Removing(k)'
  <2>1. role' # role => local[k].target = Holder
    BY <1>0, <1>1 DEF Remove
  <2>2. step'[k] = "invalidate"
    BY <1>0, <1>1 DEF Remove, GoOn
  <2>3. local'[k].op = local[k].op /\ local'[k].target = local[k].target
    BY <1>1, <2>2, CallsMove DEF MemberStep
  <2> QED BY <1>1, <2>1, <2>2, <2>3 DEF Remove, WithOp, Removing
<1>2. ASSUME NEW k \in MemberCalls, ChangeRole(k) \/ CommitTransfer(k) PROVE FALSE
  <2>1. local[k].to \in Roles
    BY <1>2 DEF ChangeRole, CommitTransfer, WithOp, MemberInv, MembershipTypeOK, Locals
  <2>2. "owner" \in Roles /\ "admin" \in Roles
    BY DEF Roles
  <2> QED BY <1>0, <1>2, <2>1, <2>2 DEF ChangeRole, CommitTransfer
<1>3. ASSUME NEW u \in Users, AcceptInvite(u) PROVE FALSE
  BY <1>0, <1>3 DEF AcceptInvite
<1>4. ASSUME NEW k \in MemberCalls, Ask(k) \/ MemberStep(k) \/ CrashMember(k), ~Remove(k), ~ChangeRole(k),
             ~CommitTransfer(k)
      PROVE  UNCHANGED role
  BY <1>4 DEF Ask, MemberStep, CrashMember, LoadRole, FillCache, Decide, LockTarget, LockActor, DeadlockAborted, NameOwner,
         EditWorkspace, SwitchStatus, Invite, Invalidate
<1>5. ASSUME NEW u \in Users, CacheExpires(u) PROVE UNCHANGED role
  BY <1>5 DEF CacheExpires
<1>6. UNCHANGED memberVars => UNCHANGED role
  BY DEF memberVars
<1> QED BY <1>1, <1>2, <1>3, <1>4, <1>5, <1>6 DEF MembershipNext, MemberTime

\* A call that has removed the user goes on to the sessions, unless it dies.
LEMMA RemovalGoes ==
    ASSUME SessionInv, MemberInv, [AccountsNext]_accountVars, NEW k \in SessionCalls, Removing(k),
           failures' = 0
    PROVE  Removing(k)' \/ Sweeping(k)'
<1>0. /\ at \in [SessionCalls -> SessionSteps] /\ call \in [SessionCalls -> SessionLocals]
      /\ step \in [MemberCalls -> Steps] /\ local \in [MemberCalls -> Locals \cup {Absent}]
      /\ failures \in Nat /\ SessionCalls = MemberCalls
  BY AccountsAssumption DEF SessionInv, SessionTypeOK, MemberInv, MembershipTypeOK, AccountsAssumption
<1>1. ASSUME UNCHANGED memberVars PROVE Removing(k)'
  BY <1>1 DEF memberVars, Removing
<1>2. ASSUME NEW q \in SessionCalls, Ask(q) PROVE Removing(k)'
  BY <1>0, <1>2 DEF Ask, GoOn, Removing
<1>3. ASSUME NEW q \in SessionCalls, CrashMember(q) PROVE FALSE
  BY <1>0, <1>3 DEF CrashMember
<1>4. ASSUME NEW q \in SessionCalls, MemberStep(q), q # k PROVE Removing(k)'
  BY <1>0, <1>4, CallsMove DEF Removing
<1>5. CASE RemovalGoesOn(k)
  BY <1>0, <1>5 DEF RemovalGoesOn, BeginRemoval, Enter, LocalsFor, Sweeping
<1>6. ASSUME NEW q \in SessionCalls, RemovalGoesOn(q), q # k PROVE Removing(k)'
  BY <1>4, <1>6 DEF RemovalGoesOn, MemberStep
<1>7. ASSUME MemberTime PROVE Removing(k)'
  BY <1>7 DEF MemberTime, AcceptInvite, CacheExpires, Removing
<1>8. ASSUME UNCHANGED accountVars PROVE Removing(k)'
  BY <1>1, <1>8 DEF accountVars, callVars
<1>9. ASSUME NEW q \in SessionCalls, Handle(q) PROVE Removing(k)' \/ Sweeping(k)'
  BY <1>1, <1>4, <1>5, <1>6, <1>9 DEF Handle
<1>10. ASSUME NEW q \in SessionCalls, Request(q) \/ CrashCall(q) PROVE Removing(k)'
  BY <1>1, <1>2, <1>3, <1>10 DEF Request, CrashCall
<1>11. TimePasses => Removing(k)'
  BY <1>1, <1>7 DEF TimePasses
<1> QED BY <1>8, <1>9, <1>10, <1>11 DEF AccountsNext

LEMMA NoneOfTwo == \A m, n \in Nat : m + n = 0 => m = 0 /\ n = 0
OBVIOUS

LEMMA TroubleStays ==
    ASSUME SessionInv, MemberInv, [AccountsNext]_accountVars, crashes' + failures' = 0
    PROVE  crashes + failures = 0 /\ crashes' = 0 /\ failures' = 0
<1>1. crashes \in Nat /\ failures \in Nat
  BY DEF SessionInv, SessionTypeOK, MemberInv, MembershipTypeOK
<1>2. crashes' \in Nat /\ failures' \in Nat
  <2>1. SessionInv' /\ MemberInv'
    BY PartsStep, SessionStepInv, MemberStepInv
  <2> QED BY <2>1 DEF SessionInv, SessionTypeOK, MemberInv, MembershipTypeOK
<1>3. crashes' = crashes \/ crashes' = crashes + 1
  <2>1. [SessionNext]_sessionVars
    BY PartsStep
  <2> QED BY <2>1 DEF SessionNext, sessionVars, SessionRequest, BeginLogin, BeginPassword, BeginRefresh,
         BeginRevokeSession, BeginLogoutAll, BeginLogout, Switch, BeginRemoval, Start, SessionStep, Issue, CapStart,
         Cap, LockRow, Rotate, RevokeRow, RevokeStart, RevokeAll, Deny, CrashSession, SessionTime, GraceEnds,
         AccessExpires, DenialEnds, SessionExpires
<1>4. failures' = failures \/ failures' = failures + 1
  <2>1. [MembershipNext]_memberVars
    BY PartsStep
  <2> QED BY <2>1 DEF MembershipNext, memberVars, Ask, MemberStep, CrashMember, LoadRole, FillCache, Decide,
         ChangeRole, Remove, LockTarget, LockActor, DeadlockAborted, NameOwner, CommitTransfer, EditWorkspace, SwitchStatus, Invite, Invalidate,
         MemberTime, AcceptInvite, CacheExpires
<1>5. crashes' = 0 /\ failures' = 0
  BY <1>2, NoneOfTwo
<1>6. crashes = 0 /\ failures = 0
  BY <1>1, <1>3, <1>4, <1>5
<1> QED BY <1>5, <1>6

LEMMA RemovedStep ==
    SessionInv /\ ChainInv /\ MemberInv /\ RemovedInv /\ [AccountsNext]_accountVars => RemovedInv'
<1> SUFFICES ASSUME SessionInv, ChainInv, MemberInv, RemovedInv, [AccountsNext]_accountVars
             PROVE  RemovedInv'
  OBVIOUS
<1>1. 1 \in Made' /\ (Due' # {} => Due # {})
  BY DueMoves
<1>2. ASSUME role'[Holder] = Absent, crashes' + failures' = 0, Due' # {}
      PROVE  \E k \in SessionCalls : Removing(k)' \/ Sweeping(k)'
  <2>1. crashes + failures = 0 /\ crashes' = 0 /\ failures' = 0 /\ Due # {}
    BY <1>1, <1>2, TroubleStays
  <2>2. CASE role[Holder] = Absent
    <3>1. PICK k \in SessionCalls : Removing(k) \/ Sweeping(k)
      BY <2>1, <2>2 DEF RemovedInv
    <3>2. Removing(k) => Removing(k)' \/ Sweeping(k)'
      BY <2>1, RemovalGoes
    <3>3. Sweeping(k) => Sweeping(k)'
      BY <1>2, <2>1, SweepGoesOn
    <3> QED BY <3>1, <3>2, <3>3
  <2>3. CASE role[Holder] # Absent
    <3>1. \E k \in MemberCalls : Removing(k)'
      BY <1>2, <2>3, PartsStep, RemovalBegins
    <3> QED BY <3>1, AccountsAssumption DEF AccountsAssumption
  <2> QED BY <2>2, <2>3
<1> QED BY <1>1, <1>2 DEF RemovedInv

\* The user who was removed is signed out once every call is answered: every
\* live row of the session the user came with was inserted by a rotation while
\* the statement that revokes waited, or comes from one that was.
THEOREM RemovedSignedOut == AccountsSpec => []RemovedIsSignedOut
<1>1. AccountsInit => RemovedInv
  BY RemovedInit
<1>2. SessionInv /\ ChainInv /\ MemberInv /\ RemovedInv /\ [AccountsNext]_accountVars => RemovedInv'
  BY RemovedStep
<1>3. RemovedInv => RemovedIsSignedOut
  BY DEF RemovedInv, RemovedIsSignedOut, AllAnswered, Removing, Sweeping, Due
<1> QED BY <1>1, <1>2, <1>3, SessionsAlways, MembersAlways, PTL DEF AccountsSpec
=============================================================================
