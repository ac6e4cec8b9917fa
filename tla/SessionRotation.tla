--------------------------- MODULE SessionRotation ---------------------------
(***************************************************************************)
(* The sessions of one user: rows of refresh_tokens that are rotated and   *)
(* revoked, the access tokens issued with them, and the denylist that ends *)
(* those early.  The statements of token.service.ts run at READ COMMITTED: *)
(* an UPDATE chooses its rows when it starts, waits for the locks others   *)
(* hold on them, and then looks at those rows, and at no others, again.    *)
(***************************************************************************)
EXTENDS Naturals, FiniteSets

CONSTANTS
    SessionCalls,   \* API calls that can be in flight
    MaxTokens,      \* bound: rows ever inserted
    MaxSessions,    \* MAX_SESSIONS_PER_USER
    MaxRequests,    \* bound: calls
    MaxCrashes      \* bound: calls that die

ASSUME SessionAssumption ==
    /\ IsFiniteSet(SessionCalls)
    /\ MaxTokens \in Nat \ {0} /\ MaxSessions \in Nat \ {0}
    /\ MaxRequests \in Nat /\ MaxCrashes \in Nat

Ids == 1..MaxTokens          \* in the order of created_at
NoToken == 0
MembershipId == 0            \* the jti of an access token from a switch

VARIABLES
    token,      \* refresh_tokens
    graced,     \* rows whose rotation_grace_until is in the future
    access,     \* access tokens that have not expired
    denied,     \* the denylist in Redis: jtis
    at, call,   \* API calls: step and locals
    spared,     \* observation: rows whose access tokens were left to expire
    requests, crashes

sessionVars == <<token, graced, access, denied, at, call, spared,
                 requests, crashes>>

TokenStates == {"none", "active", "expired", "rotated", "revoked"}
TokenRows == [state : TokenStates, family : Ids \cup {NoToken}, previous : Ids \cup {NoToken}]
AccessTokens == [jti : Ids \cup {MembershipId}, young : BOOLEAN]
SessionSteps == {"idle", "issue", "capStart", "cap", "lock", "rotate",
                 "revokeRow", "revokeStart", "revokeAll", "deny"}
SessionLocals == [row : Ids \cup {NoToken}, deny : SUBSET (Ids \cup {MembershipId}),
                  victims : SUBSET Ids,
                  kind : {"", "logout", "session", "all", "removal"}]

SessionTypeOK ==
    /\ token \in [Ids -> TokenRows]
    /\ graced \subseteq Ids
    /\ access \subseteq AccessTokens
    /\ denied \subseteq Ids \cup {MembershipId}
    /\ at \in [SessionCalls -> SessionSteps]
    /\ call \in [SessionCalls -> SessionLocals]
    /\ spared \subseteq Ids
    /\ requests \in 0..MaxRequests /\ crashes \in 0..MaxCrashes

NoRow == [state |-> "none", family |-> NoToken, previous |-> NoToken]
LocalsFor(row, deny, kind) == [row |-> row, deny |-> deny, victims |-> {}, kind |-> kind]
NoLocals == LocalsFor(NoToken, {}, "")

\* One session, as signup leaves it.
SessionInit ==
    /\ token = [i \in Ids |-> IF i = 1
                   THEN [state |-> "active", family |-> 1, previous |-> NoToken] ELSE NoRow]
    /\ graced = {} /\ access = {[jti |-> 1, young |-> TRUE]} /\ denied = {}
    /\ at = [k \in SessionCalls |-> "idle"]
    /\ call = [k \in SessionCalls |-> NoLocals]
    /\ spared = {}
    /\ requests = 0 /\ crashes = 0

-----------------------------------------------------------------------------
State(i)    == token[i].state
Made        == {i \in Ids : State(i) # "none"}
NextId      == Cardinality(Made) + 1
Unrevoked   == {i \in Ids : State(i) \in {"active", "expired"}}
Active      == {i \in Ids : State(i) = "active"}

Usable(j)   == j.jti \notin denied      \* authenticate(), of a token in access

Creating    == {k \in SessionCalls : at[k] \in {"issue", "lock", "rotate"}}
HasRoom     == Cardinality(Made) + Cardinality(Creating) < MaxTokens

\* Rows under SELECT ... FOR UPDATE.
Locked(i)   == \E k \in SessionCalls : at[k] = "rotate" /\ call[k].row = i

\* A session is a family of rows.  It goes on while one of them is unrevoked.
SameSession(i, r) == token[i].family = token[r].family
GoesOn(i)   == \E r \in Unrevoked : SameSession(i, r)

\* Rows rotated away before, in a session that ends as the rows S are revoked.
\* No statement returns them, so nobody denies what was signed for them.
RotatedAway(S) == {i \in Made : /\ State(i) = "rotated" /\ \E r \in S : SameSession(i, r)
                                /\ \A r \in Unrevoked : SameSession(i, r) => r \in S}

Start(k, step, locals) ==
    /\ at[k] = "idle" /\ requests < MaxRequests
    /\ requests' = requests + 1
    /\ at' = [at EXCEPT ![k] = step]
    /\ call' = [call EXCEPT ![k] = locals]
    /\ UNCHANGED <<graced, denied, spared, crashes>>
Enter(k, step) == at' = [at EXCEPT ![k] = step] /\ UNCHANGED requests
Finish(k) == /\ at' = [at EXCEPT ![k] = "idle"]
             /\ call' = [call EXCEPT ![k] = NoLocals] /\ UNCHANGED requests

Revoke(S) == token' = [i \in Ids |-> IF i \in S THEN [token[i] EXCEPT !.state = "revoked"]
                                     ELSE token[i]]
Sign(jti) == access' = access \cup {[jti |-> jti, young |-> TRUE]}

-----------------------------------------------------------------------------
(* login: issueTokens inserts the row, caps the user's sessions, and signs   *)
(* the access token.                                                        *)

BeginLogin(k) == HasRoom /\ Start(k, "issue", NoLocals) /\ UNCHANGED <<token, access>>

PersistNewRefresh(family, previous) ==
    [state |-> "active", family |-> family, previous |-> previous]

Issue(k) ==
    /\ at[k] = "issue" /\ Enter(k, "capStart")
    /\ token' = [token EXCEPT ![NextId] = PersistNewRefresh(NextId, NoToken)]
    /\ call' = [call EXCEPT ![k].row = NextId]
    /\ UNCHANGED <<graced, access, denied, spared, crashes>>

OverCap == {i \in Active : Cardinality({j \in Active : j > i}) >= MaxSessions}

CapStart(k) ==
    /\ at[k] = "capStart" /\ Enter(k, "cap")
    /\ call' = [call EXCEPT ![k].victims = OverCap]
    /\ UNCHANGED <<token, graced, access, denied, spared, crashes>>

\* The rows are not looked at again: WHERE rt.id = ranked.id.
Cap(k) ==
    /\ at[k] = "cap" /\ \A i \in call[k].victims : ~Locked(i)
    /\ Revoke(call[k].victims)
    /\ spared' = spared \cup call[k].victims \cup RotatedAway(call[k].victims)
    /\ Sign(call[k].row) /\ Finish(k)
    /\ UNCHANGED <<graced, denied, crashes>>

-----------------------------------------------------------------------------
(* refresh: the row is locked and a live one is replaced.  Whatever else the  *)
(* row says, the error thrown rolls the transaction back, the revocation of  *)
(* the family included.  The branch for the grace window asks that no row has the       *)
(* presented token's hash any more; rows are never deleted.                  *)

BeginRefresh(k, i) ==
    /\ HasRoom /\ i \in Made
    /\ Start(k, "lock", LocalsFor(i, {}, "")) /\ UNCHANGED <<token, access>>

\* The rows with the presented token's hash, as their own or the one before.
Matching(r) == {i \in Made : i = r \/ token[i].previous = r}

\* Faulty variant: SELECT without FOR UPDATE.
LockRow_NoWait(k) ==
    /\ at[k] = "lock"
    /\ IF State(call[k].row) = "active" THEN Enter(k, "rotate") /\ UNCHANGED call ELSE Finish(k)
    /\ UNCHANGED <<token, graced, access, denied, spared, crashes>>

LockRow(k) ==
    /\ at[k] = "lock" /\ \A i \in Matching(call[k].row) : ~Locked(i)
    /\ IF State(call[k].row) = "active" THEN Enter(k, "rotate") /\ UNCHANGED call ELSE Finish(k)
    /\ UNCHANGED <<token, graced, access, denied, spared, crashes>>

Rotate(k) ==
    /\ at[k] = "rotate" /\ Finish(k)
    /\ token' = [token EXCEPT ![call[k].row].state = "rotated",
                              ![NextId] = PersistNewRefresh(token[call[k].row].family, call[k].row)]
    /\ graced' = graced \cup {NextId} /\ Sign(NextId)
    /\ UNCHANGED <<denied, spared, crashes>>

-----------------------------------------------------------------------------
(* logout and revokeSession: one row, by its hash or its id.                *)

BeginLogout(k, j, i) ==
    /\ j \in access /\ Usable(j) /\ i \in Made
    /\ Start(k, "revokeRow", LocalsFor(i, {j.jti}, "logout"))
    /\ UNCHANGED <<token, access>>

BeginRevokeSession(k, i) ==
    /\ i \in Made
    /\ Start(k, "revokeRow", LocalsFor(i, {i}, "session"))
    /\ UNCHANGED <<token, access>>

\* Logging out denies the caller's token whatever the row said; a session
\* that is not there is an error.
RevokeRow(k) ==
    /\ at[k] = "revokeRow" /\ ~Locked(call[k].row)
    /\ LET i == call[k].row IN
       IF i \in Unrevoked
       THEN /\ Revoke({i}) /\ Enter(k, "deny") /\ UNCHANGED call
            /\ spared' = spared \cup (({i} \cup RotatedAway({i})) \ call[k].deny)
       ELSE /\ UNCHANGED <<token, spared>>
            /\ IF call[k].kind = "logout" THEN Enter(k, "deny") /\ UNCHANGED call ELSE Finish(k)
    /\ UNCHANGED <<graced, access, denied, crashes>>

-----------------------------------------------------------------------------
(* revokeAllForUser: from logout-all, a new password, a removed membership.  *)

BeginLogoutAll(k, j) ==
    /\ j \in access /\ Usable(j)
    /\ Start(k, "revokeStart", LocalsFor(NoToken, {j.jti}, "all"))
    /\ UNCHANGED <<token, access>>

\* password_changed_at turns away what was signed more than a second before.
BeginPassword(k) ==
    /\ Start(k, "revokeStart", LocalsFor(NoToken, {}, "all"))
    /\ access' = {j \in access : j.young} /\ UNCHANGED token

\* As many as members are removed.
BeginRemoval(k) ==
    /\ at[k] = "idle" /\ Enter(k, "revokeStart")
    /\ call' = [call EXCEPT ![k] = LocalsFor(NoToken, {}, "removal")]
    /\ UNCHANGED <<token, graced, access, denied, spared, crashes>>

RevokeStart(k) ==
    /\ at[k] = "revokeStart" /\ Enter(k, "revokeAll")
    /\ call' = [call EXCEPT ![k].victims = Unrevoked]
    /\ UNCHANGED <<token, graced, access, denied, spared, crashes>>

Reachable(k) == call[k].victims \cap Unrevoked

\* Faulty variant: only the caller's own token is denied.
ToDeny_Own(k, revoked) == call[k].deny
ToDeny(k, revoked) == call[k].deny \cup revoked

\* A removed member's access tokens are left to expire.
RevokeAll(k) ==
    /\ at[k] = "revokeAll" /\ \A i \in Reachable(k) : ~Locked(i)
    /\ Revoke(Reachable(k))
    /\ IF call[k].kind = "removal"
       THEN Finish(k) /\ spared' = spared \cup Reachable(k) \cup RotatedAway(Reachable(k))
       ELSE /\ Enter(k, "deny")
            /\ spared' = spared \cup (RotatedAway(Reachable(k)) \ call[k].deny)
            /\ call' = [call EXCEPT ![k].deny = ToDeny(k, Reachable(k)),
                                    ![k].victims = Reachable(k)]
    /\ UNCHANGED <<graced, access, denied, crashes>>

\* One pipeline to Redis; then the call is answered.
Deny(k) ==
    /\ at[k] = "deny" /\ Finish(k)
    /\ denied' = denied \cup call[k].deny
    /\ UNCHANGED <<token, graced, access, spared, crashes>>

-----------------------------------------------------------------------------
\* switchWorkspace signs a token of its own and leaves the session alone.
Switch(k, j) ==
    /\ at[k] = "idle" /\ requests < MaxRequests /\ requests' = requests + 1
    /\ j \in access /\ Usable(j) /\ Sign(MembershipId)
    /\ UNCHANGED <<token, graced, denied, at, call, spared, crashes>>

\* The call dies: its transaction is rolled back, what it had still to do is
\* not done.
CrashSession(k) ==
    /\ at[k] # "idle" /\ crashes < MaxCrashes /\ crashes' = crashes + 1
    /\ Finish(k)
    /\ spared' = IF at[k] = "deny"
                 THEN spared \cup (call[k].deny \ {MembershipId}) ELSE spared
    /\ UNCHANGED <<token, graced, access, denied>>

\* Half a minute, a quarter of an hour, thirty days.
GraceEnds ==
    /\ graced # {} \/ \E j \in access : j.young
    /\ graced' = {} /\ access' = {[j EXCEPT !.young = FALSE] : j \in access}
    /\ UNCHANGED <<token, denied, at, call, spared, requests, crashes>>

AccessExpires(j) ==
    /\ j \in access /\ ~j.young /\ access' = access \ {j}
    /\ UNCHANGED <<token, graced, denied, at, call, spared, requests, crashes>>

\* The entry lives as long as an access token issued with it can, and no call
\* takes that long.
DenialEnds(d) ==
    /\ d \in denied /\ \A j \in access : j.jti # d
    /\ \A k \in SessionCalls : at[k] = "idle"
    /\ denied' = denied \ {d}
    /\ UNCHANGED <<token, graced, access, at, call, spared, requests, crashes>>

SessionExpires(i) ==
    /\ State(i) = "active" /\ i \notin graced /\ \A j \in access : j.jti # i
    /\ \A k \in SessionCalls : at[k] \in {"capStart", "cap"} => call[k].row # i
    /\ token' = [token EXCEPT ![i].state = "expired"]
    /\ UNCHANGED <<graced, access, denied, at, call, spared, requests, crashes>>

-----------------------------------------------------------------------------
SessionStep(k) ==
    \/ Issue(k) \/ CapStart(k) \/ Cap(k) \/ LockRow(k) \/ Rotate(k)
    \/ RevokeRow(k) \/ RevokeStart(k) \/ RevokeAll(k) \/ Deny(k)

SessionRequest(k) ==
    \/ BeginLogin(k) \/ BeginPassword(k)
    \/ \E i \in Ids : BeginRefresh(k, i) \/ BeginRevokeSession(k, i)
    \/ \E j \in access : BeginLogoutAll(k, j) \/ Switch(k, j)
    \/ \E j \in access, i \in Ids : BeginLogout(k, j, i)

SessionTime ==
    \/ GraceEnds
    \/ \E j \in access : AccessExpires(j)
    \/ \E d \in denied : DenialEnds(d)
    \/ \E i \in Ids : SessionExpires(i)

SessionNext ==
    \/ \E k \in SessionCalls :
          SessionRequest(k) \/ BeginRemoval(k) \/ SessionStep(k) \/ CrashSession(k)
    \/ SessionTime

SessionFairness == \A k \in SessionCalls : WF_sessionVars(SessionStep(k))
SessionSpec == SessionInit /\ [][SessionNext]_sessionVars /\ SessionFairness

-----------------------------------------------------------------------------
(* Properties that hold.                                                    *)

\* However refreshes overlap with each other and with revocations, a token is
\* replaced once and a family has one live token: two clients never go on with
\* two chains of one session.
OneChainPerFamily ==
    /\ \A i, j \in Made : token[i].previous = token[j].previous
                             => i = j \/ token[i].previous = NoToken
    /\ \A i, j \in Active : token[i].family = token[j].family => i = j

\* An access token that is still taken (one from a switch of workspaces apart,
\* which belongs to no session) is of a session that goes on, its own row not
\* revoked.  The exceptions are tokens about to be denied and those in spared,
\* which the code leaves to their fifteen minutes when their session ends: what
\* was signed for a row rotated away before, unless it is the caller's own;
\* sessions over the cap, of a removed member, or logged out from another one;
\* and the tokens of a call that died before the denylist.
RevokedAccessEnds ==
    \A j \in access : j.jti # MembershipId /\ Usable(j) =>
        \/ State(j.jti) # "revoked" /\ GoesOn(j.jti)
        \/ j.jti \in spared
        \/ \E k \in SessionCalls : at[k] = "deny" /\ j.jti \in call[k].deny
=============================================================================
