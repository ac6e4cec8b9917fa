------------------------------- MODULE Accounts -------------------------------
(***************************************************************************)
(* The sessions of one user and the workspace the user is in.  One API     *)
(* call is one call of both: removing a member goes on, in the same        *)
(* handler, to revoke the sessions of the user removed.  All calls share    *)
(* one pool of database connections.  A transaction holds one, and so does *)
(* a statement that waits for a lock; the driver queues who finds none     *)
(* free, without a timeout.                                                *)
(***************************************************************************)
EXTENDS SessionRotation, WorkspaceMembership

CONSTANTS
    Holder,      \* the user whose sessions these are
    PoolSizes,   \* DATABASE_POOL_MAX: what may be configured
    Mixed        \* bound: calls on sessions beside one on members

ASSUME AccountsAssumption ==
    /\ Holder \in Users /\ SessionCalls = MemberCalls
    /\ PoolSizes \subseteq Nat /\ Mixed \in Nat

VARIABLES
    pool,       \* the connections there are
    missed,     \* observation: rows inserted while a revocation of all waited
    plan        \* what the calls of this behaviour are about: a bound

callVars == <<sessionVars, memberVars>>
accountVars == <<callVars, pool, missed, plan>>

Removing(k) == step[k] = "invalidate" /\ local[k].op = "remove" /\ local[k].target = Holder

AccountsInit ==
    /\ SessionInit /\ MembershipInit
    /\ plan \in {"sessions", "members", "removal"}
    /\ pool \in PoolSizes /\ missed = {}
    /\ \A n \in PoolSizes : (plan = "members" => pool <= n) /\ (plan = "removal" => pool >= n)
    /\ role[Holder] # Absent        \* the user is a member
    /\ plan = "members" \/ role[Holder] = "viewer"
    /\ \A u \in Users \ {Creator, Holder} :
          role[u] \in IF plan = "members" THEN {"admin", Absent} ELSE {Absent}

-----------------------------------------------------------------------------
(* The pool.                                                                *)

\* Who holds a connection: transactions, and statements that may wait for a row.
Holding == {k \in SessionCalls :
               \/ at[k] \in {"lock", "rotate", "revokeRow", "revokeAll", "cap"}
               \/ step[k] \in {"lockActor", "promote", "commit"}
               \/ step[k] = "write" /\ local[k].op \in {"change", "remove", "transfer"}}
Spare == Cardinality(Holding) < pool

\* The look-up of the owner, inside the rotation's transaction, and the update
\* of the workspace, inside the transfer's, ask the pool for another one.
WantsAnother(k) == at[k] = "rotate" \/ step[k] = "promote"

\* Other statements take one for a moment.
WantsOne(k) ==
    \/ WantsAnother(k) \/ at[k] = "issue" \/ step[k] \in {"load", "decide"}
    \/ step[k] = "write" /\ k \notin Holding
    \/ step[k] = "invalidate" /\ local[k].op = "switchOff"

\* Faulty variant: what runs inside a transaction is audited on a third one.
Connected_Audited(k) ==
    /\ WantsAnother(k) => Cardinality(Holding) + 1 < pool
    /\ WantsOne(k) \/ (k \in Holding' /\ k \notin Holding) => Spare

\* Of a step of k: it has the connection it wants, or comes to hold.
Connected(k) == WantsOne(k) \/ (k \in Holding' /\ k \notin Holding) => Spare

-----------------------------------------------------------------------------
\* switchWorkspace asks the cache or the table whether the caller is a member.
MaySwitch == wsStatus = "active" /\ (cached[Holder] # Absent \/ role[Holder] # Absent)

Request(k) ==
    /\ step[k] = "idle" /\ at[k] = "idle"
    /\ \/ SessionRequest(k) /\ (MembershipId \in {j.jti : j \in access'} => MaySwitch
                                    \/ MembershipId \in {j.jti : j \in access})
          /\ UNCHANGED memberVars
       \/ Ask(k) /\ UNCHANGED sessionVars
    /\ Connected(k)

\* Faulty variant: the removal ends with the cache.
RemovalGoesOn_Never(k) == Removing(k) /\ Invalidate(k) /\ UNCHANGED sessionVars

RemovalGoesOn(k) == Removing(k) /\ Invalidate(k) /\ BeginRemoval(k)

Handle(k) ==
    /\ \/ SessionStep(k) /\ UNCHANGED memberVars
       \/ ~Removing(k) /\ MemberStep(k) /\ UNCHANGED sessionVars
       \/ RemovalGoesOn(k)
    /\ Connected(k)

CrashCall(k) ==
    \/ CrashSession(k) /\ UNCHANGED memberVars
    \/ CrashMember(k) /\ UNCHANGED sessionVars

\* Rows a rotation inserts while a revocation of all waits for what it replaces,
\* and their successors: no row of the statement's snapshot.
NewlyMissed ==
    {i \in Ids : /\ State(i) = "none" /\ token'[i].previous # NoToken
                 /\ \/ token'[i].previous \in missed
                    \/ \E m \in SessionCalls : /\ at[m] = "revokeAll"
                                               /\ token'[i].previous \in call[m].victims}

TimePasses ==
    \/ requests > 0 /\ SessionTime /\ UNCHANGED memberVars
    \/ changes > 0 /\ MemberTime /\ UNCHANGED sessionVars /\ (invited' # invited => Spare)

\* Bound: the calls are about sessions, no more than there are connections, or
\* about members, or one removes the user while the user makes a few.  The last
\* two with the smallest and the largest pool.
Bounded ==
    /\ crashes' + failures' <= MaxFailures
    /\ requests' <= pool
    /\ CASE plan = "sessions" -> changes' = 0
         [] plan = "members"  -> requests' = 0
         [] plan = "removal"  -> /\ changes' <= 1 /\ requests' <= Mixed
                                /\ \A k \in MemberCalls : step'[k] # "idle" =>
                                      local'[k].op = "remove" /\ local'[k].target = Holder

AccountsNext ==
    /\ \/ \E k \in SessionCalls : Request(k) \/ Handle(k) \/ CrashCall(k)
       \/ TimePasses
    /\ missed' = missed \cup NewlyMissed
    /\ Bounded /\ UNCHANGED <<pool, plan>>

AccountsFairness == \A k \in SessionCalls : WF_callVars(Handle(k))
AccountsSpec == AccountsInit /\ [][AccountsNext]_accountVars /\ AccountsFairness

-----------------------------------------------------------------------------
(* Properties that hold.                                                    *)

AllAnswered == \A k \in SessionCalls : at[k] = "idle" /\ step[k] = "idle"
Exhausted == ~Spare /\ \E k \in SessionCalls : WantsAnother(k)

\* The calls are all answered in the end: no row lock, deadlock or other call
\* keeps one for ever, with as many connections as calls and one more.  With
\* fewer there is one way not to be: every connection is held, one of them by a
\* transaction that asks for a second, and the driver never gives up waiting.
CallsAreAnswered == []<>AllAnswered \/ <>[]Exhausted

\* A user who was removed is signed out: when no call is under way and none has
\* died, no row of the session the user came with is live, however often it was
\* refreshed before or meanwhile.  The exception is a row that came by a rotation
\* while the statement that revokes waited, and what it is refreshed to.
RemovedIsSignedOut ==
    /\ role[Holder] = Absent /\ crashes + failures = 0 /\ AllAnswered
    => \A i \in Unrevoked : token[i].family = 1 => i \in missed
=============================================================================
