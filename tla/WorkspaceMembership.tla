------------------------- MODULE WorkspaceMembership -------------------------
(***************************************************************************)
(* The members of one workspace: roles, the owner the workspace names, the *)
(* invitations, and the cache of roles by which requests are let in.  A    *)
(* call is let in by the guard, with the role the cache or the database    *)
(* says; it then reads what it needs, decides, and writes later.           *)
(***************************************************************************)
EXTENDS Naturals, FiniteSets

CONSTANTS
    Users, Creator,      \* the creator of the workspace owns it at first
    MemberCalls,         \* API calls that can be in flight
    Absent,              \* no user; no role
    MaxMembers,          \* the plan's maxMembers
    MaxChanges,          \* bound: calls
    MaxFailures          \* bound: calls that die

Roles == {"owner", "admin", "member", "viewer"}

ASSUME MembershipAssumption ==
    /\ Creator \in Users /\ Absent \notin Users \cup Roles
    /\ MaxMembers \in Nat /\ MaxChanges \in Nat /\ MaxFailures \in Nat

Weight(r) == CASE r = "owner" -> 4 [] r = "admin" -> 3 [] r = "member" -> 2 [] r = "viewer" -> 1

VARIABLES
    role,        \* workspace_members, Absent where there is no row
    joined,      \* the id of that row: how often the user has become a member
    owner,       \* workspaces.owner_user_id
    wsVersion,   \* workspaces.version
    wsStatus,    \* workspaces.status
    invited,     \* the role of a user's open invitation
    cached,      \* rbac:{workspace}:{user} in Redis
    step, local, \* API calls: step and locals
    torn,        \* observation: an ownership transfer was not whole
    stale,       \* observation: users whose cache entry was filled too late
    changes, failures

memberVars == <<role, joined, owner, wsVersion, wsStatus, invited, cached, step, local, torn, stale,
                changes, failures>>
workspace == <<owner, wsVersion, wsStatus>>

Steps == {"idle", "load", "fill", "decide", "write", "lockActor", "promote", "commit", "invalidate"}
Operations == {"change", "remove", "transfer", "edit", "switchOff", "invite"}
Locals == [op : Operations, actor : Users, as : Roles \cup {Absent}, target : Users,
           to : Roles, version : Nat, row : Nat, stale : SUBSET Users]

MembershipTypeOK ==
    /\ role \in [Users -> Roles \cup {Absent}] /\ joined \in [Users -> Nat]
    /\ owner \in Users /\ wsVersion \in Nat /\ wsStatus \in {"active", "inactive"}
    /\ invited \in [Users -> Roles \cup {Absent}]
    /\ cached \in [Users -> Roles \cup {Absent}]
    /\ step \in [MemberCalls -> Steps] /\ local \in [MemberCalls -> Locals \cup {Absent}]
    /\ \A k \in MemberCalls : step[k] # "idle" => local[k] \in Locals
    /\ torn \in BOOLEAN /\ stale \subseteq Users
    /\ changes \in 0..MaxChanges /\ failures \in 0..MaxFailures

\* createWorkspace, and members of every kind who have joined since.
MembershipInit ==
    /\ role \in {r \in [Users -> {"owner", "admin", "viewer", Absent}] :
                    \A u \in Users : r[u] = "owner" <=> u = Creator}
    /\ joined = [u \in Users |-> 0]
    /\ owner = Creator /\ wsVersion = 1 /\ wsStatus = "active"
    /\ invited = [u \in Users |-> Absent]
    /\ cached = [u \in Users |-> Absent]
    /\ step = [k \in MemberCalls |-> "idle"] /\ local = [k \in MemberCalls |-> Absent]
    /\ torn = FALSE /\ stale = {} /\ changes = 0 /\ failures = 0

-----------------------------------------------------------------------------
Members == {u \in Users : role[u] # Absent}
Owns(u) == role[u] = "owner"

GoOn(k, s) == step' = [step EXCEPT ![k] = s]
Answer(k)  == /\ step' = [step EXCEPT ![k] = "idle"]
              /\ local' = [local EXCEPT ![k] = Absent]

\* findMembershipTx locks the row of a member and, being a join, that of the
\* member's role: the target's, then the actor's, until the transaction ends.
HeldRows(k)  == {u \in Users : \/ /\ step[k] \in {"lockActor", "promote", "commit"}
                                  /\ u = local[k].target
                               \/ step[k] \in {"promote", "commit"} /\ u = local[k].actor}
HeldRoles(k) == {role[u] : u \in HeldRows(k)}

RowLocked(u)  == \E k \in MemberCalls : u \in HeldRows(k)
RoleLocked(r) == \E k \in MemberCalls : r \in HeldRoles(k)

\* A transfer waits for the two rows it wants next; the demotion of the actor
\* for the row of the role, which the foreign key locks.
WantsMember(k, u) == \/ step[k] = "write" /\ local[k].op = "transfer" /\ u = local[k].target
                     \/ step[k] = "lockActor" /\ u = local[k].actor
WaitsFor(k, m) ==
    /\ k # m
    /\ \/ \E u \in Users : WantsMember(k, u) /\ (u \in HeldRows(m) \/ role[u] \in HeldRoles(m))
       \/ step[k] = "promote" /\ "admin" \in HeldRoles(m)
MayGoOn(k) == \A m \in MemberCalls : ~WaitsFor(k, m)

-----------------------------------------------------------------------------
(* The guard: getMembershipContext.                                         *)

\* A request of any kind; what it asks for is decided once it is let in.
Ask(k) ==
    /\ step[k] = "idle" /\ changes < MaxChanges /\ changes' = changes + 1
    /\ \E op \in Operations, u, t \in Users, r \in Roles \ {"owner"} :
          /\ op \in {"transfer", "edit", "switchOff"} => r = "viewer"
          /\ op \in {"edit", "switchOff"} => t = u
          /\ op \in {"change", "remove", "transfer", "invite"} => t # u
          /\ op = "remove" => r = "viewer"
          /\ local' = [local EXCEPT ![k] = [op |-> op, actor |-> u, as |-> cached[u],
                          target |-> t, to |-> r, version |-> 0, row |-> 0, stale |-> {}]]
          /\ GoOn(k, IF cached[u] = Absent THEN "load" ELSE "decide")
    /\ UNCHANGED <<role, joined, workspace, invited, cached, torn, stale, failures>>

LoadRole(k) ==
    /\ step[k] = "load"
    /\ LET r == role[local[k].actor] IN
       IF r = Absent THEN Answer(k)
       ELSE GoOn(k, "fill") /\ local' = [local EXCEPT ![k].as = r]
    /\ UNCHANGED <<role, joined, workspace, invited, cached, torn, stale, changes, failures>>

\* What was read is stored, and may be stale by then.
FillCache(k) ==
    /\ step[k] = "fill" /\ GoOn(k, "decide")
    /\ LET u == local[k].actor IN
       /\ cached' = [cached EXCEPT ![u] = local[k].as]
       /\ stale' = IF local[k].as = role[u] THEN stale ELSE stale \cup {u}
    /\ UNCHANGED <<role, joined, workspace, invited, local, torn, changes, failures>>

CacheExpires(u) ==
    /\ cached[u] # Absent
    /\ cached' = [cached EXCEPT ![u] = Absent] /\ stale' = stale \ {u}
    /\ UNCHANGED <<role, joined, workspace, invited, step, local, torn, changes, failures>>

-----------------------------------------------------------------------------
(* What each call reads, and the checks it makes on that.                   *)

MayManage(as) == as \in {"owner", "admin"}       \* workspace.members.write
Outranks(as, r) == Weight(as) > Weight(r)

ChangeChecks(c, current) ==
    /\ MayManage(c.as) /\ current # Absent /\ current # "owner"
    /\ Outranks(c.as, current) /\ Outranks(c.as, c.to)

RemoveChecks(c, current) ==
    /\ MayManage(c.as) /\ current # Absent /\ Outranks(c.as, current)
    /\ current = "owner" => \E u \in Users \ {c.target} : role[u] = "owner"

TransferChecks(c) == c.as = "owner" /\ wsStatus = "active" /\ owner = c.actor

InviteChecks(c) ==
    /\ MayManage(c.as) /\ Outranks(c.as, c.to) /\ Cardinality(Members) < MaxMembers

Allowed(c) ==
    CASE c.op = "change"    -> ChangeChecks(c, role[c.target])
      [] c.op = "remove"    -> RemoveChecks(c, role[c.target])
      [] c.op = "transfer"  -> TransferChecks(c)
      [] c.op = "edit"      -> c.as \in {"owner", "admin"} /\ wsStatus = "active"
      [] c.op = "switchOff" -> c.as = "owner" \/ (c.as = "admin" /\ wsStatus = "inactive")
      [] c.op = "invite"    -> InviteChecks(c)

Decide(k) ==
    /\ step[k] = "decide"
    /\ IF Allowed(local[k])
       THEN /\ GoOn(k, "write")
            /\ local' = [local EXCEPT ![k].version = wsVersion, ![k].row = joined[local[k].target]]
       ELSE Answer(k)
    /\ UNCHANGED <<role, joined, workspace, invited, cached, torn, stale, changes, failures>>

-----------------------------------------------------------------------------
(* The writes.  torn remembers where the owner's role was taken away.       *)

WithOp(k, op) == step[k] = "write" /\ local[k].op = op

\* The row that was looked at, if it is still there; its role may be another.
RowIsThere(c) == role[c.target] # Absent /\ joined[c.target] = c.row

ChangeRole(k) ==
    /\ WithOp(k, "change") /\ GoOn(k, "invalidate")
    /\ ~RowLocked(local[k].target) /\ ~RoleLocked(local[k].to)
    /\ LET c == local[k] IN
       /\ role' = IF RowIsThere(c) THEN [role EXCEPT ![c.target] = c.to] ELSE role
       /\ torn' = (torn \/ (RowIsThere(c) /\ Owns(c.target)))
       /\ local' = [local EXCEPT ![k].stale = {c.target}]
    /\ UNCHANGED <<joined, workspace, invited, cached, stale, changes, failures>>

\* Faulty variant: the removed member's role stays in the cache.
Remove_Forgetful(k) ==
    /\ WithOp(k, "remove") /\ ~RowLocked(local[k].target) /\ Answer(k)
    /\ role' = [role EXCEPT ![local[k].target] = Absent]
    /\ torn' = (torn \/ Owns(local[k].target))
    /\ UNCHANGED <<joined, workspace, invited, cached, stale, changes, failures>>

Remove(k) ==
    /\ WithOp(k, "remove") /\ ~RowLocked(local[k].target) /\ GoOn(k, "invalidate")
    /\ LET c == local[k] IN
       /\ role' = IF RowIsThere(c) THEN [role EXCEPT ![c.target] = Absent] ELSE role
       /\ torn' = (torn \/ (RowIsThere(c) /\ Owns(c.target)))
       /\ local' = [local EXCEPT ![k].stale = {c.target}]
    /\ UNCHANGED <<joined, workspace, invited, cached, stale, changes, failures>>

LockTarget(k) ==
    /\ WithOp(k, "transfer") /\ MayGoOn(k)
    /\ IF role[local[k].target] = Absent THEN Answer(k) ELSE GoOn(k, "lockActor") /\ UNCHANGED local
    /\ UNCHANGED <<role, joined, workspace, invited, cached, torn, stale, changes, failures>>

LockActor(k) ==
    /\ step[k] = "lockActor" /\ MayGoOn(k)
    /\ IF Owns(local[k].actor) THEN GoOn(k, "promote") /\ UNCHANGED local ELSE Answer(k)
    /\ UNCHANGED <<role, joined, workspace, invited, cached, torn, stale, changes, failures>>

\* PostgreSQL aborts one of the transactions that wait for each other.
DeadlockAborted(k) ==
    /\ \E m \in MemberCalls : WaitsFor(k, m) /\ WaitsFor(m, k)
    /\ Answer(k)
    /\ UNCHANGED <<role, joined, workspace, invited, cached, torn, stale, changes, failures>>

\* Both roles are written, then the workspace, outside the transaction.
NameOwner(k) ==
    /\ step[k] = "promote" /\ MayGoOn(k) /\ GoOn(k, "commit")
    /\ IF wsVersion = local[k].version
       THEN owner' = local[k].target /\ wsVersion' = wsVersion + 1 /\ UNCHANGED torn
       ELSE torn' = TRUE /\ UNCHANGED <<owner, wsVersion>>
    /\ UNCHANGED <<role, joined, wsStatus, invited, cached, local, stale, changes, failures>>

\* Faulty variant: the new owner is not promoted.
CommitTransfer_DemoteOnly(k) ==
    /\ step[k] = "commit" /\ GoOn(k, "invalidate")
    /\ LET c == local[k] IN
       /\ role' = [role EXCEPT ![c.actor] = "admin"]
       /\ local' = [local EXCEPT ![k].stale = {c.actor, c.target}]
    /\ UNCHANGED <<joined, workspace, invited, cached, torn, stale, changes, failures>>

CommitTransfer(k) ==
    /\ step[k] = "commit" /\ GoOn(k, "invalidate")
    /\ LET c == local[k] IN
       /\ role' = [role EXCEPT ![c.target] = "owner", ![c.actor] = "admin"]
       /\ local' = [local EXCEPT ![k].stale = {c.actor, c.target}]
    /\ UNCHANGED <<joined, workspace, invited, cached, torn, stale, changes, failures>>

\* updateWorkspace with the version its client saw.
EditWorkspace(k) ==
    /\ WithOp(k, "edit") /\ Answer(k)
    /\ wsVersion' = IF wsVersion = local[k].version THEN wsVersion + 1 ELSE wsVersion
    /\ UNCHANGED <<role, joined, owner, wsStatus, invited, cached, torn, stale, changes, failures>>

SwitchedStatus == IF wsStatus = "active" THEN "inactive" ELSE "active"

SwitchStatus(k) ==
    /\ WithOp(k, "switchOff")
    /\ IF wsVersion = local[k].version
       THEN /\ wsVersion' = wsVersion + 1
            /\ wsStatus' = SwitchedStatus
            /\ GoOn(k, "invalidate") /\ UNCHANGED local
       ELSE Answer(k) /\ UNCHANGED <<wsVersion, wsStatus>>
    /\ UNCHANGED <<role, joined, owner, invited, cached, torn, stale, changes, failures>>

\* A member cannot be invited; an open invitation is replaced.
Invite(k) ==
    /\ WithOp(k, "invite") /\ Answer(k)
    /\ invited' = IF local[k].target \in Members THEN invited
                  ELSE [invited EXCEPT ![local[k].target] = local[k].to]
    /\ UNCHANGED <<role, joined, workspace, cached, torn, stale, changes, failures>>

\* rbac.invalidate for each member concerned, or for all there are.
Concerned(c) == IF c.op = "switchOff" THEN Members ELSE c.stale

Invalidate(k) ==
    /\ step[k] = "invalidate" /\ Answer(k)
    /\ cached' = [u \in Users |-> IF u \in Concerned(local[k]) THEN Absent ELSE cached[u]]
    /\ stale' = stale \ Concerned(local[k])
    /\ UNCHANGED <<role, joined, workspace, invited, torn, changes, failures>>

\* The invitation's row is locked; whoever is a member already keeps the role.
\* Nobody who is not a member is in the cache.
AcceptInvite(u) ==
    /\ invited[u] # Absent
    /\ IF role[u] = Absent
       THEN /\ ~RoleLocked(invited[u])
            /\ role' = [role EXCEPT ![u] = invited[u]] /\ joined' = [joined EXCEPT ![u] = @ + 1]
       ELSE UNCHANGED <<role, joined>>
    /\ invited' = [invited EXCEPT ![u] = Absent]
    /\ cached' = [cached EXCEPT ![u] = Absent] /\ stale' = stale \ {u}
    /\ UNCHANGED <<workspace, step, local, torn, changes, failures>>

\* The call dies.  Its transaction is rolled back, the workspace's row is not.
CrashMember(k) ==
    /\ step[k] # "idle" /\ failures < MaxFailures /\ failures' = failures + 1
    /\ Answer(k)
    /\ torn' = (torn \/ step[k] = "commit")
    /\ stale' = IF step[k] = "invalidate" THEN stale \cup local[k].stale ELSE stale
    /\ UNCHANGED <<role, joined, workspace, invited, cached, changes>>

-----------------------------------------------------------------------------
MemberStep(k) ==
    \/ LoadRole(k) \/ FillCache(k) \/ Decide(k) \/ ChangeRole(k) \/ Remove(k)
    \/ LockTarget(k) \/ LockActor(k) \/ DeadlockAborted(k) \/ NameOwner(k) \/ CommitTransfer(k)
    \/ EditWorkspace(k) \/ SwitchStatus(k) \/ Invite(k) \/ Invalidate(k)

MemberTime == \E u \in Users : AcceptInvite(u) \/ CacheExpires(u)

MembershipNext ==
    \/ \E k \in MemberCalls : Ask(k) \/ MemberStep(k) \/ CrashMember(k)
    \/ MemberTime

MembershipFairness == \A k \in MemberCalls : WF_memberVars(MemberStep(k))
MembershipSpec == MembershipInit /\ [][MembershipNext]_memberVars /\ MembershipFairness

-----------------------------------------------------------------------------
(* Properties that hold.                                                    *)

\* The workspace names the member who has the owner's role, except while a
\* transfer is between its two commits, and except where one was torn: its
\* version check lost, the call died, or the new owner's role was changed by a
\* call that had looked before.
OwnerIsNamed ==
    ~torn => \/ Owns(owner)
             \/ \E k \in MemberCalls : step[k] = "commit" /\ Owns(local[k].actor)
                                       /\ local[k].target = owner

\* The role a request is let in with is the one the member has, but for entries
\* about to be deleted, and those stored by a guard that had read before the
\* change or left by a call that died.
CacheIsCurrent ==
    \A u \in Users : cached[u] \in {Absent, role[u]} \/ u \in stale
        \/ \E k \in MemberCalls : step[k] = "invalidate" /\ u \in local[k].stale
=============================================================================
