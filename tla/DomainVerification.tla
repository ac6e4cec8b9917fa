------------------------- MODULE DomainVerification -------------------------
(***************************************************************************)
(* One sending domain of one workspace: the API calls that register it,    *)
(* ask for its verification and delete it, the worker that polls SES, and  *)
(* the sweeper that expires verifications nobody completed.  The domain    *)
(* may be registered again after a deletion; every registration is a row   *)
(* with a DKIM key of its own, while SES knows one identity per name.      *)
(***************************************************************************)
EXTENDS Naturals, FiniteSets

CONSTANTS
    Regs,            \* registrations of the domain
    Calls,           \* API calls, each a creation, a verification or a deletion
    Workers,         \* delivery slots of the poll consumer
    Nothing,         \* "no row", "no message"
    MaxDisturbances  \* bound: crashes, lost calls, lapses of the SES identity

ASSUME ConstantsAssumption ==
    /\ Nothing \notin Regs \cup Calls
    /\ MaxDisturbances \in Nat

VARIABLES
    domain,          \* PostgreSQL: the domains table
    identity,        \* SES: the row whose key the identity carries, DKIM status
    dns,             \* rows whose DKIM record is published
    poll,            \* JetStream: the poll message a call published, about crow
    cpc, crow, cver, \* API calls: step, row, version read
    wpc, job,        \* delivery slots: step, message in hand
    stale,           \* the sweeper's batch
    \* observation
    asked,           \* rows whose verification was requested
    proven,          \* rows whose own key SES confirmed
    late,            \* rows inserted while an older call could still touch SES
    lost,            \* a poll was never published, or delivered twice at once
    disturbances

api     == <<cpc, crow, cver>>
slots   == <<wpc, job>>
history == <<asked, proven, late, lost>>
vars    == <<domain, identity, dns, poll, cpc, crow, cver, wpc, job, stale,
             asked, proven, late, lost, disturbances>>

\* "absent" and "removed" are rows the table does not hold (yet, or any more).
DomainStatus == {"absent", "pending", "verifying", "verified", "failed", "deleting",
                 "deleted", "removed"}

\* key: the DKIM selector is stored; aged: verification started over 30 days ago.
DomainRows == [status : DomainStatus, version : Nat, key : BOOLEAN, aged : BOOLEAN]
CallSteps  == {"new", "insert", "clear", "create", "persist", "rollback", "undo",
               "requeue", "publish", "mark", "remove", "tombstone", "done"}
WorkSteps  == {"idle", "status", "check", "verified", "pending", "failed", "ack", "nak"}

TypeOK ==
    /\ domain \in [Regs -> DomainRows]
    /\ identity \in [owner : Regs \cup {Nothing}, dkim : {"pending", "success", "failed"}]
    /\ dns \subseteq Regs
    /\ poll \in [Calls -> {"none", "ready", "out", "gone"}]
    /\ cpc \in [Calls -> CallSteps]
    /\ crow \in [Calls -> Regs \cup {Nothing}] /\ cver \in [Calls -> Nat]
    /\ wpc \in [Workers -> WorkSteps] /\ job \in [Workers -> Calls \cup {Nothing}]
    /\ stale \subseteq Regs
    /\ asked \subseteq Regs /\ proven \subseteq Regs /\ late \subseteq Regs
    /\ lost \in BOOLEAN /\ disturbances \in 0..MaxDisturbances

NoIdentity == [owner |-> Nothing, dkim |-> "pending"]

AbsentRow     == [status |-> "absent", version |-> 0, key |-> FALSE, aged |-> FALSE]
RegisteredRow == [status |-> "verifying", version |-> 2, key |-> TRUE, aged |-> FALSE]

DeletedRow    == [RegisteredRow EXCEPT !.status = "deleted", !.version = 4]

\* The domain is new, is registered, or was registered and deleted while SES
\* failed to drop its verified identity.
Init ==
    /\ \/ /\ domain = [r \in Regs |-> AbsentRow]
          /\ identity = NoIdentity /\ dns = {}
       \/ \E old \in Regs :
             /\ domain = [r \in Regs |-> IF r = old THEN RegisteredRow ELSE AbsentRow]
             /\ identity = [owner |-> old, dkim |-> "pending"] /\ dns = {}
       \/ \E old \in Regs :
             /\ domain = [r \in Regs |-> IF r = old THEN DeletedRow ELSE AbsentRow]
             /\ identity = [owner |-> old, dkim |-> "success"] /\ dns = {old}
    /\ proven = dns
    /\ poll = [c \in Calls |-> "none"]
    /\ cpc = [c \in Calls |-> "new"]
    /\ crow = [c \in Calls |-> Nothing] /\ cver = [c \in Calls |-> 0]
    /\ wpc = [w \in Workers |-> "idle"] /\ job = [w \in Workers |-> Nothing]
    /\ stale = {} /\ asked = {} /\ late = {} /\ lost = FALSE
    /\ disturbances = 0

-----------------------------------------------------------------------------
Disturb == /\ disturbances < MaxDisturbances
           /\ disturbances' = disturbances + 1
Undisturbed == UNCHANGED disturbances

Status(r) == domain[r].status
InTable(r) == Status(r) \notin {"absent", "removed"}
Active(r) == InTable(r) /\ Status(r) # "deleted"   \* deleted_at IS NULL

Goes(c, step) == cpc' = [cpc EXCEPT ![c] = step]
On(c, r, step) == /\ Goes(c, step)
                  /\ crow' = [crow EXCEPT ![c] = r]
                  /\ cver' = [cver EXCEPT ![c] = domain[r].version]

\* updateWithVersion: every write of the API bumps the version.
VersionMatches(c) == InTable(crow[c]) /\ domain[crow[c]].version = cver[c]

Write(c, r) == /\ domain' = [domain EXCEPT ![crow[c]] = [r EXCEPT !.version = @ + 1]]
               /\ cver' = [cver EXCEPT ![c] = domain[crow[c]].version + 1]

(* createDomain.                                                            *)

CreateCheck(c) ==
    /\ cpc[c] = "new"
    /\ Goes(c, IF \E r \in Regs : Active(r) THEN "done" ELSE "insert")
    /\ UNCHANGED <<domain, identity, dns, poll, crow, cver, slots, stale, history, disturbances>>

\* The unique index covers the rows that are not deleted.
Duplicate == \E r \in Regs : Active(r)

\* Calls that may still change what SES knows under the domain's name.
HoldsName(c) == cpc[c] \in {"clear", "create", "rollback", "undo", "remove"}

InsertRow(c, r) ==
    /\ cpc[c] = "insert" /\ Status(r) = "absent" /\ ~Duplicate
    /\ domain' = [domain EXCEPT ![r].status = "pending", ![r].version = 1]
    /\ Goes(c, "clear")
    /\ crow' = [crow EXCEPT ![c] = r] /\ cver' = [cver EXCEPT ![c] = 1]
    /\ late' = IF \E d \in Calls : HoldsName(d) THEN late \cup {r} ELSE late
    /\ UNCHANGED <<identity, dns, poll, slots, stale, asked, proven, lost, disturbances>>

InsertConflict(c) ==
    /\ cpc[c] = "insert" /\ Duplicate
    /\ Goes(c, "done")
    /\ UNCHANGED <<domain, identity, dns, poll, crow, cver, slots, stale, history, disturbances>>

\* Faulty variant: an identity that already exists is kept.
ClearIdentity_Keep(c) ==
    /\ cpc[c] = "clear"
    /\ Goes(c, IF identity.owner = Nothing THEN "create" ELSE "persist")
    /\ UNCHANGED <<domain, identity, dns, poll, crow, cver, slots, stale, history, disturbances>>

\* getIdentity, and deleteIdentity if there is one.
ClearIdentity(c) ==
    /\ cpc[c] = "clear"
    /\ \/ Undisturbed /\ identity' = NoIdentity /\ Goes(c, "create")
       \/ Disturb /\ identity' \in {identity, NoIdentity} /\ Goes(c, "rollback")
    /\ UNCHANGED <<domain, dns, poll, crow, cver, slots, stale, history>>

\* createDomainIdentityByoDkim with a fresh key.
CreateIdentity(c) ==
    /\ cpc[c] = "create"
    /\ LET fresh == [owner |-> crow[c], dkim |-> "pending"] IN
       \/ /\ Undisturbed /\ identity.owner = Nothing
          /\ identity' = fresh /\ Goes(c, "persist")
       \/ /\ Undisturbed /\ identity.owner # Nothing
          /\ Goes(c, "rollback") /\ UNCHANGED identity
       \/ Disturb /\ identity' \in {identity, fresh} /\ Goes(c, "rollback")
    /\ UNCHANGED <<domain, dns, poll, crow, cver, slots, stale, history>>

\* The row is removed, whatever its status became.
Rollback(c) ==
    /\ cpc[c] = "rollback"
    /\ domain' = [domain EXCEPT ![crow[c]].status = "removed"]
    /\ Goes(c, "undo")
    /\ UNCHANGED <<identity, dns, poll, crow, cver, slots, stale, history, disturbances>>

\* A deletion of the identity the answer does not wait for.
UndoIdentity(c) ==
    /\ cpc[c] = "undo"
    /\ \/ Undisturbed /\ identity' = NoIdentity
       \/ Disturb /\ UNCHANGED identity
    /\ Goes(c, "done")
    /\ UNCHANGED <<domain, dns, poll, crow, cver, slots, stale, history>>

PersistKey(c) ==
    /\ cpc[c] = "persist"
    /\ Goes(c, "done")
    /\ IF VersionMatches(c)
       THEN Write(c, [domain[crow[c]] EXCEPT !.status = "verifying", !.key = TRUE])
       ELSE UNCHANGED <<domain, cver>>
    /\ UNCHANGED <<identity, dns, poll, crow, slots, stale, history, disturbances>>

(* requeueVerification.                                                     *)

VerifyRead(c, r) ==
    /\ cpc[c] = "new" /\ Active(r) /\ Status(r) \notin {"deleting", "verified"}
    /\ On(c, r, "requeue")
    /\ UNCHANGED <<domain, identity, dns, poll, slots, stale, history, disturbances>>

Requeue(c) ==
    /\ cpc[c] = "requeue"
    /\ IF VersionMatches(c)
       THEN /\ Write(c, [domain[crow[c]] EXCEPT !.status = "verifying", !.aged = FALSE])
            /\ Goes(c, "publish")
            /\ asked' = asked \cup {crow[c]}
       ELSE Goes(c, "done") /\ UNCHANGED <<domain, cver, asked>>
    /\ UNCHANGED <<identity, dns, poll, crow, slots, stale, proven, late, lost, disturbances>>

\* The publish is not awaited; its failure is only logged.
PublishPoll(c) ==
    /\ cpc[c] = "publish"
    /\ \/ Undisturbed /\ poll' = [poll EXCEPT ![c] = "ready"] /\ UNCHANGED lost
       \/ Disturb /\ lost' = TRUE /\ UNCHANGED poll
    /\ Goes(c, "done")
    /\ UNCHANGED <<domain, identity, dns, crow, cver, slots, stale, asked, proven, late>>

(* deleteDomain.                                                            *)

DeleteRead(c, r) ==
    /\ cpc[c] = "new" /\ Active(r)
    /\ On(c, r, "mark")
    /\ UNCHANGED <<domain, identity, dns, poll, slots, stale, history, disturbances>>

MarkDeleting(c) ==
    /\ cpc[c] = "mark"
    /\ IF VersionMatches(c)
       THEN Write(c, [domain[crow[c]] EXCEPT !.status = "deleting"]) /\ Goes(c, "remove")
       ELSE Goes(c, "done") /\ UNCHANGED <<domain, cver>>
    /\ UNCHANGED <<identity, dns, poll, crow, slots, stale, history, disturbances>>

\* deleteIdentity by name; an error does not stop the deletion.
RemoveIdentity(c) ==
    /\ cpc[c] = "remove"
    /\ \/ Undisturbed /\ identity' = NoIdentity
       \/ Disturb /\ UNCHANGED identity
    /\ Goes(c, "tombstone")
    /\ UNCHANGED <<domain, dns, poll, crow, cver, slots, stale, history>>

Tombstone(c) ==
    /\ cpc[c] = "tombstone"
    /\ Goes(c, "done")
    /\ IF VersionMatches(c) /\ Active(crow[c])
       THEN Write(c, [domain[crow[c]] EXCEPT !.status = "deleted"])
       ELSE UNCHANGED <<domain, cver>>
    /\ UNCHANGED <<identity, dns, poll, crow, slots, stale, history, disturbances>>

\* The API process dies; what its calls did so far stays.
CrashCall(c) ==
    /\ cpc[c] \notin {"new", "done"}
    /\ Disturb /\ Goes(c, "done")
    /\ lost' = (lost \/ cpc[c] = "publish")
    /\ UNCHANGED <<domain, identity, dns, poll, crow, cver, slots, stale, asked, proven, late>>

-----------------------------------------------------------------------------
(* The poll worker (Handler.Handle).                                        *)

Subject(w) == crow[job[w]]

Steps(w, step) == wpc' = [wpc EXCEPT ![w] = step] /\ UNCHANGED job
Returns(w, st) == /\ poll' = [poll EXCEPT ![job[w]] = IF @ = "out" THEN st ELSE @]
                  /\ wpc' = [wpc EXCEPT ![w] = "idle"]
                  /\ job' = [job EXCEPT ![w] = Nothing]

Receive(w, m) ==
    /\ wpc[w] = "idle" /\ poll[m] = "ready"
    /\ poll' = [poll EXCEPT ![m] = "out"]
    /\ wpc' = [wpc EXCEPT ![w] = "status"] /\ job' = [job EXCEPT ![w] = m]
    /\ UNCHANGED <<domain, identity, dns, api, stale, history, disturbances>>

\* Faulty variant: a failed read ends the polling too.
CheckStatus_Drop(w) ==
    /\ wpc[w] = "status"
    /\ \/ Undisturbed /\ Steps(w, "check") /\ UNCHANGED poll
       \/ Disturb /\ Returns(w, "gone")
    /\ UNCHANGED <<domain, identity, dns, api, stale, history>>

\* A domain that is deleted, being deleted or gone ends the polling.
CheckStatus(w) ==
    /\ wpc[w] = "status"
    /\ \/ /\ Undisturbed /\ Active(Subject(w)) /\ Status(Subject(w)) # "deleting"
          /\ Steps(w, "check") /\ UNCHANGED poll
       \/ /\ Undisturbed /\ ~(Active(Subject(w)) /\ Status(Subject(w)) # "deleting")
          /\ Returns(w, "gone")
       \/ Disturb /\ Returns(w, "ready")
    /\ UNCHANGED <<domain, identity, dns, api, stale, history>>

\* CheckDomainVerification asks SES by name; an unknown identity is an error.
CheckIdentity(w) ==
    /\ wpc[w] = "check"
    /\ \/ /\ Undisturbed /\ identity.owner # Nothing
          /\ Steps(w, IF identity.dkim = "success" THEN "verified" ELSE identity.dkim)
          /\ UNCHANGED poll
       \/ Undisturbed /\ identity.owner = Nothing /\ Returns(w, "ready")
       \/ Disturb /\ Returns(w, "ready")
    /\ UNCHANGED <<domain, identity, dns, api, stale, history>>

\* deleted_at IS NULL AND status NOT IN ('deleting', 'deleted')
Updatable(r) == Active(r) /\ Status(r) # "deleting"

\* The three updates of the worker, none of which bumps the version.
UpdateDomain(w, to, next) ==
    /\ wpc[w] = to
    /\ \/ /\ Undisturbed
          /\ domain' = [domain EXCEPT ![Subject(w)].status = IF Updatable(Subject(w)) THEN to ELSE @]
          /\ Steps(w, next) /\ UNCHANGED poll
       \/ Disturb /\ Returns(w, "ready") /\ UNCHANGED domain
    /\ UNCHANGED <<identity, dns, api, stale, history>>

UpdateDomainVerified(w) == UpdateDomain(w, "verified", "ack")

\* Faulty variant: a domain that is still pending ends the polling.
UpdateDomainPending_Ack(w) == UpdateDomain(w, "pending", "ack")

UpdateDomainPending(w)  == UpdateDomain(w, "pending", "nak")
UpdateDomainFailed(w)   == UpdateDomain(w, "failed", "ack")

Settle(w) ==
    /\ wpc[w] \in {"ack", "nak"}
    /\ Returns(w, IF wpc[w] = "ack" THEN "gone" ELSE "ready")
    /\ UNCHANGED <<domain, identity, dns, api, stale, history, disturbances>>

CrashWorker(w) ==
    /\ wpc[w] # "idle"
    /\ Disturb
    /\ wpc' = [wpc EXCEPT ![w] = "idle"] /\ job' = [job EXCEPT ![w] = Nothing]
    /\ UNCHANGED <<domain, identity, dns, poll, api, stale, history>>

InHand(m) == \E w \in Workers : job[w] = m

ExpireAckWait(m) ==
    /\ poll[m] = "out"
    /\ poll' = [poll EXCEPT ![m] = "ready"]
    /\ IF InHand(m) THEN Disturb /\ lost' = TRUE ELSE Undisturbed /\ UNCHANGED lost
    /\ UNCHANGED <<domain, identity, dns, api, slots, stale, asked, proven, late>>

-----------------------------------------------------------------------------
(* The sweeper (DomainCleanupScheduler.sweep).                              *)

Expirable(r) == Status(r) \in {"pending", "verifying"}

GetStale ==
    /\ stale = {}
    /\ stale' = {r \in Regs : Expirable(r) /\ domain[r].aged} /\ stale' # {}
    /\ UNCHANGED <<domain, identity, dns, poll, api, slots, history, disturbances>>

\* The status is tested again by the update, the age is not.
MarkExpired(r) ==
    /\ r \in stale /\ stale' = stale \ {r}
    /\ \/ /\ Undisturbed
          /\ domain' = [domain EXCEPT ![r].status = IF Expirable(r) THEN "failed" ELSE @]
       \/ Disturb /\ UNCHANGED domain
    /\ UNCHANGED <<identity, dns, poll, api, slots, history>>

-----------------------------------------------------------------------------
(* The environment: the user's DNS, SES and time.                           *)

\* The record shown for a row is the one with its stored selector.
PublishDns(r) ==
    /\ Active(r) /\ domain[r].key /\ r \notin dns
    /\ dns' = dns \cup {r}
    /\ UNCHANGED <<domain, identity, poll, api, slots, stale, history, disturbances>>

\* SES finds the record of the identity's key, or gives up after 72 hours.
SesDecides ==
    /\ identity.owner # Nothing /\ identity.dkim = "pending"
    /\ IF identity.owner \in dns
       THEN /\ identity' = [identity EXCEPT !.dkim = "success"]
            /\ proven' = proven \cup {identity.owner}
       ELSE identity' = [identity EXCEPT !.dkim = "failed"] /\ UNCHANGED proven
    /\ UNCHANGED <<domain, dns, poll, api, slots, stale, asked, late, lost, disturbances>>

\* A temporary failure of a verified identity.
SesLapses ==
    /\ identity.dkim = "success" /\ Disturb
    /\ identity' = [identity EXCEPT !.dkim = "failed"]
    /\ UNCHANGED <<domain, dns, poll, api, slots, stale, history>>

\* The record is found again.  An identity that failed for good, its record
\* never found, stays failed.
SesRecovers ==
    /\ identity.dkim = "failed" /\ identity.owner \in proven
    /\ identity' = [identity EXCEPT !.dkim = "success"]
    /\ UNCHANGED <<domain, dns, poll, api, slots, stale, history, disturbances>>

Age(r) ==
    /\ Active(r) /\ ~domain[r].aged
    /\ domain' = [domain EXCEPT ![r].aged = TRUE]
    /\ UNCHANGED <<identity, dns, poll, api, slots, stale, history, disturbances>>

-----------------------------------------------------------------------------
Continue(c) ==
    \/ \E r \in Regs : InsertRow(c, r)
    \/ InsertConflict(c) \/ ClearIdentity(c) \/ CreateIdentity(c) \/ Rollback(c)
    \/ UndoIdentity(c) \/ PersistKey(c) \/ Requeue(c) \/ PublishPoll(c)
    \/ MarkDeleting(c) \/ RemoveIdentity(c) \/ Tombstone(c)

Handle(w) ==
    \/ \E m \in Calls : Receive(w, m)
    \/ CheckStatus(w) \/ CheckIdentity(w) \/ UpdateDomainVerified(w)
    \/ UpdateDomainPending(w) \/ UpdateDomainFailed(w) \/ Settle(w)

Next ==
    \/ \E c \in Calls : CreateCheck(c) \/ Continue(c) \/ CrashCall(c)
    \/ \E c \in Calls, r \in Regs : VerifyRead(c, r) \/ DeleteRead(c, r)
    \/ \E w \in Workers : Handle(w) \/ CrashWorker(w)
    \/ \E m \in Calls : ExpireAckWait(m)
    \/ GetStale \/ \E r \in Regs : MarkExpired(r) \/ PublishDns(r) \/ Age(r)
    \/ SesDecides \/ SesLapses \/ SesRecovers

Spec == Init /\ [][Next]_vars

Fairness ==
    /\ \A c \in Calls : WF_vars(Continue(c))
    /\ \A w \in Workers : WF_vars(Handle(w))
    /\ \A m \in Calls : WF_vars(~InHand(m) /\ ExpireAckWait(m))
    /\ WF_vars(GetStale) /\ WF_vars(\E r \in Regs : MarkExpired(r))
    /\ WF_vars(SesDecides)

FairSpec == Spec /\ Fairness

-----------------------------------------------------------------------------
(* Properties that hold.                                                    *)

\* A registration with a stored key is verified only by its own DNS record,
\* never by what an earlier registration of the domain left at SES or in DNS.
VerifiedIsProven ==
    \A r \in Regs : Status(r) = "verified" /\ domain[r].key => r \in proven

\* As long as no publish was lost and no poll was in two hands, a requested
\* verification without a result is being polled: no race of polls, requests,
\* deletions and sweeps, and no crash of a worker, drops the last poll.
PendingIsPolled ==
    ~lost => \A r \in asked :
        Status(r) \in {"pending", "verifying"} =>
            \E c \in Calls : crow[c] = r /\ (cpc[c] = "publish" \/ poll[c] \in {"ready", "out"})

\* An open verification that must end: as long as nothing was disturbed, one that
\* was asked for (with a key of its own that no older call can take from SES);
\* whatever was lost or died, one with no request for thirty days.
MustEnd(r) ==
    /\ Expirable(r)
    /\ domain[r].aged \/ (disturbances = 0 /\ r \in asked /\ domain[r].key /\ r \notin late)

\* No verification is left open.  Undisturbed, the polls settle on a result once
\* SES decided; otherwise the sweeper ends it after thirty days.  A late poll or
\* request may take a verified or expired domain back to "pending" or "verifying"
\* (none of the worker's updates bumps the version the API compares), but not for
\* good.
VerificationEnds == \A r \in Regs : <>[]~MustEnd(r)
=============================================================================
