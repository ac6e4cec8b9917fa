---------------------------- MODULE CampaignRow ----------------------------
(***************************************************************************)
(* One row of the campaigns table and the conditional UPDATE statements    *)
(* the Go workers run on it.  Every operator maps the row to the row after *)
(* one statement; a statement whose WHERE clause does not match leaves the *)
(* row alone, exactly as an UPDATE that affects no row.  Timestamps are    *)
(* abstracted to whether they are set.                                     *)
(***************************************************************************)
EXTENDS Naturals

\* The statuses either side writes: the API's vocabulary and the workers'.
CampaignStatus == {"draft", "scheduled", "queued", "sending", "paused",
                   "sent", "completed", "failed", "cancelled"}

CampaignRows == [status           : CampaignStatus,
                 total_recipients : Nat,
                 sent_count       : Nat,
                 failed_count     : Nat,
                 started_at       : BOOLEAN,
                 completed_at     : BOOLEAN,
                 deleted_at       : BOOLEAN]

\* A campaign that has never been streamed, in the given status.
FreshCampaign(status, started) ==
    [status |-> status, total_recipients |-> 0, sent_count |-> 0,
     failed_count |-> 0, started_at |-> started, completed_at |-> FALSE,
     deleted_at |-> FALSE]

\* Faulty variant: no condition on the current status.
UpdateCampaignStarted_AnyStatus(row, total) ==
    [row EXCEPT !.status = "sending", !.total_recipients = total, !.started_at = TRUE]

\* queued|sending -> sending; records the audience size of this streaming pass.
UpdateCampaignStarted(row, total) ==
    IF row.status \in {"queued", "sending"}
    THEN [row EXCEPT !.status = "sending", !.total_recipients = total,
                     !.started_at = TRUE]
    ELSE row

\* No WHERE clause on the status: counts accrue whatever the campaign became.
IncrementCampaignCounts(row, sentDelta, failedDelta) ==
    [row EXCEPT !.sent_count = @ + sentDelta, !.failed_count = @ + failedDelta]

\* The handler's own test on the counters the increment returned.
CountsReachedTotal(row) ==
    /\ row.total_recipients > 0
    /\ row.sent_count + row.failed_count >= row.total_recipients

\* The same test again in the WHERE clause, with completed_at IS NULL.
MarkCampaignComplete(row) ==
    IF ~row.completed_at /\ CountsReachedTotal(row)
    THEN [row EXCEPT !.status = "completed", !.completed_at = TRUE]
    ELSE row

\* The segment resolved to nobody.
MarkCampaignCompleteEmpty(row) ==
    IF row.status \notin {"completed", "failed"}
    THEN [row EXCEPT !.status = "completed", !.completed_at = TRUE,
                     !.total_recipients = 0, !.started_at = TRUE]
    ELSE row

\* The scheduler's claim: scheduled and due -> sending, in one statement.
IsDue(row) == row.status = "scheduled" /\ ~row.deleted_at

ClaimDueCampaign(row) ==
    IF IsDue(row) THEN [row EXCEPT !.status = "sending", !.started_at = TRUE]
    ELSE row
=============================================================================
