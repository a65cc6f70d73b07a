------------------------------- MODULE Outbox -------------------------------
(***************************************************************************)
(* The transactional outbox that delivers invitation mails, and the worker *)
(* processes that drain it.                                                *)
(*                                                                         *)
(* An invitation and its one outbox job are inserted together, so both     *)
(* rows are named by the same element of Jobs.  A worker claims a job      *)
(* under a lease, hands the mail to the SMTP server outside any            *)
(* transaction, and then records the outcome, if it still holds the lease. *)
(* Workers crash, leases run out under slow workers, SMTP replies get      *)
(* lost, and administrators, invitees and the retention cleanup change the *)
(* invitation meanwhile.                                                   *)
(*                                                                         *)
(* Each PostgreSQL transaction is one action: its first statement locks    *)
(* the row it decides on.  Deadlocks between these transactions abort one  *)
(* of them, which for a worker is a Crash.                                 *)
(***************************************************************************)
EXTENDS Integers

CONSTANTS
  Jobs,         \* outbox jobs, each with its invitation
  Workers,      \* worker processes
  MaxAttempts,  \* outboxMaximumAttempts
  MaxSlow,      \* bound: leases that run out while their worker still lives
  MaxCrashes    \* bound: worker crashes

ASSUME OutboxAssumption ==
  /\ MaxAttempts \in Nat \ {0}
  /\ MaxSlow \in Nat
  /\ MaxCrashes \in Nat

VARIABLES
  status,          \* outbox_jobs.status, "none" before the insert
  attempts,        \* outbox_jobs.attempts
  lease_token,     \* outbox_jobs.lease_token, NoLease for NULL
  available,       \* available_at <= now()
  stale,           \* locked_at < now() - outboxLockSeconds
  delivery_status, \* invitations.delivery_status
  revoked,         \* invitations.revoked_at IS NOT NULL
  used,            \* invitations.used_at IS NOT NULL
  anonymized,      \* invitations.anonymized_at IS NOT NULL (email is then '')
  age,             \* how far expires_at and used_at lie in the past
  audit,           \* number of audit events of each job and action
  pc,              \* where each worker is in Run
  held,            \* the OutboxJob and Invitation values RunOnce works on
  copies,          \* the attempts whose mail the SMTP server accepted
  lostReplies,     \* history: those of them whose reply never arrived
  reclaimed,       \* history: the attempts whose outdated lease was taken over
  slow, crashes    \* what is used of MaxSlow and MaxCrashes

jobVars        == <<status, attempts, lease_token, available, stale>>
invitationVars == <<delivery_status, revoked, used, anonymized, age>>
mailVars       == <<copies, lostReplies>>
budgets        == <<slow, crashes>>
vars == <<jobVars, invitationVars, audit, pc, held, mailVars, reclaimed, budgets>>

-----------------------------------------------------------------------------
(* A claim stores a UUID nobody has used before.  Claims of one job are    *)
(* told apart by the attempts value they produce, which therefore stands   *)
(* for the token; attempts of a claimed job are never 0.                   *)
NoLease == 0

Statuses == {"none", "pending", "processing", "completed", "dead_letter"}
DeliveryStatuses == {"queued", "retrying", "sent", "failed"}
AuditActions == {"invitation.created", "invitation.accepted",
                 "invitation.revoked", "outbox.dead_letter"}

(* Idle values of held: the zero OutboxJob that ClaimInvitationEmail       *)
(* returns when there is nothing to do.                                    *)
NoJob == [job |-> "no job", attempts |-> 0, recipient |-> FALSE]
Claims == [job : Jobs, attempts : Nat \ {0}, recipient : BOOLEAN]

TypeOK ==
  /\ status \in [Jobs -> Statuses]
  /\ attempts \in [Jobs -> Nat]
  /\ lease_token \in [Jobs -> Nat]
  /\ available \in [Jobs -> BOOLEAN]
  /\ stale \in [Jobs -> BOOLEAN]
  /\ delivery_status \in [Jobs -> DeliveryStatuses]
  /\ revoked \in [Jobs -> BOOLEAN]
  /\ used \in [Jobs -> BOOLEAN]
  /\ anonymized \in [Jobs -> BOOLEAN]
  /\ age \in [Jobs -> {"valid", "expired", "lapsed"}]
  /\ audit \in [Jobs \X AuditActions -> Nat]
  /\ pc \in [Workers -> {"down", "starting", "draining", "sending",
                         "completing", "retrying", "waiting"}]
  /\ held \in [Workers -> Claims \cup {NoJob}]
  /\ copies \in [Jobs -> SUBSET Nat]
  /\ lostReplies \in [Jobs -> SUBSET Nat]
  /\ reclaimed \in [Jobs -> SUBSET Nat]
  /\ slow \in Nat
  /\ crashes \in Nat

Init ==
  /\ status = [j \in Jobs |-> "none"]
  /\ attempts = [j \in Jobs |-> 0]
  /\ lease_token = [j \in Jobs |-> NoLease]
  /\ available = [j \in Jobs |-> FALSE]
  /\ stale = [j \in Jobs |-> FALSE]
  /\ delivery_status = [j \in Jobs |-> "queued"]
  /\ revoked = [j \in Jobs |-> FALSE]
  /\ used = [j \in Jobs |-> FALSE]
  /\ anonymized = [j \in Jobs |-> FALSE]
  /\ age = [j \in Jobs |-> "valid"]
  /\ audit = [e \in Jobs \X AuditActions |-> 0]
  /\ pc = [w \in Workers |-> "down"]
  /\ held = [w \in Workers |-> NoJob]
  /\ copies = [j \in Jobs |-> {}]
  /\ lostReplies = [j \in Jobs |-> {}]
  /\ reclaimed = [j \in Jobs |-> {}]
  /\ slow = 0
  /\ crashes = 0

insertAuditEvent(j, action) ==
  audit' = [audit EXCEPT ![<<j, action>>] = @ + 1]

-----------------------------------------------------------------------------
(* The API server's transactions on the invitation and its job.            *)

CreateInvitation(j) ==
  /\ status[j] = "none"
  /\ status' = [status EXCEPT ![j] = "pending"]
  /\ available' = [available EXCEPT ![j] = TRUE]
  /\ insertAuditEvent(j, "invitation.created")
  /\ UNCHANGED <<attempts, lease_token, stale, invitationVars, pc, held,
                 mailVars, reclaimed, budgets>>

(* Mutant: acceptInvitationTx does not look at revoked_at.                 *)
AcceptableThoughRevoked(j) == ~anonymized[j] /\ ~used[j] /\ age[j] = "valid"

Acceptable(j) == ~anonymized[j] /\ ~used[j] /\ ~revoked[j] /\ age[j] = "valid"

(* The effect of acceptInvitationTx on the invitation; the job is left to  *)
(* the worker.                                                             *)
AcceptInvitation(j) ==
  /\ status[j] # "none"
  /\ Acceptable(j)
  /\ used' = [used EXCEPT ![j] = TRUE]
  /\ insertAuditEvent(j, "invitation.accepted")
  /\ UNCHANGED <<jobVars, delivery_status, revoked, anonymized, age, pc, held,
                 mailVars, reclaimed, budgets>>

(* The columns every update that ends a job's processing sets.             *)
ReleaseLease(j, newStatus) ==
  /\ status' = [status EXCEPT ![j] = newStatus]
  /\ lease_token' = [lease_token EXCEPT ![j] = NoLease]
  /\ stale' = [stale EXCEPT ![j] = FALSE]

(* Mutants: the revocation's UPDATE of outbox_jobs lacks its condition on  *)
(* status, or writes a status of its own.                                  *)
CancelAnyJob(j) == ReleaseLease(j, "dead_letter")
CancelJobAsRevoked(j) ==
  IF status[j] \in {"pending", "processing"}
  THEN ReleaseLease(j, "revoked") ELSE UNCHANGED <<status, lease_token, stale>>

CancelJob(j) ==
  IF status[j] \in {"pending", "processing"}
  THEN ReleaseLease(j, "dead_letter") ELSE UNCHANGED <<status, lease_token, stale>>

RevokeInvitation(j) ==
  /\ status[j] # "none"
  /\ ~used[j] /\ ~revoked[j]
  /\ revoked' = [revoked EXCEPT ![j] = TRUE]
  /\ CancelJob(j)
  /\ insertAuditEvent(j, "invitation.revoked")
  /\ UNCHANGED <<attempts, available, delivery_status, used, anonymized, age,
                 pc, held, mailVars, reclaimed, budgets>>

-----------------------------------------------------------------------------
(* InvitationWorker.Run: an initial cleanup and drain, then a select over  *)
(* the two tickers.  Any error but ErrorLeaseLost ends the process.        *)

StartWorker(w) ==
  /\ pc[w] = "down"
  /\ pc' = [pc EXCEPT ![w] = "starting"]
  /\ UNCHANGED <<jobVars, invitationVars, audit, held, mailVars, reclaimed, budgets>>

(* Mutant: only invitations nobody accepted are cleaned up.                *)
AnonymizeUnusedInvitations ==
  anonymized' = [j \in Jobs |-> \/ anonymized[j]
                                \/ /\ status[j] # "none" /\ age[j] = "lapsed"
                                   /\ ~used[j]]

AnonymizeExpiredInvitations ==
  anonymized' = [j \in Jobs |-> \/ anonymized[j]
                                \/ (status[j] # "none" /\ age[j] = "lapsed")]

CleanupAtStart(w) ==
  /\ pc[w] = "starting"
  /\ AnonymizeExpiredInvitations
  /\ pc' = [pc EXCEPT ![w] = "draining"]
  /\ UNCHANGED <<jobVars, delivery_status, revoked, used, age, audit, held,
                 mailVars, reclaimed, budgets>>

CleanupTick(w) ==
  /\ pc[w] = "waiting"
  /\ AnonymizeExpiredInvitations
  /\ UNCHANGED <<jobVars, delivery_status, revoked, used, age, audit, pc, held,
                 mailVars, reclaimed, budgets>>

PollTick(w) ==
  /\ pc[w] = "waiting"
  /\ pc' = [pc EXCEPT ![w] = "draining"]
  /\ UNCHANGED <<jobVars, invitationVars, audit, held, mailVars, reclaimed, budgets>>

(* Mutant: jobs under an outdated lease are not claimed.                   *)
ClaimablePendingOnly(j) == status[j] = "pending" /\ available[j]

(* The candidates of ClaimInvitationEmail.  Which of them is claimed is    *)
(* left open here; the code takes the one with the least available_at that *)
(* no other transaction has locked.                                        *)
Claimable(j) ==
  \/ (status[j] = "pending" /\ available[j])
  \/ (status[j] = "processing" /\ stale[j])

ClaimInvitationEmail(w, j) ==
  /\ pc[w] = "draining"
  /\ Claimable(j)
  /\ status' = [status EXCEPT ![j] = "processing"]
  /\ attempts' = [attempts EXCEPT ![j] = @ + 1]
  /\ lease_token' = [lease_token EXCEPT ![j] = attempts[j] + 1]
  /\ stale' = [stale EXCEPT ![j] = FALSE]
  /\ held' = [held EXCEPT ![w] = [job |-> j, attempts |-> attempts[j] + 1,
                                  recipient |-> ~anonymized[j]]]
  /\ pc' = [pc EXCEPT ![w] = "sending"]
  /\ reclaimed' = [reclaimed EXCEPT ![j] = IF status[j] = "processing" THEN @ \cup {attempts[j]} ELSE @]
  /\ UNCHANGED <<available, invitationVars, audit, mailVars, budgets>>

(* RunOnce reports that nothing was claimed, which ends drain.  A row that *)
(* SKIP LOCKED passes over is being claimed, settled or revoked by another *)
(* transaction, which is taken to come first.                              *)
DrainEnds(w) ==
  /\ pc[w] = "draining"
  /\ \A j \in Jobs : ~Claimable(j)
  /\ pc' = [pc EXCEPT ![w] = "waiting"]
  /\ UNCHANGED <<jobVars, invitationVars, audit, held, mailVars, reclaimed, budgets>>

-----------------------------------------------------------------------------
(* RunOnce after the claim.  mailer.Send refuses an empty recipient.       *)

(* Mutant: an error of QUIT counts as a failure to send.                   *)
SendAcceptedThenRetried(w) ==
  /\ pc[w] = "sending" /\ held[w].recipient
  /\ copies' = [copies EXCEPT ![held[w].job] = @ \cup {held[w].attempts}]
  /\ pc' = [pc EXCEPT ![w] = "retrying"]
  /\ UNCHANGED <<jobVars, invitationVars, audit, held, lostReplies, reclaimed, budgets>>

SendAccepted(w) ==
  /\ pc[w] = "sending" /\ held[w].recipient
  /\ copies' = [copies EXCEPT ![held[w].job] = @ \cup {held[w].attempts}]
  /\ pc' = [pc EXCEPT ![w] = "completing"]
  /\ UNCHANGED <<jobVars, invitationVars, audit, held, lostReplies, reclaimed, budgets>>

(* The server took the message but its reply to DATA was lost or late.     *)
SendReplyLost(w) ==
  /\ pc[w] = "sending" /\ held[w].recipient
  /\ copies' = [copies EXCEPT ![held[w].job] = @ \cup {held[w].attempts}]
  /\ lostReplies' = [lostReplies EXCEPT ![held[w].job] = @ \cup {held[w].attempts}]
  /\ pc' = [pc EXCEPT ![w] = "retrying"]
  /\ UNCHANGED <<jobVars, invitationVars, audit, held, reclaimed, budgets>>

(* The message could not be composed, or not handed over.                  *)
SendFails(w) ==
  /\ pc[w] = "sending"
  /\ pc' = [pc EXCEPT ![w] = "retrying"]
  /\ UNCHANGED <<jobVars, invitationVars, audit, held, mailVars, reclaimed, budgets>>

(* Mutants: the updates find the job by its status, or by its id alone.    *)
HoldsSomeLease(w) == status[held[w].job] = "processing"
HoldsNoLease(w) == TRUE

(* WHERE id = $1 AND lease_token = $3 AND status = 'processing'            *)
HoldsLease(w) ==
  /\ status[held[w].job] = "processing"
  /\ lease_token[held[w].job] = held[w].attempts

SetDelivery(j, newStatus) ==
  delivery_status' = [delivery_status EXCEPT ![j] = newStatus]

(* RunOnce returns and drain calls it again.                               *)
NextJob(w) ==
  /\ pc' = [pc EXCEPT ![w] = "draining"]
  /\ held' = [held EXCEPT ![w] = NoJob]

AttemptsExhausted(w) == held[w].attempts >= MaxAttempts

Complete(w) ==
  /\ pc[w] = "completing"
  /\ HoldsLease(w)
  /\ ReleaseLease(held[w].job, "completed")
  /\ SetDelivery(held[w].job, "sent")
  /\ NextJob(w)
  /\ UNCHANGED <<attempts, available, revoked, used, anonymized, age, audit,
                 mailVars, reclaimed, budgets>>

Retry(w) ==
  /\ pc[w] = "retrying"
  /\ ~AttemptsExhausted(w)
  /\ HoldsLease(w)
  /\ ReleaseLease(held[w].job, "pending")
  /\ available' = [available EXCEPT ![held[w].job] = FALSE]
  /\ SetDelivery(held[w].job, "retrying")
  /\ NextJob(w)
  /\ UNCHANGED <<attempts, revoked, used, anonymized, age, audit, mailVars,
                 reclaimed, budgets>>

deadLetter(w) ==
  /\ pc[w] = "retrying"
  /\ AttemptsExhausted(w)
  /\ HoldsLease(w)
  /\ ReleaseLease(held[w].job, "dead_letter")
  /\ SetDelivery(held[w].job, "failed")
  /\ insertAuditEvent(held[w].job, "outbox.dead_letter")
  /\ NextJob(w)
  /\ UNCHANGED <<attempts, available, revoked, used, anonymized, age, mailVars,
                 reclaimed, budgets>>

(* Complete, Retry and deadLetter found no row; RunOnce swallows it.       *)
LeaseLost(w) ==
  /\ pc[w] \in {"completing", "retrying"}
  /\ ~HoldsLease(w)
  /\ NextJob(w)
  /\ UNCHANGED <<jobVars, invitationVars, audit, mailVars, reclaimed, budgets>>

(* The process is killed or stopped, or exits on a database error.         *)
Crash(w) ==
  /\ pc[w] # "down"
  /\ crashes < MaxCrashes
  /\ crashes' = crashes + 1
  /\ pc' = [pc EXCEPT ![w] = "down"]
  /\ held' = [held EXCEPT ![w] = NoJob]
  /\ UNCHANGED <<jobVars, invitationVars, audit, mailVars, reclaimed, slow>>

-----------------------------------------------------------------------------
(* Time passes.                                                            *)

BecomeAvailable(j) ==
  /\ status[j] = "pending" /\ ~available[j]
  /\ available' = [available EXCEPT ![j] = TRUE]
  /\ UNCHANGED <<status, attempts, lease_token, stale, invitationVars, audit,
                 pc, held, mailVars, reclaimed, budgets>>

Orphaned(j) ==
  \A w \in Workers : ~(held[w].job = j /\ held[w].attempts = lease_token[j])

(* Nothing bounds a worker's RunOnce by the ten minutes of the lease, so a *)
(* lease may become outdated under a live worker too.                      *)
BecomeStale(j) ==
  /\ status[j] = "processing" /\ ~stale[j]
  /\ \/ Orphaned(j) /\ UNCHANGED slow
     \/ ~Orphaned(j) /\ slow < MaxSlow /\ slow' = slow + 1
  /\ stale' = [stale EXCEPT ![j] = TRUE]
  /\ UNCHANGED <<status, attempts, lease_token, available, invitationVars,
                 audit, pc, held, mailVars, reclaimed, crashes>>

(* A valid invitation expires; one that expired or was used more than      *)
(* invitationRetentionDays ago has lapsed.                                 *)
Age(j) ==
  /\ status[j] # "none"
  /\ \/ age[j] = "valid" /\ age' = [age EXCEPT ![j] = "expired"]
     \/ /\ age[j] = "expired" \/ (age[j] = "valid" /\ used[j])
        /\ age' = [age EXCEPT ![j] = "lapsed"]
  /\ UNCHANGED <<jobVars, delivery_status, revoked, used, anonymized, audit,
                 pc, held, mailVars, reclaimed, budgets>>

-----------------------------------------------------------------------------
(* One pass of Run's loops; the end of drain, the cleanup ticker and       *)
(* crashes aside.                                                          *)
WorkerStep(w) ==
  \/ StartWorker(w) \/ CleanupAtStart(w) \/ PollTick(w)
  \/ (\E j \in Jobs : ClaimInvitationEmail(w, j))
  \/ SendAccepted(w) \/ SendReplyLost(w) \/ SendFails(w)
  \/ Complete(w) \/ Retry(w) \/ deadLetter(w) \/ LeaseLost(w)

Next ==
  \/ \E j \in Jobs :
       \/ CreateInvitation(j) \/ AcceptInvitation(j) \/ RevokeInvitation(j)
       \/ BecomeAvailable(j) \/ BecomeStale(j) \/ Age(j)
  \/ \E w \in Workers :
       WorkerStep(w) \/ DrainEnds(w) \/ CleanupTick(w) \/ Crash(w)

Spec == Init /\ [][Next]_vars

(* Workers are restarted (restart: unless-stopped) and their loops run on; *)
(* time passes.  Drain need not end: while mail of other invitations keeps *)
(* coming it never finds the queue empty; a job that can be claimed is     *)
(* served all the same, as claims go by available_at.  A select with both  *)
(* tickers due picks either, so a worker that comes back to its select     *)
(* again and again serves the cleanup ticker.                              *)
Fairness ==
  /\ \A w \in Workers : WF_vars(WorkerStep(w)) /\ SF_vars(CleanupTick(w))
  /\ \A j \in Jobs : WF_vars(BecomeAvailable(j)) /\ WF_vars(BecomeStale(j))

FairSpec == Spec /\ Fairness
-----------------------------------------------------------------------------
(***************************************************************************)
(* Properties                                                              *)
(***************************************************************************)

Final == {"completed", "dead_letter"}

(* The outbox_processing_lease CHECK of the schema: a job is processing    *)
(* exactly when it carries a lease.  A transaction that broke it would     *)
(* fail, and the job with it.                                              *)
LeaseConstraint ==
  \A j \in Jobs : (status[j] = "processing") <=> (lease_token[j] # NoLease)

(* A job is processing exactly under a lease, and however late the others  *)
(* run, at most one worker can still record an outcome for it: Complete,   *)
(* Retry and deadLetter match the lease.                                   *)
OneHolder ==
  /\ LeaseConstraint
  /\ \A v, w \in Workers :
       /\ pc[v] \in {"sending", "completing", "retrying"} /\ HoldsLease(v)
       /\ pc[w] \in {"sending", "completing", "retrying"} /\ HoldsLease(w)
       /\ held[v].job = held[w].job
       => v = w

(* Job and invitation are updated together: "sent" is shown exactly for    *)
(* completed jobs and only when a mail did leave, "failed" only for a      *)
(* dead-lettered job that used all its attempts, a job is dead-lettered    *)
(* with another delivery status only by a revocation, and a revoked        *)
(* invitation has no live job: a worker that was sending when it was       *)
(* revoked cannot put the job back into the queue.                         *)
DeliveryAgrees ==
  \A j \in Jobs :
    /\ (delivery_status[j] = "sent") <=> (status[j] = "completed")
    /\ delivery_status[j] = "sent" => copies[j] # {}
    /\ delivery_status[j] = "failed" =>
         status[j] = "dead_letter" /\ attempts[j] >= MaxAttempts
    /\ status[j] = "dead_letter" /\ delivery_status[j] # "failed" => revoked[j]
    /\ revoked[j] => status[j] \in Final

(* An attempt whose mail has left is followed by another attempt, and so   *)
(* by a second copy, only if the reply of the SMTP server was lost or the  *)
(* lease ran out before the outcome was recorded.  A job back in the queue *)
(* has an attempt left; attempts do exceed outboxMaximumAttempts, as       *)
(* ClaimInvitationEmail does not look at them, but each time by a claim    *)
(* that took over the outdated lease of the attempt before.                *)
DuplicatesHaveCause ==
  \A j \in Jobs :
    /\ copies[j] \subseteq lostReplies[j] \cup reclaimed[j] \cup {attempts[j]}
    /\ status[j] = "pending" => attempts[j] < MaxAttempts
    /\ \A n \in MaxAttempts .. (attempts[j] - 1) : n \in reclaimed[j]

(* Whatever the interleaving, the audit log holds exactly one event for    *)
(* each thing that happened: two workers never dead-letter the same job,   *)
(* and an invitation is never both accepted and revoked.                   *)
AuditAgrees ==
  \A j \in Jobs :
    /\ audit[<<j, "outbox.dead_letter">>] = IF delivery_status[j] = "failed" THEN 1 ELSE 0
    /\ audit[<<j, "invitation.accepted">>] = IF used[j] THEN 1 ELSE 0
    /\ audit[<<j, "invitation.revoked">>] = IF revoked[j] THEN 1 ELSE 0
    /\ ~(used[j] /\ revoked[j])

(* A job stops being processed only by a revocation or by the worker whose *)
(* claim issued its current lease; a worker that lost the lease changes    *)
(* nothing.                                                                *)
LeaseGuardsOutcome ==
  [][\A j \in Jobs :
       status[j] = "processing" /\ status'[j] # "processing" =>
         \/ ~revoked[j] /\ revoked'[j]
         \/ \E w \in Workers : /\ held[w].job = j
                               /\ held[w].attempts = lease_token[j]
                               /\ held'[w] = NoJob]_vars

(* The cleanup forgets the address of every invitation whose retention     *)
(* period is over, used, revoked or failed as it may be and whatever       *)
(* crashes, provided that some worker gets back to its select again and    *)
(* again.  Without that it may never come: Run looks at the cleanup ticker *)
(* there alone, and drain has no bound.                                    *)
LapsedAreAnonymized ==
  (\E w \in Workers : []<>(pc[w] = "waiting")) =>
    \A j \in Jobs : (age[j] = "lapsed") ~> anonymized[j]

(* What the outbox promises: see InvitationDelivery.                       *)
Outcome(j) ==
  CASE status[j] = "none" -> "none"
    [] status[j] \in {"pending", "processing"} -> "open"
    [] status[j] = "completed" -> "delivered"
    [] status[j] = "dead_letter" /\ delivery_status[j] = "failed" -> "failed"
    [] status[j] = "dead_letter" /\ delivery_status[j] # "failed" -> "cancelled"

Delivery == INSTANCE InvitationDelivery
              WITH Invitations <- Jobs,
                   outcome <- [j \in Jobs |-> Outcome(j)],
                   tries <- attempts

(* Every claim, send, outcome and revocation is a step of the promised     *)
(* at-least-once delivery.                                                 *)
ImplementsDelivery == Delivery!Spec

(* Every invitation mail is settled in the end: no crash, outdated lease   *)
(* or lost reply leaves a job in the queue for ever.                       *)
EveryMailSettles == Delivery!Settles
=============================================================================
