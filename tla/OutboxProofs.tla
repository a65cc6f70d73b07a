---------------------------- MODULE OutboxProofs ----------------------------
(***************************************************************************)
(* TLAPS proofs about Outbox, for any number of jobs, workers, attempts,   *)
(* outdated leases and crashes.                                            *)
(***************************************************************************)
EXTENDS Outbox, TLAPS

(* The part of RunOnce between the claim and the recorded outcome.         *)
Busy(w) == pc[w] \in {"sending", "completing", "retrying"}

(* What holds of a job: the properties of Outbox, and what they rest on.   *)
JobInv(j) ==
  /\ LeaseConstraint!(j)
  /\ DeliveryAgrees!(j)
  /\ DuplicatesHaveCause!(j)
  /\ AuditAgrees!(j)
  \* The lease on a job is that of its latest attempt.
  /\ lease_token[j] # NoLease => lease_token[j] = attempts[j]
  \* Mail leaves only for attempts the job has counted.
  /\ copies[j] \subseteq 1 .. attempts[j]
  \* No mail of a queued job's latest attempt is known to have left.
  /\ status[j] \in {"none", "pending"} =>
       attempts[j] \notin copies[j] \ lostReplies[j]
  \* Before the insert there is nothing.
  /\ status[j] = "none" =>
       attempts[j] = 0 /\ ~revoked[j] /\ ~used[j] /\ delivery_status[j] = "queued"

(* What holds of a worker and of the job in its hands.                     *)
WorkerInv(w) ==
  /\ ~Busy(w) => held[w] = NoJob
  /\ Busy(w) =>
       /\ held[w] \in Claims
       /\ held[w].attempts <= attempts[held[w].job]
       \* An attempt still under way after a later one has begun lost its
       \* lease to it, and one under way for a queued job lost it too.
       /\ held[w].attempts < attempts[held[w].job] =>
            held[w].attempts \in reclaimed[held[w].job]
       /\ status[held[w].job] \in {"none", "pending"} =>
            held[w].attempts < attempts[held[w].job]
  /\ pc[w] = "sending" => held[w].attempts \notin copies[held[w].job]
  /\ pc[w] = "completing" => held[w].attempts \in copies[held[w].job]
  /\ pc[w] = "retrying" =>
       held[w].attempts \notin copies[held[w].job] \ lostReplies[held[w].job]

(* No two workers make the same attempt.                                   *)
ClaimsDiffer ==
  \A v, w \in Workers :
    Busy(v) /\ Busy(w) /\ held[v].job = held[w].job
      /\ held[v].attempts = held[w].attempts => v = w

(* The inductive invariant.                                                *)
IInv ==
  /\ TypeOK
  /\ \A j \in Jobs : JobInv(j)
  /\ \A w \in Workers : WorkerInv(w)
  /\ ClaimsDiffer

USE DEF jobVars, invitationVars, mailVars, budgets

(* A step counts one more event of one job, and no other event.             *)
Logged(j, a) ==
  /\ audit' \in [Jobs \X AuditActions -> Nat]
  /\ audit'[<<j, a>>] = audit[<<j, a>>] + 1
  /\ \A i \in Jobs, x \in AuditActions :
       <<i, x>> # <<j, a>> => audit'[<<i, x>>] = audit[<<i, x>>]

(* insertAuditEvent counts one event and leaves the others as they were.   *)
LEMMA EventInserted ==
  ASSUME audit \in [Jobs \X AuditActions -> Nat],
         NEW j \in Jobs, NEW a \in AuditActions, insertAuditEvent(j, a)
  PROVE  Logged(j, a)
  BY DEF insertAuditEvent, Logged

(* A step that leaves alone the rows and the history of a job keeps what   *)
(* holds of it.                                                            *)
LEMMA JobFrame ==
  ASSUME NEW i \in Jobs, JobInv(i),
         status'[i] = status[i], attempts'[i] = attempts[i],
         lease_token'[i] = lease_token[i],
         delivery_status'[i] = delivery_status[i],
         revoked'[i] = revoked[i], used'[i] = used[i],
         \A a \in AuditActions : audit'[<<i, a>>] = audit[<<i, a>>],
         copies'[i] = copies[i], lostReplies'[i] = lostReplies[i],
         reclaimed'[i] = reclaimed[i]
  PROVE  JobInv(i)'
  BY DEF JobInv, Final, AuditActions

(* A step that leaves alone a worker and the job in its hands keeps what   *)
(* holds of it.                                                            *)
LEMMA WorkerFrame ==
  ASSUME NEW v \in Workers, WorkerInv(v),
         pc'[v] = pc[v], held'[v] = held[v],
         \A i \in Jobs :
           held[v].job = i =>
             /\ status'[i] = status[i] /\ attempts'[i] = attempts[i]
             /\ copies'[i] = copies[i] /\ lostReplies'[i] = lostReplies[i]
             /\ reclaimed'[i] = reclaimed[i]
  PROVE  WorkerInv(v)'
  <1>1. CASE ~Busy(v)
    BY <1>1 DEF WorkerInv, Busy
  <1>2. CASE Busy(v)
    <2>1. held[v].job \in Jobs
      BY <1>2 DEF WorkerInv, Claims
    <2> QED
      BY <1>2, <2>1 DEF WorkerInv, Busy
  <1> QED
    BY <1>1, <1>2

(* Claims stay different while no worker takes a new one.                  *)
LEMMA ClaimsFrame ==
  ASSUME ClaimsDiffer,
         \A v \in Workers : Busy(v)' => Busy(v) /\ held'[v] = held[v]
  PROVE  ClaimsDiffer'
  BY DEF ClaimsDiffer

(* Steps that touch only the cleanup, the clocks and the bounds keep the   *)
(* invariant.                                                              *)
LEMMA Elsewhere ==
  ASSUME IInv, TypeOK',
         UNCHANGED <<status, attempts, lease_token, delivery_status, revoked,
                     used, audit, pc, held, copies, lostReplies, reclaimed>>
  PROVE  IInv'
<1>1. \A i \in Jobs : JobInv(i)'
  BY JobFrame DEF IInv
<1>2. \A v \in Workers : WorkerInv(v)'
  BY WorkerFrame DEF IInv
<1>3. ClaimsDiffer'
  BY ClaimsFrame DEF IInv, Busy
<1> QED
  BY <1>1, <1>2, <1>3 DEF IInv

(* So do steps after which one worker has nothing in hand and all else is  *)
(* as before.                                                              *)
LEMMA Idles ==
  ASSUME IInv, TypeOK', NEW w \in Workers,
         pc'[w] \in {"down", "starting", "draining", "waiting"}, held'[w] = NoJob,
         \A v \in Workers \ {w} : pc'[v] = pc[v] /\ held'[v] = held[v],
         UNCHANGED <<status, attempts, lease_token, delivery_status, revoked,
                     used, audit, copies, lostReplies, reclaimed>>
  PROVE  IInv'
<1>1. \A i \in Jobs : JobInv(i)'
  BY JobFrame DEF IInv
<1>2. ASSUME NEW v \in Workers
      PROVE  WorkerInv(v)'
  <2>1. CASE v = w
    BY <2>1 DEF WorkerInv, Busy
  <2>2. CASE v # w
    BY <2>2, WorkerFrame DEF IInv
  <2> QED
    BY <2>1, <2>2
<1>3. ClaimsDiffer'
  BY ClaimsFrame DEF IInv, Busy
<1> QED
  BY <1>1, <1>2, <1>3 DEF IInv

(* Time passing: a job becomes available, a lease outdated, an invitation  *)
(* old.                                                                    *)
LEMMA TimeKeeps ==
  ASSUME IInv, NEW j \in Jobs, BecomeAvailable(j) \/ BecomeStale(j) \/ Age(j)
  PROVE  IInv'
<1>1. CASE BecomeAvailable(j)
  <2>1. TypeOK'
    BY <1>1 DEF IInv, TypeOK, BecomeAvailable
  <2> QED
    BY <1>1, <2>1, Elsewhere DEF BecomeAvailable
<1>2. CASE BecomeStale(j)
  <2>1. TypeOK'
    BY <1>2 DEF IInv, TypeOK, BecomeStale
  <2> QED
    BY <1>2, <2>1, Elsewhere DEF BecomeStale
<1>3. CASE Age(j)
  <2>1. TypeOK'
    BY <1>3 DEF IInv, TypeOK, Age
  <2> QED
    BY <1>3, <2>1, Elsewhere DEF Age
<1> QED
  BY <1>1, <1>2, <1>3

(* The retention cleanup of a waiting worker.                              *)
LEMMA CleanupKeeps ==
  ASSUME IInv, NEW w \in Workers, CleanupTick(w)
  PROVE  IInv'
<1>1. TypeOK'
  BY DEF IInv, TypeOK, CleanupTick, AnonymizeExpiredInvitations
<1> QED
  BY <1>1, Elsewhere DEF CleanupTick

(* The steps of Run while the worker has no job.                           *)
LEMMA IdleKeeps ==
  ASSUME IInv, NEW w \in Workers,
         StartWorker(w) \/ CleanupAtStart(w) \/ PollTick(w) \/ DrainEnds(w)
  PROVE  IInv'
<1>1. TypeOK'
  <2>1. pc' \in [Workers -> {"down", "starting", "draining", "sending",
                              "completing", "retrying", "waiting"}]
    BY DEF IInv, TypeOK, StartWorker, CleanupAtStart, PollTick, DrainEnds
  <2>2. anonymized' \in [Jobs -> BOOLEAN]
    BY DEF IInv, TypeOK, StartWorker, CleanupAtStart, PollTick, DrainEnds,
           AnonymizeExpiredInvitations
  <2> QED
    BY <2>1, <2>2
    DEF IInv, TypeOK, StartWorker, CleanupAtStart, PollTick, DrainEnds
<1>2. /\ pc'[w] \in {"starting", "draining", "waiting"} /\ held'[w] = NoJob
      /\ \A v \in Workers \ {w} : pc'[v] = pc[v] /\ held'[v] = held[v]
  BY DEF IInv, TypeOK, WorkerInv, Busy, StartWorker, CleanupAtStart, PollTick,
         DrainEnds
<1> QED
  BY <1>1, <1>2, Idles DEF StartWorker, CleanupAtStart, PollTick, DrainEnds

(* LeaseLost and Crash: the worker forgets its job, whose rows stay as     *)
(* they are.                                                               *)
LEMMA GiveUpKeeps ==
  ASSUME IInv, NEW w \in Workers, LeaseLost(w) \/ Crash(w)
  PROVE  IInv'
<1>1. /\ held' \in [Workers -> Claims \cup {NoJob}] /\ crashes' \in Nat
      /\ pc' \in [Workers -> {"down", "starting", "draining", "sending",
                              "completing", "retrying", "waiting"}]
  BY DEF IInv, TypeOK, LeaseLost, NextJob, Crash
<1>2. TypeOK'
  BY <1>1 DEF IInv, TypeOK, LeaseLost, Crash
<1>3. /\ pc'[w] \in {"down", "draining"} /\ held'[w] = NoJob
      /\ \A v \in Workers \ {w} : pc'[v] = pc[v] /\ held'[v] = held[v]
  BY DEF IInv, TypeOK, LeaseLost, NextJob, Crash
<1> QED
  BY <1>2, <1>3, Idles DEF LeaseLost, Crash

(* CreateInvitation: a new job has had no attempt.                         *)
LEMMA CreateInvitationKeeps ==
  ASSUME IInv, NEW j \in Jobs, CreateInvitation(j)
  PROVE  IInv'
<1>e. Logged(j, "invitation.created")
  BY EventInserted DEF IInv, TypeOK, CreateInvitation, AuditActions
<1>1. TypeOK'
  BY <1>e DEF Logged, IInv, TypeOK, Statuses, NoLease, CreateInvitation
<1>2. ASSUME NEW i \in Jobs
      PROVE  JobInv(i)'
  <2>1. CASE i = j
    <3>1. /\ JobInv(j) /\ attempts[j] \in Nat
          /\ status[j] \in Statuses /\ audit[<<j, "invitation.created">>] \in Nat
      BY DEF IInv, TypeOK, AuditActions
    <3>2. status[j] = "none" /\ status'[j] = "pending"
      BY <3>1 DEF IInv, TypeOK, CreateInvitation
    <3>3. UNCHANGED <<attempts, lease_token, delivery_status, revoked, used,
                      copies, lostReplies, reclaimed>>
      BY DEF CreateInvitation
    <3>4. \A x \in AuditActions \ {"invitation.created"} :
            audit'[<<i, x>>] = audit[<<i, x>>]
      BY <1>e, <2>1 DEF AuditActions, Logged
    <3> QED
      BY <1>e, <2>1, <3>1, <3>2, <3>3, <3>4, OutboxAssumption
      DEF Logged, JobInv, Final, AuditActions, NoLease
  <2>2. CASE i # j
    BY <1>e, <2>2, JobFrame DEF Logged, IInv, TypeOK, CreateInvitation
  <2> QED
    BY <2>1, <2>2
<1>3. ASSUME NEW v \in Workers
      PROVE  WorkerInv(v)'
    BY DEF IInv, TypeOK, WorkerInv, Busy, Claims, CreateInvitation
<1>4. ClaimsDiffer'
  BY ClaimsFrame DEF IInv, CreateInvitation, Busy
<1> QED
  BY <1>1, <1>2, <1>3, <1>4 DEF IInv

(* AcceptInvitation: only an invitation that is not revoked is used.       *)
LEMMA AcceptInvitationKeeps ==
  ASSUME IInv, NEW j \in Jobs, AcceptInvitation(j)
  PROVE  IInv'
<1>e. Logged(j, "invitation.accepted")
  BY EventInserted DEF IInv, TypeOK, AcceptInvitation, AuditActions
<1>1. TypeOK'
  BY <1>e DEF Logged, IInv, TypeOK, Statuses, NoLease, AcceptInvitation
<1>2. ASSUME NEW i \in Jobs
      PROVE  JobInv(i)'
  <2>1. CASE i = j
    <3>1. /\ JobInv(j) /\ attempts[j] \in Nat
          /\ status[j] \in Statuses /\ audit[<<j, "invitation.accepted">>] \in Nat
      BY DEF IInv, TypeOK, AuditActions
    <3>2. status[j] # "none" /\ ~used[j] /\ ~revoked[j] /\ used'[j]
      BY <3>1 DEF IInv, TypeOK, AcceptInvitation, Acceptable
    <3>3. UNCHANGED <<status, attempts, lease_token, delivery_status, revoked,
                      copies, lostReplies, reclaimed>>
      BY DEF AcceptInvitation
    <3>4. \A x \in AuditActions \ {"invitation.accepted"} :
            audit'[<<i, x>>] = audit[<<i, x>>]
      BY <1>e, <2>1 DEF AuditActions, Logged
    <3> QED
      BY <1>e, <2>1, <3>1, <3>2, <3>3, <3>4, OutboxAssumption
      DEF Logged, JobInv, Final, AuditActions, NoLease
  <2>2. CASE i # j
    BY <1>e, <2>2, JobFrame DEF Logged, IInv, TypeOK, AcceptInvitation
  <2> QED
    BY <2>1, <2>2
<1>3. ASSUME NEW v \in Workers
      PROVE  WorkerInv(v)'
    BY WorkerFrame DEF IInv, AcceptInvitation
<1>4. ClaimsDiffer'
  BY ClaimsFrame DEF IInv, AcceptInvitation, Busy
<1> QED
  BY <1>1, <1>2, <1>3, <1>4 DEF IInv

(* RevokeInvitation: a live job is dead-lettered and its lease with it; a  *)
(* settled job stays.                                                      *)
LEMMA RevokeInvitationKeeps ==
  ASSUME IInv, NEW j \in Jobs, RevokeInvitation(j)
  PROVE  IInv'
<1>e. Logged(j, "invitation.revoked")
  BY EventInserted DEF IInv, TypeOK, RevokeInvitation, AuditActions
<1>1. TypeOK'
  <2>1. status' \in [Jobs -> Statuses]
    BY DEF IInv, TypeOK, Statuses, RevokeInvitation, CancelJob, ReleaseLease
  <2>2. lease_token' \in [Jobs -> Nat]
    BY DEF IInv, TypeOK, NoLease, RevokeInvitation, CancelJob, ReleaseLease
  <2>3. stale' \in [Jobs -> BOOLEAN] /\ revoked' \in [Jobs -> BOOLEAN]
    BY DEF IInv, TypeOK, RevokeInvitation, CancelJob, ReleaseLease
  <2> QED
    BY <1>e, <2>1, <2>2, <2>3 DEF Logged, IInv, TypeOK, RevokeInvitation
<1>2. ASSUME NEW i \in Jobs
      PROVE  JobInv(i)'
  <2>1. CASE i = j
    <3>1. /\ JobInv(j) /\ attempts[j] \in Nat
          /\ status[j] \in Statuses /\ audit[<<j, "invitation.revoked">>] \in Nat
      BY DEF IInv, TypeOK, AuditActions
    <3>2. /\ revoked'[j] /\ ~used[j] /\ ~revoked[j] /\ status[j] # "none"
          /\ \/ /\ status'[j] = "dead_letter" /\ lease_token'[j] = NoLease
                /\ status[j] \in {"pending", "processing"}
             \/ /\ status'[j] = status[j] /\ lease_token'[j] = lease_token[j]
                /\ status[j] \in Final
      BY <3>1 DEF IInv, TypeOK, Statuses, Final, RevokeInvitation, CancelJob, ReleaseLease
    <3>3. UNCHANGED <<attempts, delivery_status, used, copies, lostReplies,
                      reclaimed>>
      BY DEF RevokeInvitation
    <3>4. \A x \in AuditActions \ {"invitation.revoked"} :
            audit'[<<i, x>>] = audit[<<i, x>>]
      BY <1>e, <2>1 DEF AuditActions, Logged
    <3> QED
      BY <1>e, <2>1, <3>1, <3>2, <3>3, <3>4, OutboxAssumption
      DEF Logged, JobInv, Final, AuditActions, NoLease
  <2>2. CASE i # j
    BY <1>e, <2>2, JobFrame DEF Logged, IInv, TypeOK, RevokeInvitation, CancelJob, ReleaseLease
  <2> QED
    BY <2>1, <2>2
<1>3. ASSUME NEW v \in Workers
      PROVE  WorkerInv(v)'
    BY DEF IInv, TypeOK, WorkerInv, Busy, Claims, RevokeInvitation, CancelJob, ReleaseLease
<1>4. ClaimsDiffer'
  BY ClaimsFrame DEF IInv, RevokeInvitation, Busy
<1> QED
  BY <1>1, <1>2, <1>3, <1>4 DEF IInv

(* SendAccepted: the copy that leaves is that of an attempt of its own.    *)
LEMMA SendAcceptedKeeps ==
  ASSUME IInv, NEW w \in Workers, SendAccepted(w)
  PROVE  IInv'
<1>b. /\ Busy(w) /\ held[w] \in Claims
      /\ held[w].job \in Jobs /\ held[w].attempts \in Nat \ {0}
  BY DEF IInv, SendAccepted, WorkerInv, Busy, Claims
<1>1. TypeOK'
  BY <1>b DEF IInv, TypeOK, SendAccepted
<1>2. ASSUME NEW i \in Jobs
      PROVE  JobInv(i)'
  <2>1. CASE i = held[w].job
    <3>1. /\ JobInv(i) /\ attempts[i] \in Nat /\ WorkerInv(w) /\ pc[w] = "sending"
      BY DEF IInv, TypeOK, SendAccepted
    <3>2. copies'[i] = copies[i] \cup {held[w].attempts}
      BY <1>b, <2>1 DEF IInv, TypeOK, SendAccepted
    <3> QED
      BY <1>b, <2>1, <3>1, <3>2 DEF JobInv, WorkerInv, SendAccepted
  <2>2. CASE i # held[w].job
    BY <1>b, <2>2, JobFrame DEF IInv, TypeOK, SendAccepted
  <2> QED
    BY <2>1, <2>2
<1>3. ASSUME NEW v \in Workers
      PROVE  WorkerInv(v)'
  <2>1. CASE v = w
    BY <1>b, <2>1 DEF IInv, TypeOK, WorkerInv, Busy, SendAccepted
  <2>2. CASE v # w
    BY <1>b, <2>2
    DEF IInv, TypeOK, WorkerInv, ClaimsDiffer, Busy, Claims, SendAccepted
  <2> QED
    BY <2>1, <2>2
<1>4. ClaimsDiffer'
  BY <1>b, ClaimsFrame DEF IInv, TypeOK, SendAccepted, Busy
<1> QED
  BY <1>1, <1>2, <1>3, <1>4 DEF IInv

(* SendReplyLost: as SendAccepted, and the copy has a cause to be          *)
(* repeated.                                                               *)
LEMMA SendReplyLostKeeps ==
  ASSUME IInv, NEW w \in Workers, SendReplyLost(w)
  PROVE  IInv'
<1>b. /\ Busy(w) /\ held[w] \in Claims
      /\ held[w].job \in Jobs /\ held[w].attempts \in Nat \ {0}
  BY DEF IInv, SendReplyLost, WorkerInv, Busy, Claims
<1>1. TypeOK'
  BY <1>b DEF IInv, TypeOK, SendReplyLost
<1>2. ASSUME NEW i \in Jobs
      PROVE  JobInv(i)'
  <2>1. CASE i = held[w].job
    BY <1>b, <2>1 DEF IInv, TypeOK, JobInv, WorkerInv, SendReplyLost
  <2>2. CASE i # held[w].job
    BY <1>b, <2>2, JobFrame DEF IInv, TypeOK, SendReplyLost
  <2> QED
    BY <2>1, <2>2
<1>3. ASSUME NEW v \in Workers
      PROVE  WorkerInv(v)'
  <2>1. CASE v = w
    BY <1>b, <2>1 DEF IInv, TypeOK, WorkerInv, Busy, SendReplyLost
  <2>2. CASE v # w
    BY <1>b, <2>2
    DEF IInv, TypeOK, WorkerInv, ClaimsDiffer, Busy, Claims, SendReplyLost
  <2> QED
    BY <2>1, <2>2
<1>4. ClaimsDiffer'
  BY <1>b, ClaimsFrame DEF IInv, TypeOK, SendReplyLost, Busy
<1> QED
  BY <1>1, <1>2, <1>3, <1>4 DEF IInv

(* SendFails: the attempt has put no copy on its way.                      *)
LEMMA SendFailsKeeps ==
  ASSUME IInv, NEW w \in Workers, SendFails(w)
  PROVE  IInv'
<1>b. /\ Busy(w) /\ held[w] \in Claims
      /\ held[w].job \in Jobs /\ held[w].attempts \in Nat \ {0}
  BY DEF IInv, SendFails, WorkerInv, Busy, Claims
<1>1. TypeOK'
  BY <1>b DEF IInv, TypeOK, SendFails
<1>2. \A i \in Jobs : JobInv(i)'
  BY JobFrame DEF IInv, SendFails
<1>3. ASSUME NEW v \in Workers
      PROVE  WorkerInv(v)'
  <2>1. CASE v = w
    BY <1>b, <2>1 DEF IInv, TypeOK, WorkerInv, Busy, SendFails
  <2>2. CASE v # w
    BY <2>2, WorkerFrame DEF IInv, TypeOK, SendFails
  <2> QED
    BY <2>1, <2>2
<1>4. ClaimsDiffer'
  BY <1>b, ClaimsFrame DEF IInv, TypeOK, SendFails, Busy
<1> QED
  BY <1>1, <1>2, <1>3, <1>4 DEF IInv

(* Complete: a worker that reports success has sent a copy.                *)
LEMMA CompleteKeeps ==
  ASSUME IInv, NEW w \in Workers, Complete(w)
  PROVE  IInv'
<1>b. /\ Busy(w) /\ held[w] \in Claims
      /\ held[w].job \in Jobs /\ held[w].attempts \in Nat \ {0}
  BY DEF IInv, Complete, WorkerInv, Busy, Claims
<1>1. TypeOK'
  BY <1>b
  DEF IInv, TypeOK, Statuses, DeliveryStatuses, NoLease, NoJob, Complete,
      HoldsLease, ReleaseLease, SetDelivery, NextJob
<1>2. ASSUME NEW i \in Jobs
      PROVE  JobInv(i)'
  <2>1. CASE i = held[w].job
    BY <1>b, <2>1, OutboxAssumption
    DEF IInv, TypeOK, JobInv, WorkerInv, AuditActions, NoLease, Final, Complete,
        HoldsLease, ReleaseLease, SetDelivery, NextJob
  <2>2. CASE i # held[w].job
    BY <1>b, <2>2, JobFrame
    DEF IInv, TypeOK, Complete, HoldsLease, ReleaseLease, SetDelivery, NextJob
  <2> QED
    BY <2>1, <2>2
<1>3. ASSUME NEW v \in Workers
      PROVE  WorkerInv(v)'
  <2>1. CASE v = w
    BY <1>b, <2>1 DEF IInv, TypeOK, WorkerInv, Busy, Complete, NextJob
  <2>2. CASE v # w
    BY <1>b, <2>2
    DEF IInv, TypeOK, WorkerInv, Busy, Claims, Complete, HoldsLease,
        ReleaseLease, SetDelivery, NextJob
  <2> QED
    BY <2>1, <2>2
<1>4. ClaimsDiffer'
  BY <1>b, ClaimsFrame DEF IInv, TypeOK, Complete, NextJob, Busy
<1> QED
  BY <1>1, <1>2, <1>3, <1>4 DEF IInv

(* Retry: the lease shows that the attempt is the latest; every other      *)
(* attempt under way is older.                                             *)
LEMMA RetryKeeps ==
  ASSUME IInv, NEW w \in Workers, Retry(w)
  PROVE  IInv'
<1>b. /\ Busy(w) /\ held[w] \in Claims
      /\ held[w].job \in Jobs /\ held[w].attempts \in Nat \ {0}
  BY DEF IInv, Retry, WorkerInv, Busy, Claims
<1>1. TypeOK'
  BY <1>b
  DEF IInv, TypeOK, Statuses, DeliveryStatuses, NoLease, NoJob, Retry,
      HoldsLease, ReleaseLease, SetDelivery, NextJob
<1>2. ASSUME NEW i \in Jobs
      PROVE  JobInv(i)'
  <2>1. CASE i = held[w].job
    BY <1>b, <2>1, OutboxAssumption
    DEF IInv, TypeOK, JobInv, WorkerInv, AuditActions, NoLease, Final, Retry, AttemptsExhausted,
        HoldsLease, ReleaseLease, SetDelivery, NextJob
  <2>2. CASE i # held[w].job
    BY <1>b, <2>2, JobFrame
    DEF IInv, TypeOK, Retry, HoldsLease, ReleaseLease, SetDelivery, NextJob
  <2> QED
    BY <2>1, <2>2
<1>3. ASSUME NEW v \in Workers
      PROVE  WorkerInv(v)'
  <2>1. CASE v = w
    BY <1>b, <2>1 DEF IInv, TypeOK, WorkerInv, Busy, Retry, NextJob
  <2>2. CASE v # w
    <3>1. WorkerInv(v) /\ pc'[v] = pc[v] /\ held'[v] = held[v]
      BY <2>2 DEF IInv, TypeOK, Retry, NextJob
    <3>2. CASE ~Busy(v)
      BY <3>1, <3>2 DEF WorkerInv, Busy
    <3>3. CASE Busy(v) /\ held[v].job # held[w].job
      BY <3>1, <3>3, <1>b, WorkerFrame
      DEF IInv, TypeOK, Retry, ReleaseLease, SetDelivery
    <3>4. CASE Busy(v) /\ held[v].job = held[w].job
      <4>1. held[v].attempts # held[w].attempts
        BY <1>b, <2>2, <3>4 DEF IInv, ClaimsDiffer
      <4>2. attempts[held[w].job] = held[w].attempts
        BY <1>b DEF IInv, JobInv, Retry, HoldsLease, NoLease
      <4>3. held[v] \in Claims /\ held[v].attempts < attempts[held[v].job]
        BY <1>b, <3>1, <3>4, <4>1, <4>2 DEF WorkerInv, Claims
      <4> QED
        BY <3>1, <3>4, <4>3 DEF WorkerInv, Busy, Retry
    <3> QED
      BY <3>2, <3>3, <3>4
  <2> QED
    BY <2>1, <2>2
<1>4. ClaimsDiffer'
  BY <1>b, ClaimsFrame DEF IInv, TypeOK, Retry, NextJob, Busy
<1> QED
  BY <1>1, <1>2, <1>3, <1>4 DEF IInv

(* deadLetter: as Retry, but the attempts are used up.                     *)
LEMMA deadLetterKeeps ==
  ASSUME IInv, NEW w \in Workers, deadLetter(w)
  PROVE  IInv'
<1>b. /\ Busy(w) /\ held[w] \in Claims
      /\ held[w].job \in Jobs /\ held[w].attempts \in Nat \ {0}
  BY DEF IInv, deadLetter, WorkerInv, Busy, Claims
<1>e. Logged(held[w].job, "outbox.dead_letter")
  BY <1>b, EventInserted DEF IInv, TypeOK, deadLetter, AuditActions
<1>1. TypeOK'
  BY <1>e, <1>b
  DEF Logged, IInv, TypeOK, Statuses, DeliveryStatuses, NoLease, NoJob, deadLetter,
      HoldsLease, ReleaseLease, SetDelivery, NextJob
<1>2. ASSUME NEW i \in Jobs
      PROVE  JobInv(i)'
  <2>1. CASE i = held[w].job
    <3>1. /\ JobInv(i) /\ attempts[i] \in Nat /\ held[w].attempts >= MaxAttempts
          /\ status[i] = "processing" /\ lease_token[i] = held[w].attempts
      BY <2>1 DEF IInv, TypeOK, deadLetter, AttemptsExhausted, HoldsLease
    <3>2. /\ status'[i] = "dead_letter" /\ lease_token'[i] = NoLease
          /\ delivery_status'[i] = "failed"
      BY <1>b, <2>1 DEF IInv, TypeOK, deadLetter, ReleaseLease, SetDelivery
    <3>3. UNCHANGED <<attempts, revoked, used, copies, lostReplies, reclaimed>>
      BY DEF deadLetter
    <3>4. \A x \in AuditActions \ {"outbox.dead_letter"} :
            audit'[<<i, x>>] = audit[<<i, x>>]
      BY <1>e, <2>1 DEF AuditActions, Logged
    <3>5. audit'[<<i, "outbox.dead_letter">>] = audit[<<i, "outbox.dead_letter">>] + 1
      BY <1>e, <2>1 DEF Logged
    <3> QED
      BY <1>b, <3>1, <3>2, <3>3, <3>4, <3>5, OutboxAssumption
      DEF JobInv, AuditActions, NoLease, Final
  <2>2. CASE i # held[w].job
    BY <1>e, <1>b, <2>2, JobFrame
    DEF Logged, IInv, TypeOK, deadLetter, HoldsLease, ReleaseLease, SetDelivery, NextJob
  <2> QED
    BY <2>1, <2>2
<1>3. ASSUME NEW v \in Workers
      PROVE  WorkerInv(v)'
  <2>1. CASE v = w
    BY <1>b, <2>1 DEF IInv, TypeOK, WorkerInv, Busy, deadLetter, NextJob
  <2>2. CASE v # w
    BY <1>b, <2>2
    DEF IInv, TypeOK, WorkerInv, Busy, Claims, deadLetter, HoldsLease,
        ReleaseLease, SetDelivery, NextJob
  <2> QED
    BY <2>1, <2>2
<1>4. ClaimsDiffer'
  BY <1>b, ClaimsFrame DEF IInv, TypeOK, deadLetter, NextJob, Busy
<1> QED
  BY <1>1, <1>2, <1>3, <1>4 DEF IInv

(* ClaimInvitationEmail: the attempt whose lease is taken over is          *)
(* reclaimed, and no worker has made the new one.                          *)
LEMMA ClaimInvitationEmailKeeps ==
  ASSUME IInv, NEW w \in Workers, NEW j \in Jobs, ClaimInvitationEmail(w, j)
  PROVE  IInv'
<1>c. /\ held'[w] = [job |-> j, attempts |-> attempts[j] + 1,
                     recipient |-> ~anonymized[j]]
      /\ held'[w] \in Claims
  BY DEF IInv, TypeOK, ClaimInvitationEmail, Claims
<1>1. TypeOK'
  BY <1>c DEF IInv, TypeOK, Statuses, NoLease, ClaimInvitationEmail
<1>2. ASSUME NEW i \in Jobs
      PROVE  JobInv(i)'
  <2>1. CASE i = j
    <3>1. /\ JobInv(i) /\ attempts[i] \in Nat
          /\ status[i] \in {"pending", "processing"}
      BY <2>1 DEF IInv, TypeOK, ClaimInvitationEmail, Claimable
    <3>2. /\ status'[i] = "processing" /\ attempts'[i] = attempts[i] + 1
          /\ lease_token'[i] = attempts[i] + 1
      BY <2>1 DEF IInv, TypeOK, ClaimInvitationEmail
    <3>3. reclaimed'[i] = IF status[i] = "processing"
                          THEN reclaimed[i] \cup {attempts[i]} ELSE reclaimed[i]
      BY <2>1 DEF IInv, TypeOK, ClaimInvitationEmail
    <3>4. UNCHANGED <<delivery_status, revoked, used, audit, copies, lostReplies>>
      BY DEF ClaimInvitationEmail
    <3>5. \A n \in MaxAttempts .. (attempts'[i] - 1) : n \in reclaimed'[i]
      BY <3>1, <3>2, <3>3, OutboxAssumption DEF JobInv
    <3>6. copies'[i] \subseteq lostReplies'[i] \cup reclaimed'[i] \cup {attempts'[i]}
      BY <3>1, <3>2, <3>3, <3>4 DEF JobInv
    <3> QED
      BY <3>1, <3>2, <3>4, <3>5, <3>6, OutboxAssumption
      DEF JobInv, NoLease, Final
  <2>2. CASE i # j
    BY <2>2, JobFrame DEF IInv, TypeOK, ClaimInvitationEmail
  <2> QED
    BY <2>1, <2>2
<1>3. ASSUME NEW v \in Workers
      PROVE  WorkerInv(v)'
  <2>1. CASE v = w
    <3>1. /\ pc'[w] = "sending" /\ status'[j] = "processing"
          /\ attempts'[j] = attempts[j] + 1 /\ attempts[j] \in Nat
      BY DEF IInv, TypeOK, ClaimInvitationEmail
    <3>2. copies'[j] \subseteq 1 .. attempts[j]
      BY DEF IInv, JobInv, ClaimInvitationEmail
    <3> QED
      BY <1>c, <2>1, <3>1, <3>2 DEF WorkerInv, Busy
  <2>2. CASE v # w
    <3>1. WorkerInv(v) /\ pc'[v] = pc[v] /\ held'[v] = held[v]
      BY <2>2 DEF IInv, TypeOK, ClaimInvitationEmail
    <3>2. CASE held[v].job = j
      <4>1. /\ status[j] \in {"pending", "processing"} /\ attempts[j] \in Nat
            /\ status'[j] = "processing" /\ attempts'[j] = attempts[j] + 1
            /\ reclaimed'[j] = IF status[j] = "processing"
                               THEN reclaimed[j] \cup {attempts[j]} ELSE reclaimed[j]
            /\ copies' = copies /\ lostReplies' = lostReplies
        BY DEF IInv, TypeOK, Claimable, ClaimInvitationEmail
      <4> QED
        BY <3>1, <3>2, <4>1 DEF WorkerInv, Busy, Claims
    <3>3. CASE held[v].job # j
      <4>1. \A i \in Jobs \ {j} :
               /\ status'[i] = status[i] /\ attempts'[i] = attempts[i]
               /\ copies'[i] = copies[i] /\ lostReplies'[i] = lostReplies[i]
               /\ reclaimed'[i] = reclaimed[i]
        BY DEF IInv, TypeOK, ClaimInvitationEmail
      <4> QED
        BY <3>1, <3>3, <4>1, WorkerFrame
    <3> QED
      BY <3>2, <3>3
  <2> QED
    BY <2>1, <2>2
<1>4. ClaimsDiffer'
  BY <1>c
  DEF IInv, TypeOK, WorkerInv, ClaimsDiffer, Busy, Claims, ClaimInvitationEmail
<1> QED
  BY <1>1, <1>2, <1>3, <1>4 DEF IInv

(* Nothing has been created, and no worker runs.                           *)
LEMMA InitEstablishes == Init => IInv
  <1> SUFFICES ASSUME Init
               PROVE  IInv
    OBVIOUS
  <1>1. TypeOK
    BY DEF Init, TypeOK, Statuses, DeliveryStatuses, AuditActions, NoLease
  <1>2. ASSUME NEW j \in Jobs
        PROVE  JobInv(j)
    BY OutboxAssumption DEF Init, JobInv, AuditActions, NoLease
  <1>3. ASSUME NEW w \in Workers
        PROVE  WorkerInv(w)
    BY DEF Init, WorkerInv, Busy
  <1>4. ClaimsDiffer
    BY DEF Init, ClaimsDiffer, Busy
  <1> QED
    BY <1>1, <1>2, <1>3, <1>4 DEF IInv

(* The invariant is inductive: every step of the API server, the workers   *)
(* and time keeps it.                                                      *)
LEMMA StepKeeps == IInv /\ [Next]_vars => IInv'
  <1> SUFFICES ASSUME IInv, [Next]_vars
               PROVE  IInv'
    OBVIOUS
  <1>1. ASSUME NEW j \in Jobs,
               CreateInvitation(j) \/ AcceptInvitation(j) \/ RevokeInvitation(j)
                 \/ BecomeAvailable(j) \/ BecomeStale(j) \/ Age(j)
        PROVE  IInv'
    BY <1>1, CreateInvitationKeeps, AcceptInvitationKeeps,
       RevokeInvitationKeeps,
       TimeKeeps
  <1>2. ASSUME NEW w \in Workers,
               WorkerStep(w) \/ DrainEnds(w) \/ CleanupTick(w) \/ Crash(w)
        PROVE  IInv'
    BY <1>2, IdleKeeps, ClaimInvitationEmailKeeps, SendAcceptedKeeps,
       SendReplyLostKeeps, SendFailsKeeps, CompleteKeeps, RetryKeeps,
       deadLetterKeeps, GiveUpKeeps, CleanupKeeps
    DEF WorkerStep
  <1>3. CASE UNCHANGED vars
    <2>1. TypeOK'
      BY <1>3 DEF IInv, TypeOK, vars
    <2> QED
      BY <1>3, <2>1, Elsewhere DEF vars
  <1> QED
    BY <1>1, <1>2, <1>3 DEF Next

(* The inductive invariant holds of every behaviour, for any number of     *)
(* jobs, workers, outdated leases and crashes.                             *)
THEOREM Invariant == Spec => []IInv
  BY InitEstablishes, StepKeeps, PTL DEF Spec

(* Type correctness of the outbox rows, the invitations and the workers.   *)
THEOREM TypeCorrect == Spec => []TypeOK
  <1>1. IInv => TypeOK
    BY DEF IInv
  <1> QED
    BY <1>1, Invariant, PTL

(* What the inductive invariant says of each job is what the properties of *)
(* Outbox say of all.                                                      *)
LEMMA JobsAgree ==
  IInv => LeaseConstraint /\ DeliveryAgrees /\ DuplicatesHaveCause /\ AuditAgrees
  BY DEF IInv, JobInv, LeaseConstraint, DeliveryAgrees, DuplicatesHaveCause,
         AuditAgrees

(* Job rows satisfy the schema's lease CHECK, and at most one worker can   *)
(* record an outcome of a job (OneHolder).                                 *)
THEOREM Leased == Spec => []OneHolder
  <1>1. IInv => OneHolder
    BY JobsAgree DEF IInv, ClaimsDiffer, OneHolder, HoldsLease, Busy
  <1> QED
    BY <1>1, Invariant, PTL

(* What is shown of an invitation agrees with its job, and a revoked one   *)
(* has no live job (DeliveryAgrees).                                       *)
THEOREM Settled == Spec => []DeliveryAgrees
  BY JobsAgree, Invariant, PTL

(* The audit log holds one event for each thing that happened, however the *)
(* workers and the administrators interleave (AuditAgrees).                *)
THEOREM Audited == Spec => []AuditAgrees
  BY JobsAgree, Invariant, PTL

(* A second copy of a mail has a lost reply or an outdated lease for a     *)
(* cause, and an attempt beyond the maximum an outdated lease              *)
(* (DuplicatesHaveCause).                                                  *)
THEOREM Duplicates == Spec => []DuplicatesHaveCause
  BY JobsAgree, Invariant, PTL

(* Only a revocation or the holder of the current lease ends the           *)
(* processing of a job, as the WHERE clauses of Complete, Retry and        *)
(* deadLetter intend.                                                      *)
THEOREM Guarded == Spec => LeaseGuardsOutcome
  <1> DEFINE Ends(j) == status[j] = "processing" /\ status'[j] # "processing"
             Cause(j) == \/ ~revoked[j] /\ revoked'[j]
                         \/ \E w \in Workers : /\ held[w].job = j
                                               /\ held[w].attempts = lease_token[j]
                                               /\ held'[w] = NoJob
  <1>1. ASSUME IInv, [Next]_vars, NEW j \in Jobs, Ends(j)
        PROVE  Cause(j)
    <2>1. CASE RevokeInvitation(j)
      BY <1>1, <2>1 DEF IInv, TypeOK, RevokeInvitation
    <2>2. ASSUME NEW w \in Workers, Complete(w) \/ Retry(w) \/ deadLetter(w)
          PROVE  Cause(j)
      <3>1. /\ HoldsLease(w) /\ NextJob(w)
            /\ \E s \in Statuses : ReleaseLease(held[w].job, s)
        BY <2>2 DEF Complete, Retry, deadLetter, Statuses
      <3>2. held[w].job = j
        BY <1>1, <3>1 DEF IInv, TypeOK, ReleaseLease
      <3>3. held[w].attempts = lease_token[j]
        BY <3>1, <3>2 DEF HoldsLease
      <3>4. held'[w] = NoJob
        BY <1>1, <3>1 DEF IInv, TypeOK, NextJob
      <3> QED
        BY <3>2, <3>3, <3>4
    <2>3. ASSUME NEW i \in Jobs, i # j, RevokeInvitation(i)
          PROVE  FALSE
      BY <1>1, <2>3 DEF IInv, TypeOK, RevokeInvitation, CancelJob, ReleaseLease
    <2>4. ASSUME NEW i \in Jobs,
                 CreateInvitation(i) \/ AcceptInvitation(i)
                   \/ BecomeAvailable(i) \/ BecomeStale(i) \/ Age(i)
          PROVE  FALSE
      BY <1>1, <2>4 DEF IInv, TypeOK, CreateInvitation, AcceptInvitation,
         BecomeAvailable, BecomeStale, Age
    <2>5. ASSUME NEW w \in Workers, NEW i \in Jobs, ClaimInvitationEmail(w, i)
          PROVE  FALSE
      BY <1>1, <2>5 DEF IInv, TypeOK, ClaimInvitationEmail
    <2>6. ASSUME NEW w \in Workers,
                 StartWorker(w) \/ CleanupAtStart(w) \/ PollTick(w)
                   \/ DrainEnds(w) \/ SendAccepted(w) \/ SendReplyLost(w)
                   \/ SendFails(w) \/ LeaseLost(w) \/ CleanupTick(w) \/ Crash(w)
          PROVE  FALSE
      BY <1>1, <2>6 DEF StartWorker, CleanupAtStart, PollTick, DrainEnds,
         SendAccepted, SendReplyLost, SendFails, LeaseLost, CleanupTick, Crash
    <2>7. CASE UNCHANGED vars
      BY <1>1, <2>7 DEF vars
    <2> QED
      BY <1>1, <2>1, <2>2, <2>3, <2>4, <2>5, <2>6, <2>7 DEF Next, WorkerStep
  <1>2. IInv /\ [Next]_vars => [\A j \in Jobs : Ends(j) => Cause(j)]_vars
    BY <1>1
  <1> QED
    BY <1>2, Invariant, PTL DEF Spec, LeaseGuardsOutcome

(* Nothing created is nothing requested.                                   *)
LEMMA InitRefines == Init => Delivery!Init
  BY DEF Init, Delivery!Init, Outcome

(* A step that changes no outcome, no attempt and no copy is a stuttering  *)
(* step of InvitationDelivery.                                             *)
LEMMA OutcomeFrame ==
  ASSUME \A j \in Jobs : Outcome(j)' = Outcome(j), UNCHANGED <<attempts, copies>>
  PROVE  UNCHANGED Delivery!deliveryVars
  BY DEF Delivery!deliveryVars

(* A step that ends an open delivery for one of the three reasons is a     *)
(* Settle step.                                                            *)
LEMMA SettleRefines ==
  ASSUME IInv, NEW j \in Jobs, Outcome(j) = "open",
         \A i \in Jobs \ {j} : Outcome(i)' = Outcome(i),
         UNCHANGED <<attempts, copies>>,
         \/ copies[j] # {} /\ Outcome(j)' = "delivered"
         \/ attempts[j] >= MaxAttempts /\ Outcome(j)' = "failed"
         \/ Outcome(j)' = "cancelled"
  PROVE  Delivery!Settle(j)
  BY DEF Delivery!Settle

(* The SMTP server taking a mail is a Deliver step: it is the first copy   *)
(* of its attempt.                                                         *)
LEMMA DeliverRefines ==
  ASSUME IInv, NEW w \in Workers, pc[w] = "sending",
         copies' = [copies EXCEPT ![held[w].job] = @ \cup {held[w].attempts}],
         UNCHANGED <<status, delivery_status, attempts>>
  PROVE  Delivery!Next
  <1>1. held[w].job \in Jobs
    BY DEF IInv, WorkerInv, Busy, Claims
  <1>2. held[w].attempts \in (1 .. attempts[held[w].job]) \ copies[held[w].job]
    BY <1>1 DEF IInv, TypeOK, WorkerInv, Busy, Claims
  <1>3. Delivery!Deliver(held[w].job)
    <2>1. \A j \in Jobs : Outcome(j)' = Outcome(j)
      BY DEF Outcome
    <2> QED
      BY <1>1, <1>2, <2>1 DEF Delivery!Deliver
  <1> QED
    BY <1>1, <1>3 DEF Delivery!Next

(* Every step is a step of InvitationDelivery or leaves its variables      *)
(* unchanged.                                                              *)
LEMMA StepRefines ==
  ASSUME IInv, [Next]_vars
  PROVE  [Delivery!Next]_Delivery!deliveryVars
<1>1. ASSUME NEW j \in Jobs, CreateInvitation(j)
      PROVE  Delivery!Next
  <2>1. Outcome(j) = "none" /\ Outcome(j)' = "open"
    BY <1>1 DEF IInv, TypeOK, CreateInvitation, Outcome
  <2>2. \A i \in Jobs \ {j} : Outcome(i)' = Outcome(i)
    BY <1>1 DEF IInv, TypeOK, CreateInvitation, Outcome
  <2>3. UNCHANGED <<attempts, copies>>
    BY <1>1 DEF CreateInvitation
  <2>4. Delivery!Request(j)
    BY <2>1, <2>2, <2>3 DEF Delivery!Request
  <2> QED
    BY <2>4 DEF Delivery!Next
<1>2. ASSUME NEW j \in Jobs, RevokeInvitation(j)
      PROVE  [Delivery!Next]_Delivery!deliveryVars
  <2>1. \A i \in Jobs \ {j} : Outcome(i)' = Outcome(i)
    BY <1>2 DEF IInv, TypeOK, RevokeInvitation, CancelJob, ReleaseLease, Outcome
  <2>2. UNCHANGED <<attempts, copies>>
    BY <1>2 DEF RevokeInvitation
  <2>3. CASE status[j] \in {"pending", "processing"}
    <3>1. Outcome(j) = "open"
      BY <2>3 DEF Outcome
    <3>2. delivery_status[j] # "failed"
      BY <2>3 DEF IInv, JobInv
    <3>3. Outcome(j)' = "cancelled"
      BY <1>2, <2>3, <3>2 DEF IInv, TypeOK, RevokeInvitation, CancelJob, ReleaseLease, Outcome
    <3>4. Delivery!Settle(j)
      BY <2>1, <2>2, <3>1, <3>3, SettleRefines
    <3> QED
      BY <3>4 DEF Delivery!Next
  <2>4. CASE status[j] \notin {"pending", "processing"}
    BY <1>2, <2>2, <2>4, OutcomeFrame DEF RevokeInvitation, CancelJob, ReleaseLease, Outcome
  <2> QED
    BY <2>3, <2>4
<1>3. ASSUME NEW w \in Workers, NEW j \in Jobs, ClaimInvitationEmail(w, j)
      PROVE  Delivery!Next
  <2>1. Outcome(j) = "open"
    BY <1>3 DEF ClaimInvitationEmail, Claimable, Outcome
  <2>2. \A i \in Jobs : Outcome(i)' = Outcome(i)
    BY <1>3 DEF IInv, TypeOK, ClaimInvitationEmail, Claimable, Outcome
  <2>3. Delivery!Try(j)
    BY <1>3, <2>1, <2>2 DEF Delivery!Try, ClaimInvitationEmail
  <2> QED
    BY <2>3 DEF Delivery!Next
<1>4. ASSUME NEW w \in Workers, SendAccepted(w) \/ SendReplyLost(w)
      PROVE  Delivery!Next
  BY <1>4, DeliverRefines DEF SendAccepted, SendReplyLost
<1>5. ASSUME NEW w \in Workers, Complete(w) \/ deadLetter(w)
      PROVE  Delivery!Next
  <2> PICK j \in Jobs : j = held[w].job
    BY <1>5 DEF IInv, WorkerInv, Busy, Claims, Complete, deadLetter
  <2>1. /\ WorkerInv(w) /\ Busy(w)
        /\ status[j] = "processing" /\ attempts[j] = held[w].attempts
    BY <1>5 DEF IInv, JobInv, WorkerInv, Busy, Claims, Complete, deadLetter,
       HoldsLease, NoLease
  <2>2. Outcome(j) = "open"
    BY <2>1 DEF Outcome
  <2>3. \A i \in Jobs \ {j} : Outcome(i)' = Outcome(i)
    BY <1>5, <2>1
    DEF IInv, TypeOK, Complete, deadLetter, ReleaseLease, SetDelivery, Outcome
  <2>4. UNCHANGED <<attempts, copies>>
    BY <1>5 DEF Complete, deadLetter
  <2>5. CASE Complete(w)
    <3>1. copies[j] # {}
      BY <2>1, <2>5 DEF WorkerInv, Complete
    <3>2. Outcome(j)' = "delivered"
      BY <2>1, <2>5 DEF IInv, TypeOK, Complete, ReleaseLease, Outcome
    <3> QED
      BY <2>1, <2>2, <2>3, <2>4, <3>1, <3>2, SettleRefines DEF Delivery!Next
  <2>6. CASE deadLetter(w)
    <3>1. attempts[j] >= MaxAttempts
      BY <2>1, <2>6 DEF deadLetter, AttemptsExhausted
    <3>2. Outcome(j)' = "failed"
      BY <2>1, <2>6
      DEF IInv, TypeOK, deadLetter, ReleaseLease, SetDelivery, Outcome
    <3> QED
      BY <2>1, <2>2, <2>3, <2>4, <3>1, <3>2, SettleRefines DEF Delivery!Next
  <2> QED
    BY <1>5, <2>5, <2>6
<1>6. ASSUME NEW w \in Workers, Retry(w)
      PROVE  UNCHANGED Delivery!deliveryVars
  <2>1. held[w].job \in Jobs /\ status[held[w].job] = "processing"
    BY <1>6 DEF IInv, WorkerInv, Busy, Claims, Retry, HoldsLease
  <2>2. \A i \in Jobs : Outcome(i)' = Outcome(i)
    BY <1>6, <2>1 DEF IInv, TypeOK, Retry, ReleaseLease, SetDelivery, Outcome
  <2>3. UNCHANGED <<attempts, copies>>
    BY <1>6 DEF Retry
  <2> QED
    BY <2>2, <2>3, OutcomeFrame
<1>7. ASSUME UNCHANGED <<status, delivery_status, attempts, copies>>
      PROVE  UNCHANGED Delivery!deliveryVars
  BY <1>7, OutcomeFrame DEF Outcome
<1>8. ASSUME NEW j \in Jobs,
             AcceptInvitation(j) \/ BecomeAvailable(j) \/ BecomeStale(j) \/ Age(j)
      PROVE  UNCHANGED Delivery!deliveryVars
  BY <1>7, <1>8 DEF AcceptInvitation, BecomeAvailable, BecomeStale, Age,
     invitationVars
<1>9. ASSUME NEW w \in Workers,
             StartWorker(w) \/ CleanupAtStart(w) \/ PollTick(w) \/ DrainEnds(w)
               \/ SendFails(w) \/ LeaseLost(w) \/ CleanupTick(w) \/ Crash(w)
      PROVE  UNCHANGED Delivery!deliveryVars
  BY <1>7, <1>9 DEF StartWorker, CleanupAtStart, PollTick, DrainEnds, SendFails,
     LeaseLost, CleanupTick, Crash
<1>10. CASE UNCHANGED vars
  BY <1>7, <1>10 DEF vars
<1> QED
  BY <1>1, <1>2, <1>3, <1>4, <1>5, <1>6, <1>8, <1>9, <1>10 DEF Next, WorkerStep

(* Refinement: the outbox implements the at-least-once delivery of         *)
(* InvitationDelivery.                                                     *)
THEOREM Implements == Spec => ImplementsDelivery
  BY InitRefines, StepRefines, Invariant, PTL
  DEF Spec, ImplementsDelivery, Delivery!Spec
=============================================================================
