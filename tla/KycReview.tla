----------------------------- MODULE KycReview -----------------------------
(***************************************************************************)
(* KycService and KycProcessor: the submissions of one user, from the      *)
(* HTTP request through the queue 'kyc' to the tier of the user.  Requests *)
(* check and insert in separate statements without a lock; the job writes  *)
(* the status of the submission and then the tier of the user, again in    *)
(* separate statements, and asks the provider anew whenever it is retried. *)
(***************************************************************************)
EXTENDS Integers, FiniteSets

CONSTANTS
    Submissions,   \* requests of the user; each inserts at most one row
    Target,        \* Target[r]: dto.targetTier
    Overrides,     \* tiers an administrator may set by overrideKycTier
    Attempts,      \* `attempts: 3` of queue.add
    MaxStalls      \* Bull's maxStalledCount, 1 by default

Tiers == 0..3

ASSUME KycAssumption ==
    /\ Target \in [Submissions -> 1..3]
    /\ Overrides \subseteq Tiers
    /\ Attempts \in Nat \ {0} /\ MaxStalls \in Nat

VARIABLES
    kycTier,    \* the user's column
    request,    \* request[r]: where submitKyc is
    status,     \* status[r]: the submission's column, "none" without a row
    job,        \* job[r]: the queue's job and its handler's place
    \* history:
    before,     \* before[r]: the submissions that were pending when r began
    verdicts,   \* verdicts[r]: what the provider has said of it
    granted     \* submissions whose tier has been written to the user

vars == <<kycTier, request, status, job, before, verdicts, granted>>

NoJob == [state |-> "none", made |-> 0, stalls |-> 0, step |-> "none"]

Init ==
    /\ kycTier = 0
    /\ request = [r \in Submissions |-> "new"]
    /\ status = [r \in Submissions |-> "none"]
    /\ job = [r \in Submissions |-> NoJob]
    /\ before = [r \in Submissions |-> {}]
    /\ verdicts = [r \in Submissions |-> {}]
    /\ granted = {}

-----------------------------------------------------------------------------
Goes(r, place) == request' = [request EXCEPT ![r] = place]

Pending(tier) == {s \in Submissions : Target[s] = tier /\ status[s] = "pending"}

ReadUser(r) ==
    /\ request[r] = "new"
    /\ Goes(r, IF kycTier >= Target[r] THEN "refused" ELSE "find")
    /\ before' = [before EXCEPT ![r] = Pending(Target[r])]
    /\ UNCHANGED <<kycTier, status, job, verdicts, granted>>

(* Fault: only a submission that was approved stands in the way.           *)
FindApproved(r) ==
    /\ request[r] = "find"
    /\ Goes(r, IF \E s \in Submissions : Target[s] = Target[r] /\ status[s] = "approved"
               THEN "refused" ELSE "save")
    /\ UNCHANGED <<kycTier, status, job, before, verdicts, granted>>

FindPending(r) ==
    /\ request[r] = "find"
    /\ Goes(r, IF Pending(Target[r]) # {} THEN "refused" ELSE "save")
    /\ UNCHANGED <<kycTier, status, job, before, verdicts, granted>>

Save(r) ==
    /\ request[r] = "save"
    /\ status' = [status EXCEPT ![r] = "pending"]
    /\ Goes(r, "enqueue")
    /\ UNCHANGED <<kycTier, job, before, verdicts, granted>>

Enqueue(r) ==
    /\ request[r] = "enqueue"
    /\ Goes(r, "queued")
    /\ job' = [job EXCEPT ![r].state = "waiting"]
    /\ UNCHANGED <<kycTier, status, before, verdicts, granted>>

(* queue.add rejects, or the process dies before it.                       *)
EnqueueFails(r) ==
    /\ request[r] = "enqueue"
    /\ Goes(r, "lost")
    /\ UNCHANGED <<kycTier, status, job, before, verdicts, granted>>

-----------------------------------------------------------------------------
At(r, step) == job[r].state = "active" /\ job[r].step = step
Moves(r, step) == job' = [job EXCEPT ![r].step = step]
Leave(r, state) == [job[r] EXCEPT !.state = state, !.step = "none"]
Return(r) == job' = [job EXCEPT ![r] = Leave(r, "done")]

TakeJob(r) ==
    /\ job[r].state = "waiting"
    /\ job' = [job EXCEPT ![r].state = "active", ![r].step = "verify"]
    /\ UNCHANGED <<kycTier, request, status, before, verdicts, granted>>

(* The provider answers, at random; processResult finds the submission.    *)
Verify(r, verdict) ==
    /\ At(r, "verify")
    /\ verdicts' = [verdicts EXCEPT ![r] = @ \union {verdict}]
    /\ Moves(r, verdict)
    /\ UNCHANGED <<kycTier, request, status, before, granted>>

Approve(r) ==
    /\ At(r, "approved")
    /\ status' = [status EXCEPT ![r] = "approved"]
    /\ Moves(r, "tier")
    /\ UNCHANGED <<kycTier, request, before, verdicts, granted>>

(* The tier of the submission replaces the user's, whichever is higher.    *)
SetTier(r) ==
    /\ At(r, "tier")
    /\ kycTier' = Target[r]
    /\ granted' = granted \union {r}
    /\ Moves(r, "return")
    /\ UNCHANGED <<request, status, before, verdicts>>

Reject(r) ==
    /\ At(r, "rejected")
    /\ status' = [status EXCEPT ![r] = "rejected"]
    /\ Moves(r, "return")
    /\ UNCHANGED <<kycTier, request, before, verdicts, granted>>

Completes(r) ==
    /\ At(r, "return")
    /\ Return(r)
    /\ UNCHANGED <<kycTier, request, status, before, verdicts, granted>>

(* Fault: the handler swallows an error of its updates.                    *)
ThrowSwallowed(r) ==
    /\ job[r].state = "active" /\ job[r].step # "return"
    /\ Return(r)
    /\ UNCHANGED <<kycTier, request, status, before, verdicts, granted>>

(* A statement fails: Bull counts the attempt and retries or gives up; the *)
(* failed-listener only logs.                                              *)
Throws(r) ==
    LET made == job[r].made + 1
    IN  /\ job[r].state = "active" /\ job[r].step # "return"
        /\ job' = [job EXCEPT ![r] =
                     [Leave(r, IF made < Attempts THEN "waiting" ELSE "dead")
                        EXCEPT !.made = made]]
        /\ UNCHANGED <<kycTier, request, status, before, verdicts, granted>>

(* Fault: a stalled job is handed out again without end.                   *)
StallsForever(r) ==
    /\ job[r].state = "active"
    /\ job' = [job EXCEPT ![r] = Leave(r, "waiting")]
    /\ UNCHANGED <<kycTier, request, status, before, verdicts, granted>>

(* Fault: one stall too many.                                              *)
StallsOnceMore(r) ==
    /\ job[r].state = "active"
    /\ job' = [job EXCEPT ![r] = IF job[r].stalls <= MaxStalls
                                 THEN [Leave(r, "waiting") EXCEPT !.stalls = @ + 1]
                                 ELSE Leave(r, "dropped")]
    /\ UNCHANGED <<kycTier, request, status, before, verdicts, granted>>

(* The worker dies: Bull hands the job out again, at most MaxStalls times. *)
Stalls(r) ==
    /\ job[r].state = "active"
    /\ job' = [job EXCEPT ![r] = IF job[r].stalls < MaxStalls
                                 THEN [Leave(r, "waiting") EXCEPT !.stalls = @ + 1]
                                 ELSE Leave(r, "dropped")]
    /\ UNCHANGED <<kycTier, request, status, before, verdicts, granted>>

OverrideKycTier(tier) ==
    /\ kycTier # tier
    /\ kycTier' = tier
    /\ UNCHANGED <<request, status, job, before, verdicts, granted>>

SubmitStep(r) == ReadUser(r) \/ FindPending(r) \/ Save(r) \/ Enqueue(r) \/ EnqueueFails(r)

JobStep(r) ==
    \/ TakeJob(r)
    \/ \E verdict \in {"approved", "rejected"} : Verify(r, verdict)
    \/ Approve(r) \/ SetTier(r) \/ Reject(r) \/ Completes(r)
    \/ Throws(r) \/ Stalls(r)

Next ==
    \/ \E r \in Submissions : SubmitStep(r) \/ JobStep(r)
    \/ \E tier \in Overrides : OverrideKycTier(tier)

Spec == Init /\ [][Next]_vars

(* Bull serves every job, and hands a stalled one to another worker.       *)
FairSpec == Spec /\ \A r \in Submissions : WF_vars(JobStep(r))

-----------------------------------------------------------------------------
(* Every variable has its type.                                            *)
TypeOK ==
    /\ kycTier \in Tiers
    /\ request \in [Submissions ->
         {"new", "find", "save", "enqueue", "queued", "refused", "lost"}]
    /\ status \in [Submissions -> {"none", "pending", "approved", "rejected"}]
    /\ job \in [Submissions ->
         [state : {"none", "waiting", "active", "done", "dead", "dropped"},
          made : 0..Attempts, stalls : 0..MaxStalls,
          step : {"none", "verify", "approved", "tier", "rejected", "return"}]]
    /\ before \in [Submissions -> SUBSET Submissions]
    /\ verdicts \in [Submissions -> SUBSET {"approved", "rejected"}]
    /\ granted \subseteq Submissions

(* However often a job throws, stalls or is retried with another verdict:  *)
(* a tier was granted for an approval only; the user's tier is one that    *)
(* was granted or set by an administrator; and a job that is done leaves   *)
(* no submission pending, nor an approved one without its tier.            *)
GrantsMatchVerdicts ==
    /\ \A r \in granted : "approved" \in verdicts[r]
    /\ kycTier \in {0} \union Overrides \union {Target[r] : r \in granted}
    /\ \A r \in Submissions : job[r].state = "done" =>
          /\ status[r] \in {"approved", "rejected"}
          /\ status[r] = "approved" => r \in granted

(* Two submissions for one tier are pending together only when the second  *)
(* request had begun before the first was saved.                           *)
DuplicatesNeedOverlap ==
    \A r, s \in Submissions :
        status[r] = "pending" /\ status[s] = "pending" => s \notin before[r]

(* A queued submission leaves the queue, and unless its job was given up   *)
(* or dropped it has been reviewed by then.                                *)
QueuedIsReviewed ==
    \A r \in Submissions :
        job[r].state = "waiting" ~>
            \/ job[r].state \in {"dead", "dropped"}
            \/ job[r].state = "done" /\ status[r] \in {"approved", "rejected"}

(* kyc.service.ts:36: "A KYC submission for this tier is already pending": *)
(* no tier has two pending submissions.                                    *)
OnePendingPerTier == \A tier \in Tiers : Cardinality(Pending(tier)) <= 1

(* kyc.service.ts:30: "Already at KYC Tier": a submission can only raise   *)
(* the tier of the user.                                                   *)
ReviewsOnlyRaise ==
    [][\A r \in Submissions : SetTier(r) => kycTier' >= kycTier]_vars
=============================================================================
