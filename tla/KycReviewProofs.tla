-------------------------- MODULE KycReviewProofs --------------------------
(***************************************************************************)
(* Proofs about KycReview, for any submissions, overrides, attempts and    *)
(* stalls: a tier is granted for an approval only, and duplicates come of  *)
(* requests that overlap.                                                  *)
(***************************************************************************)
EXTENDS KycReview, TLAPS

JobRow == [state : {"none", "waiting", "active", "done", "dead", "dropped"},
           made : 0..Attempts, stalls : 0..MaxStalls,
           step : {"none", "verify", "approved", "tier", "rejected", "return"}]
StatusType == {"none", "pending", "approved", "rejected"}
Places == {"new", "find", "save", "enqueue", "queued", "refused", "lost"}
Inserted == {"enqueue", "queued", "lost"}

(* What a job's record must agree with: the submission's status, its       *)
(* verdicts, and whether its tier was granted.                             *)
Agrees(j, st, vs, got) ==
    /\ j.state # "dead" => j.made < Attempts
    /\ j.step \in {"approved", "tier"} => "approved" \in vs
    /\ (j.state = "done" \/ j.step = "return") /\ st = "approved" => got

Reviewed ==
    \A r \in Submissions :
        /\ Agrees(job[r], status[r], verdicts[r], r \in granted)
        /\ job[r].state # "none" => request[r] = "queued"

Tiered == kycTier \in {0} \union Overrides \union {Target[r] : r \in granted}

GrantedApproved == \A r \in granted : "approved" \in verdicts[r]

(* What was pending when a request began was inserted before, and is not   *)
(* pending any more once the request is past its check.                    *)
Ordered ==
    \A r \in Submissions :
        /\ status[r] = "none" \/ request[r] \in Inserted
        /\ \A s \in before[r] :
              /\ request[s] \in Inserted /\ Target[s] = Target[r]
              /\ request[r] \in Inserted \union {"save"} => status[s] # "pending"

KInv == TypeOK /\ Reviewed /\ Tiered /\ GrantedApproved /\ Ordered

LEMMA Typed ==
    TypeOK <=> /\ kycTier \in Tiers
               /\ request \in [Submissions -> Places]
               /\ status \in [Submissions -> StatusType]
               /\ job \in [Submissions -> JobRow]
               /\ before \in [Submissions -> SUBSET Submissions]
               /\ verdicts \in [Submissions -> SUBSET {"approved", "rejected"}]
               /\ granted \subseteq Submissions
BY DEF TypeOK, Places, StatusType, JobRow

LEMMA InitInv == Init => KInv
<1> SUFFICES ASSUME Init PROVE KInv
  OBVIOUS
<1>1. TypeOK
  BY KycAssumption DEF Init, TypeOK, NoJob, Tiers
<1>2. Reviewed
  BY KycAssumption DEF Init, Reviewed, Agrees, NoJob
<1>3. Tiered /\ GrantedApproved /\ Ordered
  BY DEF Init, Tiered, GrantedApproved, Ordered
<1> QED
  BY <1>1, <1>2, <1>3 DEF KInv

-----------------------------------------------------------------------------
(* The HTTP request moves on, with the job or the status only inserted.    *)
LEMMA RequestStep ==
    ASSUME KInv, NEW r \in Submissions, SubmitStep(r)
    PROVE  KInv'
<1>1. /\ kycTier \in Tiers /\ request \in [Submissions -> Places]
      /\ status \in [Submissions -> StatusType] /\ job \in [Submissions -> JobRow]
      /\ before \in [Submissions -> SUBSET Submissions]
      /\ verdicts \in [Submissions -> SUBSET {"approved", "rejected"}]
      /\ granted \subseteq Submissions
  BY Typed DEF KInv
<1>2. CASE ReadUser(r)
  <2> DEFINE place == IF kycTier >= Target[r] THEN "refused" ELSE "find"
  <2>1. /\ request[r] = "new" /\ place \in {"refused", "find"}
        /\ request' = [request EXCEPT ![r] = place]
        /\ before' = [before EXCEPT ![r] = Pending(Target[r])]
        /\ UNCHANGED <<kycTier, status, job, verdicts, granted>>
    BY <1>2 DEF ReadUser, Goes
  <2> HIDE DEF place
  <2>2. \A s \in Submissions : request'[s] = IF s = r THEN place ELSE request[s]
    BY <1>1, <2>1
  <2>3. TypeOK'
    BY <1>1, <2>1, Typed DEF TypeOK, Places, Pending
  <2>4. Reviewed' /\ Tiered' /\ GrantedApproved'
    BY <2>1, <2>2 DEF KInv, Reviewed, Tiered, GrantedApproved
  <2>5. Ordered'
    BY <1>1, <2>1, <2>2 DEF KInv, Ordered, Pending, Inserted
  <2> QED
    BY <2>3, <2>4, <2>5 DEF KInv
<1>3. CASE FindPending(r)
  <2> DEFINE place == IF Pending(Target[r]) # {} THEN "refused" ELSE "save"
  <2>1. /\ request[r] = "find" /\ place \in {"refused", "save"}
        /\ place = "save" => Pending(Target[r]) = {}
        /\ request' = [request EXCEPT ![r] = place]
        /\ UNCHANGED <<kycTier, status, job, before, verdicts, granted>>
    BY <1>3 DEF FindPending, Goes
  <2> HIDE DEF place
  <2>2. \A s \in Submissions : request'[s] = IF s = r THEN place ELSE request[s]
    BY <1>1, <2>1
  <2>3. TypeOK'
    BY <1>1, <2>1, Typed DEF TypeOK, Places
  <2>4. Reviewed' /\ Tiered' /\ GrantedApproved'
    BY <2>1, <2>2 DEF KInv, Reviewed, Tiered, GrantedApproved
  <2>5. Ordered'
    BY <1>1, <2>1, <2>2 DEF KInv, Ordered, Pending, Inserted
  <2> QED
    BY <2>3, <2>4, <2>5 DEF KInv
<1>4. CASE Save(r)
  <2>1. /\ request[r] = "save" /\ status' = [status EXCEPT ![r] = "pending"]
        /\ request' = [request EXCEPT ![r] = "enqueue"]
        /\ UNCHANGED <<kycTier, job, before, verdicts, granted>>
    BY <1>4 DEF Save, Goes
  <2>2. \A s \in Submissions :
          /\ request'[s] = IF s = r THEN "enqueue" ELSE request[s]
          /\ status'[s] = IF s = r THEN "pending" ELSE status[s]
    BY <1>1, <2>1
  <2>3. TypeOK'
    BY <1>1, <2>1, Typed DEF TypeOK, Places, StatusType
  <2>4. Reviewed' /\ Tiered' /\ GrantedApproved'
    BY <2>1, <2>2 DEF KInv, Reviewed, Agrees, Tiered, GrantedApproved
  <2>5. Ordered'
    BY <1>1, <2>1, <2>2 DEF KInv, Ordered, Inserted
  <2> QED
    BY <2>3, <2>4, <2>5 DEF KInv
<1>5. CASE Enqueue(r) \/ EnqueueFails(r)
  <2> DEFINE j == IF Enqueue(r) THEN [job[r] EXCEPT !.state = "waiting"] ELSE job[r]
             place == IF Enqueue(r) THEN "queued" ELSE "lost"
  <2>1. /\ request[r] = "enqueue" /\ request' = [request EXCEPT ![r] = place]
        /\ job' = [job EXCEPT ![r] = j]
        /\ UNCHANGED <<kycTier, status, before, verdicts, granted>>
    BY <1>1, <1>5 DEF Enqueue, EnqueueFails, Goes
  <2>2. job[r].state = "none"
    BY <2>1 DEF KInv, Reviewed
  <2>3. /\ j \in JobRow /\ j.step = job[r].step /\ j.made = job[r].made
        /\ j.state \in {"none", "waiting"} /\ (j.state # "none" => place = "queued")
        /\ place \in {"queued", "lost"}
    BY <1>1, <2>2 DEF JobRow
  <2> HIDE DEF j, place
  <2>4. \A s \in Submissions :
          /\ request'[s] = IF s = r THEN place ELSE request[s]
          /\ job'[s] = IF s = r THEN j ELSE job[s]
    BY <1>1, <2>1
  <2>5. TypeOK'
    <3>1. job' \in [Submissions -> JobRow] /\ request' \in [Submissions -> Places]
      BY <1>1, <2>1, <2>3 DEF Places
    <3> QED
      BY <1>1, <2>1, <3>1 DEF TypeOK, Places, StatusType, JobRow
  <2>6. Reviewed' /\ Tiered' /\ GrantedApproved'
    BY <2>1, <2>2, <2>3, <2>4 DEF KInv, Reviewed, Agrees, Tiered, GrantedApproved
  <2>7. Ordered'
    BY <1>1, <2>1, <2>3, <2>4 DEF KInv, Ordered, Inserted
  <2> QED
    BY <2>5, <2>6, <2>7 DEF KInv
<1> QED
  BY <1>2, <1>3, <1>4, <1>5 DEF SubmitStep

-----------------------------------------------------------------------------
(* What a step of a job's handler must see to.                             *)
LEMMA JobChange ==
    ASSUME KInv, NEW r \in Submissions, NEW j \in JobRow, NEW st,
           NEW vs \in SUBSET {"approved", "rejected"},
           job[r].state # "none",
           job' = [job EXCEPT ![r] = j],
           status' = [status EXCEPT ![r] = st],
           st \in {status[r], "approved", "rejected"},
           verdicts' = [verdicts EXCEPT ![r] = vs], verdicts[r] \subseteq vs,
           granted' \in {granted, granted \union {r}},
           kycTier' = kycTier \/ (r \in granted' /\ kycTier' = Target[r]),
           UNCHANGED <<request, before>>,
           r \in granted' => "approved" \in vs,
           Agrees(j, st, vs, r \in granted')
    PROVE  KInv'
<1>1. /\ kycTier \in Tiers /\ request \in [Submissions -> Places]
      /\ status \in [Submissions -> StatusType] /\ job \in [Submissions -> JobRow]
      /\ before \in [Submissions -> SUBSET Submissions]
      /\ verdicts \in [Submissions -> SUBSET {"approved", "rejected"}]
      /\ granted \subseteq Submissions
  BY Typed DEF KInv
<1>2. /\ st \in StatusType /\ Target[r] \in Tiers
  BY <1>1, KycAssumption DEF StatusType, Tiers
<1>3. \A s \in Submissions :
        /\ job'[s] = IF s = r THEN j ELSE job[s]
        /\ status'[s] = IF s = r THEN st ELSE status[s]
        /\ verdicts'[s] = IF s = r THEN vs ELSE verdicts[s]
        /\ s # r => (s \in granted' <=> s \in granted)
  BY <1>1
<1>4. TypeOK'
  <2>1. /\ status' \in [Submissions -> StatusType] /\ job' \in [Submissions -> JobRow]
        /\ verdicts' \in [Submissions -> SUBSET {"approved", "rejected"}]
        /\ granted' \subseteq Submissions /\ kycTier' \in Tiers
    BY <1>1, <1>2
  <2> QED
    BY <1>1, <2>1 DEF TypeOK, Places, StatusType, JobRow
<1>5. request[r] = "queued"
  BY DEF KInv, Reviewed
<1>6. Reviewed'
  <2>1. ASSUME NEW s \in Submissions
        PROVE  /\ Agrees(job'[s], status'[s], verdicts'[s], s \in granted')
               /\ job'[s].state # "none" => request'[s] = "queued"
    <3>1. CASE s = r
      BY <1>3, <1>5, <3>1 DEF Agrees
    <3>2. CASE s # r
      BY <1>3, <3>2 DEF KInv, Reviewed, Agrees
    <3> QED
      BY <3>1, <3>2
  <2> QED
    BY <2>1 DEF Reviewed
<1>7. Tiered'
  BY DEF KInv, Tiered
<1>8. GrantedApproved'
  BY <1>1, <1>3 DEF KInv, GrantedApproved
<1>9. Ordered'
  <2>1. \A s \in Submissions : status'[s] = "pending" => status[s] = "pending"
    BY <1>3
  <2>2. \A s \in Submissions : status'[s] = "none" \/ request[s] \in Inserted
    BY <1>3, <1>5 DEF KInv, Ordered, Inserted
  <2> QED
    BY <1>1, <2>1, <2>2 DEF KInv, Ordered
<1> QED
  BY <1>4, <1>6, <1>7, <1>8, <1>9 DEF KInv

LEMMA JobTyped ==
    ASSUME KInv, NEW r \in Submissions
    PROVE  /\ job[r] \in JobRow
           /\ status = [status EXCEPT ![r] = status[r]]
           /\ verdicts[r] \in SUBSET {"approved", "rejected"}
           /\ verdicts = [verdicts EXCEPT ![r] = verdicts[r]]
           /\ r \in granted => "approved" \in verdicts[r]
           /\ Agrees(job[r], status[r], verdicts[r], r \in granted)
           /\ Attempts \in Nat \ {0} /\ MaxStalls \in Nat
BY Typed, KycAssumption DEF KInv, GrantedApproved, Reviewed

(* It leaves the worker, or stays there: nothing but its record changes.   *)
LEMMA RecordChange ==
    ASSUME KInv, NEW r \in Submissions, NEW j \in JobRow,
           job[r].state # "none",
           job' = [job EXCEPT ![r] = j],
           UNCHANGED <<kycTier, request, status, before, verdicts, granted>>,
           j.state # "dead" => j.made < Attempts,
           j.step \notin {"approved", "tier", "return"},
           j.state = "done" => job[r].step = "return"
    PROVE  KInv'
<1>1. Agrees(j, status[r], verdicts[r], r \in granted)
  BY JobTyped DEF Agrees
<1> QED
  BY <1>1, JobTyped, JobChange

LEMMA LeaveIs ==
    ASSUME KInv, NEW r \in Submissions, NEW state \in {"waiting", "done", "dead", "dropped"}
    PROVE  /\ Leave(r, state) \in JobRow
           /\ Leave(r, state).state = state /\ Leave(r, state).step = "none"
           /\ Leave(r, state).made = job[r].made
           /\ Leave(r, state).stalls = job[r].stalls
BY JobTyped DEF JobRow, Leave

LEMMA LeavingSteps ==
    ASSUME KInv, NEW r \in Submissions, Completes(r) \/ Throws(r) \/ Stalls(r)
    PROVE  KInv'
<1>1. /\ job[r].state = "active" /\ job[r].made \in 0..Attempts /\ job[r].made < Attempts
      /\ job[r].stalls \in 0..MaxStalls /\ Attempts \in Nat /\ MaxStalls \in Nat
      /\ UNCHANGED <<kycTier, request, status, before, verdicts, granted>>
  BY JobTyped DEF Completes, Throws, Stalls, At, JobRow, Agrees
<1>2. CASE Completes(r)
  <2> DEFINE j == Leave(r, "done")
  <2>1. job' = [job EXCEPT ![r] = j] /\ job[r].step = "return"
    BY <1>2 DEF Completes, Return, At
  <2>2. j \in JobRow /\ j.state = "done" /\ j.step = "none" /\ j.made = job[r].made
    BY LeaveIs
  <2> HIDE DEF j
  <2> QED
    BY <1>1, <2>1, <2>2, RecordChange
<1>3. CASE Throws(r)
  <2> DEFINE made == job[r].made + 1
             state == IF made < Attempts THEN "waiting" ELSE "dead"
             l == Leave(r, state)
             j == [l EXCEPT !.made = made]
  <2>1. job' = [job EXCEPT ![r] = j]
    BY <1>3 DEF Throws
  <2>2. /\ made \in 0..Attempts /\ state \in {"waiting", "dead"}
        /\ state # "dead" => made < Attempts
    BY <1>1
  <2> HIDE DEF made, state
  <2>3. l \in JobRow /\ l.state = state /\ l.step = "none"
    BY <2>2, LeaveIs
  <2> HIDE DEF l
  <2>4. j \in JobRow /\ j.state = state /\ j.step = "none" /\ j.made = made
    BY <2>2, <2>3 DEF JobRow
  <2> HIDE DEF j
  <2> QED
    BY <1>1, <2>1, <2>2, <2>4, RecordChange
<1>4. CASE Stalls(r) /\ job[r].stalls < MaxStalls
  <2> DEFINE l == Leave(r, "waiting")
             stalls == l.stalls + 1
             j == [l EXCEPT !.stalls = stalls]
  <2>1. job' = [job EXCEPT ![r] = j]
    BY <1>4 DEF Stalls
  <2>2. /\ l \in JobRow /\ l.state = "waiting" /\ l.step = "none"
        /\ l.made = job[r].made /\ l.stalls = job[r].stalls
    BY LeaveIs
  <2> HIDE DEF l
  <2>3. stalls \in 0..MaxStalls
    BY <1>1, <1>4, <2>2
  <2> HIDE DEF stalls
  <2>4. /\ j \in JobRow /\ j.state = "waiting" /\ j.step = "none"
        /\ j.made = job[r].made
    BY <2>2, <2>3 DEF JobRow
  <2> HIDE DEF j
  <2> QED
    BY <1>1, <2>1, <2>4, RecordChange
<1>5. CASE Stalls(r) /\ ~(job[r].stalls < MaxStalls)
  <2> DEFINE j == Leave(r, "dropped")
  <2>1. job' = [job EXCEPT ![r] = j]
    BY <1>5 DEF Stalls
  <2>2. j \in JobRow /\ j.state = "dropped" /\ j.step = "none" /\ j.made = job[r].made
    BY LeaveIs
  <2> HIDE DEF j
  <2> QED
    BY <1>1, <2>1, <2>2, RecordChange
<1> QED
  BY <1>2, <1>3, <1>4, <1>5

LEMMA HandlerSteps ==
    ASSUME KInv, NEW r \in Submissions,
           \/ TakeJob(r)
           \/ \E verdict \in {"approved", "rejected"} : Verify(r, verdict)
           \/ Approve(r) \/ SetTier(r) \/ Reject(r)
    PROVE  KInv'
<1>0. ASSUME NEW step \in {"approved", "tier", "rejected", "return"},
             job[r].state = "active"
      PROVE  LET j == [job[r] EXCEPT !.step = step]
             IN  /\ j \in JobRow /\ j.state = "active" /\ j.step = step
                 /\ j.made < Attempts
  BY <1>0, JobTyped DEF JobRow, Agrees
<1>1. CASE TakeJob(r)
  <2> DEFINE j == [job[r] EXCEPT !.state = "active", !.step = "verify"]
  <2>1. /\ job' = [job EXCEPT ![r] = j] /\ job[r].state = "waiting"
        /\ UNCHANGED <<kycTier, request, status, before, verdicts, granted>>
    BY <1>1 DEF TakeJob
  <2>2. /\ j \in JobRow /\ j.state = "active" /\ j.step = "verify"
        /\ j.made < Attempts
    BY <2>1, JobTyped DEF JobRow, Agrees
  <2> HIDE DEF j
  <2> QED
    BY <2>1, <2>2, RecordChange
<1>2. ASSUME NEW verdict \in {"approved", "rejected"}, Verify(r, verdict)
      PROVE  KInv'
  <2> DEFINE j == [job[r] EXCEPT !.step = verdict]
             vs == verdicts[r] \union {verdict}
  <2>1. /\ job' = [job EXCEPT ![r] = j] /\ job[r].state = "active"
        /\ verdicts' = [verdicts EXCEPT ![r] = vs]
        /\ UNCHANGED <<kycTier, request, status, before, granted>>
    BY <1>2 DEF Verify, Moves, At
  <2>2. j \in JobRow /\ j.state = "active" /\ j.step = verdict /\ j.made < Attempts
    BY <1>0, <2>1
  <2>3. /\ vs \in SUBSET {"approved", "rejected"} /\ verdicts[r] \subseteq vs
        /\ verdict \in vs
    BY JobTyped
  <2> HIDE DEF j, vs
  <2>4. Agrees(j, status[r], vs, r \in granted) /\ (r \in granted => "approved" \in vs)
    BY <2>2, <2>3, JobTyped DEF Agrees
  <2> QED
    BY <2>1, <2>2, <2>3, <2>4, JobTyped, JobChange
<1>3. CASE Approve(r)
  <2> DEFINE j == [job[r] EXCEPT !.step = "tier"]
  <2>1. /\ job' = [job EXCEPT ![r] = j] /\ job[r].state = "active"
        /\ job[r].step = "approved" /\ status' = [status EXCEPT ![r] = "approved"]
        /\ UNCHANGED <<kycTier, request, before, verdicts, granted>>
    BY <1>3 DEF Approve, Moves, At
  <2>2. j \in JobRow /\ j.state = "active" /\ j.step = "tier" /\ j.made < Attempts
    BY <1>0, <2>1
  <2> HIDE DEF j
  <2>3. Agrees(j, "approved", verdicts[r], r \in granted)
    BY <2>1, <2>2, JobTyped DEF Agrees
  <2> QED
    BY <2>1, <2>2, <2>3, JobTyped, JobChange
<1>4. CASE SetTier(r)
  <2> DEFINE j == [job[r] EXCEPT !.step = "return"]
  <2>1. /\ job' = [job EXCEPT ![r] = j] /\ job[r].state = "active"
        /\ job[r].step = "tier" /\ kycTier' = Target[r] /\ granted' = granted \union {r}
        /\ UNCHANGED <<request, status, before, verdicts>>
    BY <1>4 DEF SetTier, Moves, At
  <2>2. j \in JobRow /\ j.state = "active" /\ j.step = "return" /\ j.made < Attempts
    BY <1>0, <2>1
  <2> HIDE DEF j
  <2>3. "approved" \in verdicts[r]
    BY <2>1, JobTyped DEF Agrees
  <2>4. Agrees(j, status[r], verdicts[r], r \in granted')
    BY <2>1, <2>2 DEF Agrees
  <2> QED
    BY <2>1, <2>2, <2>3, <2>4, JobTyped, JobChange
<1>5. CASE Reject(r)
  <2> DEFINE j == [job[r] EXCEPT !.step = "return"]
  <2>1. /\ job' = [job EXCEPT ![r] = j] /\ job[r].state = "active"
        /\ status' = [status EXCEPT ![r] = "rejected"]
        /\ UNCHANGED <<kycTier, request, before, verdicts, granted>>
    BY <1>5 DEF Reject, Moves, At
  <2>2. j \in JobRow /\ j.state = "active" /\ j.step = "return" /\ j.made < Attempts
    BY <1>0, <2>1
  <2> HIDE DEF j
  <2>3. Agrees(j, "rejected", verdicts[r], r \in granted)
    BY <2>2 DEF Agrees
  <2> QED
    BY <2>1, <2>2, <2>3, JobTyped, JobChange
<1> QED
  BY <1>1, <1>2, <1>3, <1>4, <1>5

LEMMA NextInv == KInv /\ [Next]_vars => KInv'
<1> SUFFICES ASSUME KInv, [Next]_vars PROVE KInv'
  OBVIOUS
<1>1. CASE UNCHANGED vars
  BY <1>1 DEF vars, KInv, TypeOK, Reviewed, Tiered, GrantedApproved, Ordered
<1>2. ASSUME NEW tier \in Overrides, OverrideKycTier(tier)
      PROVE  KInv'
  <2>1. kycTier' = tier /\ UNCHANGED <<request, status, job, before, verdicts, granted>>
    BY <1>2 DEF OverrideKycTier
  <2>2. TypeOK' /\ Tiered'
    BY <2>1, KycAssumption DEF KInv, TypeOK, Tiered
  <2> QED
    BY <2>1, <2>2 DEF KInv, Reviewed, GrantedApproved, Ordered
<1>3. CASE Next
  BY <1>2, <1>3, RequestStep, LeavingSteps, HandlerSteps DEF Next, JobStep
<1> QED
  BY <1>1, <1>3

THEOREM Invariance == Spec => []KInv
BY InitInv, NextInv, PTL DEF Spec

-----------------------------------------------------------------------------
(* The variables keep their types.                                         *)
THEOREM ReviewsTyped == Spec => []TypeOK
BY Invariance, PTL DEF KInv

LEMMA DuplicatesFollow == KInv => DuplicatesNeedOverlap
BY DEF KInv, Ordered, DuplicatesNeedOverlap

(* Of two submissions pending for one tier, neither request had begun      *)
(* after the other was saved.                                              *)
THEOREM OnlyOverlapDuplicates == Spec => []DuplicatesNeedOverlap
BY Invariance, DuplicatesFollow, PTL

-----------------------------------------------------------------------------
(* A job gets past its first update only by making it, and once it is done *)
(* nothing writes the submission: the request saved it before it queued.   *)
Checked(r) ==
    /\ job[r].state # "active" => job[r].step = "none"
    /\ job[r].state = "done" \/ job[r].step \in {"tier", "return"} =>
          status[r] \in {"approved", "rejected"}

AllChecked == \A r \in Submissions : Checked(r)

LEMMA InitChecked == Init => AllChecked
BY DEF Init, NoJob, AllChecked, Checked

LEMMA RequestChecked ==
    ASSUME KInv, AllChecked, NEW r \in Submissions, SubmitStep(r)
    PROVE  AllChecked'
<1>1. /\ request \in [Submissions -> Places] /\ status \in [Submissions -> StatusType]
      /\ job \in [Submissions -> JobRow]
  BY Typed DEF KInv
<1>2. CASE UNCHANGED <<status, job>>
  BY <1>2 DEF AllChecked, Checked
<1>3. CASE Save(r)
  <2>1. request[r] = "save" /\ status' = [status EXCEPT ![r] = "pending"] /\ job' = job
    BY <1>3 DEF Save
  <2>2. job[r].state = "none"
    BY <2>1 DEF KInv, Reviewed
  <2>3. \A q \in Submissions : status'[q] = IF q = r THEN "pending" ELSE status[q]
    BY <1>1, <2>1
  <2> QED
    BY <2>1, <2>2, <2>3 DEF AllChecked, Checked
<1>4. CASE Enqueue(r)
  <2>1. /\ request[r] = "enqueue" /\ status' = status
        /\ job' = [job EXCEPT ![r] = [job[r] EXCEPT !.state = "waiting"]]
    BY <1>1, <1>4 DEF Enqueue
  <2>2. job[r].state = "none" /\ job[r] \in JobRow
    BY <1>1, <2>1 DEF KInv, Reviewed
  <2>3. job[r].step = "none"
    BY <2>2 DEF AllChecked, Checked
  <2>4. \A q \in Submissions :
          job'[q] = IF q = r THEN [job[r] EXCEPT !.state = "waiting"] ELSE job[q]
    BY <1>1, <2>1
  <2>5. job'[r].state = "waiting" /\ job'[r].step = "none"
    BY <2>2, <2>3, <2>4 DEF JobRow
  <2> QED
    BY <2>1, <2>4, <2>5 DEF AllChecked, Checked
<1> QED
  BY <1>2, <1>3, <1>4 DEF SubmitStep, ReadUser, FindPending, EnqueueFails

LEMMA JobChecked ==
    ASSUME KInv, AllChecked, NEW r \in Submissions, JobStep(r)
    PROVE  AllChecked'
<1>1. status \in [Submissions -> StatusType] /\ job \in [Submissions -> JobRow]
  BY Typed DEF KInv
<1>2. job[r] \in JobRow
  BY <1>1
<1>3. job[r] = [state |-> job[r].state, made |-> job[r].made,
                stalls |-> job[r].stalls, step |-> job[r].step]
  BY <1>2 DEF JobRow
<1>4. \E j, st : /\ job' = [job EXCEPT ![r] = j]
                 /\ status' = [status EXCEPT ![r] = st]
                 /\ j.state # "active" => j.step = "none"
                 /\ j.state = "done" \/ j.step \in {"tier", "return"} =>
                       st \in {"approved", "rejected"}
  <2>1. status = [status EXCEPT ![r] = status[r]]
    BY <1>1
  <2>2. CASE TakeJob(r)
    <3> DEFINE j == [job[r] EXCEPT !.state = "active", !.step = "verify"]
    <3>1. job' = [job EXCEPT ![r] = j] /\ status' = status
      BY <1>1, <2>2 DEF TakeJob
    <3>2. j.state = "active" /\ j.step = "verify"
      BY <1>3
    <3> HIDE DEF j
    <3> QED
      BY <2>1, <3>1, <3>2
  <2>3. CASE \E verdict \in {"approved", "rejected"} : Verify(r, verdict)
    <3>1. PICK verdict \in {"approved", "rejected"} : Verify(r, verdict)
      BY <2>3
    <3> DEFINE j == [job[r] EXCEPT !.step = verdict]
    <3>2. job' = [job EXCEPT ![r] = j] /\ status' = status /\ job[r].state = "active"
      BY <1>1, <3>1 DEF Verify, At, Moves
    <3>3. j.state = "active" /\ j.step = verdict
      BY <1>3, <3>2
    <3> HIDE DEF j
    <3> QED
      BY <2>1, <3>2, <3>3
  <2>4. CASE Approve(r)
    <3> DEFINE j == [job[r] EXCEPT !.step = "tier"]
    <3>1. /\ job' = [job EXCEPT ![r] = j] /\ job[r].state = "active"
          /\ status' = [status EXCEPT ![r] = "approved"]
      BY <1>1, <2>4 DEF Approve, At, Moves
    <3>2. j.state = "active" /\ j.step = "tier"
      BY <1>3, <3>1
    <3> HIDE DEF j
    <3> QED
      BY <3>1, <3>2
  <2>5. CASE SetTier(r)
    <3> DEFINE j == [job[r] EXCEPT !.step = "return"]
    <3>1. /\ job' = [job EXCEPT ![r] = j] /\ status' = status
          /\ job[r].state = "active" /\ job[r].step = "tier"
      BY <1>1, <2>5 DEF SetTier, At, Moves
    <3>2. j.state = "active" /\ j.step = "return"
      BY <1>3, <3>1
    <3>3. status[r] \in {"approved", "rejected"}
      BY <3>1 DEF AllChecked, Checked
    <3> HIDE DEF j
    <3> QED
      BY <2>1, <3>1, <3>2, <3>3
  <2>6. CASE Reject(r)
    <3> DEFINE j == [job[r] EXCEPT !.step = "return"]
    <3>1. /\ job' = [job EXCEPT ![r] = j] /\ job[r].state = "active"
          /\ status' = [status EXCEPT ![r] = "rejected"]
      BY <1>1, <2>6 DEF Reject, At, Moves
    <3>2. j.state = "active" /\ j.step = "return"
      BY <1>3, <3>1
    <3> HIDE DEF j
    <3> QED
      BY <3>1, <3>2
  <2>7. CASE Completes(r)
    <3> DEFINE j == Leave(r, "done")
    <3>1. job' = [job EXCEPT ![r] = j] /\ status' = status /\ job[r].step = "return"
      BY <2>7 DEF Completes, At, Return
    <3>2. j.state = "done" /\ j.step = "none"
      BY <1>3 DEF Leave
    <3>3. status[r] \in {"approved", "rejected"}
      BY <3>1 DEF AllChecked, Checked
    <3> HIDE DEF j
    <3> QED
      BY <2>1, <3>1, <3>2, <3>3
  <2>8. CASE Throws(r)
    <3> DEFINE made == job[r].made + 1
               next == IF made < Attempts THEN "waiting" ELSE "dead"
               j == [Leave(r, next) EXCEPT !.made = made]
    <3>1. job' = [job EXCEPT ![r] = j] /\ status' = status
      BY <2>8 DEF Throws
    <3>2. j.state = next /\ j.step = "none"
      BY <1>3 DEF Leave
    <3>3. next \in {"waiting", "dead"}
      OBVIOUS
    <3> HIDE DEF next, j
    <3> QED
      BY <2>1, <3>1, <3>2, <3>3
  <2>9. CASE Stalls(r)
    <3> DEFINE j == IF job[r].stalls < MaxStalls
                    THEN [Leave(r, "waiting") EXCEPT !.stalls = @ + 1]
                    ELSE Leave(r, "dropped")
    <3>1. job' = [job EXCEPT ![r] = j] /\ status' = status
      BY <2>9 DEF Stalls
    <3>2. j.state \in {"waiting", "dropped"} /\ j.step = "none"
      BY <1>3 DEF Leave
    <3> HIDE DEF j
    <3> QED
      BY <2>1, <3>1, <3>2
  <2> QED
    BY <2>2, <2>3, <2>4, <2>5, <2>6, <2>7, <2>8, <2>9 DEF JobStep
<1>5. PICK j, st :
        /\ job' = [job EXCEPT ![r] = j] /\ status' = [status EXCEPT ![r] = st]
        /\ j.state # "active" => j.step = "none"
        /\ j.state = "done" \/ j.step \in {"tier", "return"} =>
              st \in {"approved", "rejected"}
  BY <1>4
<1>6. \A q \in Submissions : /\ job'[q] = IF q = r THEN j ELSE job[q]
                            /\ status'[q] = IF q = r THEN st ELSE status[q]
  BY <1>1, <1>5
<1> QED
  BY <1>5, <1>6 DEF AllChecked, Checked

LEMMA NextChecked == KInv /\ AllChecked /\ [Next]_vars => AllChecked'
<1> SUFFICES ASSUME KInv, AllChecked, [Next]_vars PROVE AllChecked'
  OBVIOUS
<1>1. CASE \E r \in Submissions : SubmitStep(r) \/ JobStep(r)
  BY <1>1, RequestChecked, JobChecked
<1>2. CASE \E tier \in Overrides : OverrideKycTier(tier)
  BY <1>2 DEF OverrideKycTier, AllChecked, Checked
<1>3. CASE UNCHANGED vars
  BY <1>3 DEF vars, AllChecked, Checked
<1> QED
  BY <1>1, <1>2, <1>3 DEF Next

LEMMA GrantsFollow == KInv /\ AllChecked => GrantsMatchVerdicts
BY DEF KInv, GrantedApproved, Tiered, Reviewed, Agrees, AllChecked, Checked,
       GrantsMatchVerdicts

(* However jobs are retried, stalled and answered, a tier is granted for   *)
(* an approval only; and what the queue reports as done has a verdict in   *)
(* its submission, with its tier if that is an approval.                   *)
THEOREM GrantsAreApproved == Spec => []GrantsMatchVerdicts
<1>1. Spec => []AllChecked
  BY InitChecked, NextChecked, Invariance, PTL DEF Spec
<1> QED
  BY <1>1, Invariance, GrantsFollow, PTL
=============================================================================
