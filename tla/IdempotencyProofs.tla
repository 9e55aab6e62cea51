------------------------- MODULE IdempotencyProofs -------------------------
(***************************************************************************)
(* Proofs about Idempotency, for any requests, keys, endpoints and times:  *)
(* the in-flight record is a lock, effects of one key are further apart    *)
(* than the promised time, and replays are exact.                          *)
(***************************************************************************)
EXTENDS Idempotency, TLAPS

Kept == [status : {"completed", "failed"}, endpoint : Endpoints,
         createdAt : 0..MaxTime, response : Answers]
Locked == [status : {"in-flight"}, endpoint : Endpoints, createdAt : 0..MaxTime]
Row == {NoRecord} \union Locked \union Kept

StepType == {"new", "insert", "run", "save", "fail", "throw", "over"}
ReplyType == {NoReply, Conflict} \union Answers

(* What the types say of a row and a reply.                                *)
LEMMA Rows ==
    ASSUME NEW r \in Row
    PROVE  /\ r.status \in {"none", "in-flight", "completed", "failed"}
           /\ r.status = "none" <=> r = NoRecord
           /\ r.status = "in-flight" => r \in Locked
           /\ r.status \in {"completed", "failed"} => r \in Kept
           /\ r.status # "none" => r.createdAt \in 0..MaxTime /\ r.endpoint \in Endpoints
BY DEF Row, NoRecord, Locked, Kept

LEMMA Replied ==
    /\ NoReply \notin Answers /\ Conflict \notin Answers /\ NoReply # Conflict
    /\ \A c \in Calls, outcome \in Outcomes :
          /\ Answer(outcome, c) \in Answers
          /\ Answer(outcome, c).kind = outcome /\ Answer(outcome, c).of = c
          /\ Answer(outcome, c) # NoReply
BY DEF NoReply, Conflict, Answers, Answer, Outcomes

LEMMA Typed ==
    TypeOK <=> /\ record \in [Keys -> Row]
               /\ step \in [Calls -> StepType]
               /\ reply \in [Calls -> ReplyType]
               /\ effects \subseteq [call : Calls, asked : 0..MaxTime]
               /\ clock \in 0..MaxTime
BY DEF TypeOK, Row, Locked, Kept, StepType, ReplyType

-----------------------------------------------------------------------------
(* An effect belongs to the record of its key, or to one deleted since.    *)
Dated ==
    \A e \in effects :
        LET r == record[KeyOf[e.call]]
        IN  /\ e.asked <= clock
            /\ r.status = "none" => clock - e.asked > KeepFor
            /\ r.status # "none" => r.createdAt = e.asked \/ r.createdAt - e.asked > KeepFor

(* No record is of the future.                                             *)
Past == \A k \in Keys : record[k].status # "none" => record[k].createdAt <= clock

(* A handler about to act is the first to act under its record.            *)
Unacted ==
    \A c \in Calls : step[c] = "run" =>
        \A e \in effects : KeyOf[e.call] = KeyOf[c] => e.asked # Key(c).createdAt

(* What a call that is not over has been told.                             *)
Told ==
    \A c \in Calls :
        /\ step[c] \notin {"save", "over"} => reply[c] = NoReply
        /\ step[c] = "save" => /\ reply[c] \in {NoReply, Answer("ok", c)}
                               /\ \E e \in effects : e.call = c

(* An answer that its call is not served any more to change.               *)
Final(a, steps, replies, acts) ==
    /\ steps[a.of] \in {"throw", "over"}
    /\ steps[a.of] = "throw" => a.kind = "error"
    /\ replies[a.of] \in {a, NoReply}
    /\ a.kind = "ok" => \E e \in acts : e.call = a.of

Stored ==
    \A k \in Keys : record[k].status \in {"completed", "failed"} =>
        LET a == record[k].response
        IN  /\ Final(a, step, reply, effects)
            /\ KeyOf[a.of] = k /\ EndpointOf[a.of] = record[k].endpoint

Replayed ==
    \A c \in Calls : reply[c] \in Answers /\ reply[c].of # c =>
        LET o == reply[c].of
        IN  /\ Final(reply[c], step, reply, effects)
            /\ KeyOf[o] = KeyOf[c] /\ EndpointOf[o] = EndpointOf[c]

Locks == TypeOK /\ OneExecution /\ Dated /\ Past /\ Unacted /\ EffectOncePerWindow

IInv == Locks /\ Told /\ Stored /\ Replayed

LEMMA InitInv == Init => IInv
<1> SUFFICES ASSUME Init PROVE IInv
  OBVIOUS
<1> USE IdempotencyAssumption DEF Init
<1>1. TypeOK
  BY Typed DEF Row, StepType, ReplyType
<1>2. OneExecution
  BY DEF OneExecution, Executing
<1>3. Dated /\ Past /\ Unacted /\ EffectOncePerWindow /\ Told
  BY DEF Dated, Past, Unacted, EffectOncePerWindow, Told, NoRecord
<1>4. Stored /\ Replayed
  BY Replied DEF Stored, Replayed, NoRecord
<1> QED
  BY <1>1, <1>2, <1>3, <1>4 DEF IInv, Locks

-----------------------------------------------------------------------------
(* The answers.                                                            *)
LEMMA AnswersStay ==
    ASSUME Locks, NEW c \in Calls, NEW s \in StepType, NEW r \in ReplyType,
           step' = [step EXCEPT ![c] = s], reply' = [reply EXCEPT ![c] = r],
           effects \subseteq effects', step[c] # "over",
           step[c] = "throw" => s = "over" /\ r \in {reply[c], Answer("error", c)},
           NEW a \in Answers, Final(a, step, reply, effects)
    PROVE  Final(a, step', reply', effects')
<1>1. /\ \A d \in Calls : /\ step'[d] = IF d = c THEN s ELSE step[d]
                          /\ reply'[d] = IF d = c THEN r ELSE reply[d]
      /\ a.of \in Calls
  BY Typed DEF Locks, Answers
<1>2. CASE a.of # c
  BY <1>1, <1>2 DEF Final
<1>3. CASE a.of = c
  <2>1. step[c] = "throw" /\ a.kind = "error" /\ reply[c] \in {a, NoReply}
    BY <1>3 DEF Final
  <2>2. Answer("error", c) = a
    BY <1>3, <2>1 DEF Answer, Answers
  <2> QED
    BY <1>1, <1>3, <2>1, <2>2 DEF Final
<1> QED
  BY <1>2, <1>3

(* What a step of one call must see to.                                    *)
LEMMA CallStep ==
    ASSUME IInv, NEW c \in Calls, NEW s \in StepType, NEW r \in ReplyType,
           step' = [step EXCEPT ![c] = s], reply' = [reply EXCEPT ![c] = r],
           effects \subseteq effects', step[c] # "over",
           step[c] = "throw" => s = "over" /\ r \in {reply[c], Answer("error", c)},
           r \in Answers /\ r.of # c =>
                /\ Final(r, step, reply, effects)
                /\ KeyOf[r.of] = KeyOf[c] /\ EndpointOf[r.of] = EndpointOf[c],
           s \notin {"save", "over"} => r = NoReply,
           s = "save" => /\ r \in {NoReply, Answer("ok", c)}
                         /\ \E e \in effects' : e.call = c
    PROVE  Told' /\ Replayed'
<1>1. \A d \in Calls : /\ step'[d] = IF d = c THEN s ELSE step[d]
                      /\ reply'[d] = IF d = c THEN r ELSE reply[d]
  BY Typed DEF IInv, Locks
<1>2. Told'
  BY <1>1 DEF IInv, Told
<1>3. ASSUME NEW d \in Calls, reply'[d] \in Answers, reply'[d].of # d
      PROVE  /\ Final(reply'[d], step', reply', effects')
             /\ KeyOf[reply'[d].of] = KeyOf[d] /\ EndpointOf[reply'[d].of] = EndpointOf[d]
  <2> DEFINE a == reply'[d]
  <2>1. /\ Final(a, step, reply, effects)
        /\ KeyOf[a.of] = KeyOf[d] /\ EndpointOf[a.of] = EndpointOf[d]
    <3>1. CASE d = c
      BY <1>1, <1>3, <3>1
    <3>2. CASE d # c
      BY <1>1, <1>3, <3>2 DEF IInv, Replayed
    <3> QED
      BY <3>1, <3>2
  <2>2. a \in Answers /\ Locks
    BY <1>3 DEF IInv
  <2> HIDE DEF a
  <2>3. Final(a, step', reply', effects')
    BY <2>1, <2>2, AnswersStay
  <2> QED
    BY <2>1, <2>3 DEF a
<1>4. Replayed'
  BY <1>3 DEF Replayed
<1> QED
  BY <1>2, <1>4

LEMMA StoredStays ==
    ASSUME IInv, NEW c \in Calls, NEW s \in StepType, NEW r \in ReplyType,
           step' = [step EXCEPT ![c] = s], reply' = [reply EXCEPT ![c] = r],
           effects \subseteq effects', step[c] # "over",
           step[c] = "throw" => s = "over" /\ r \in {reply[c], Answer("error", c)},
           \A k \in Keys : record'[k].status \in {"completed", "failed"} =>
                \/ record'[k] = record[k]
                \/ LET a == record'[k].response
                   IN  /\ Final(a, step', reply', effects')
                       /\ KeyOf[a.of] = k /\ EndpointOf[a.of] = record'[k].endpoint
    PROVE  Stored'
<1>1. ASSUME NEW k \in Keys, record[k].status \in {"completed", "failed"}
      PROVE  LET a == record[k].response
             IN  /\ Final(a, step', reply', effects')
                 /\ KeyOf[a.of] = k /\ EndpointOf[a.of] = record[k].endpoint
  <2> DEFINE a == record[k].response
  <2>1. a \in Answers /\ Locks
    BY <1>1, Typed, Rows DEF IInv, Locks, Kept
  <2>2. /\ Final(a, step, reply, effects)
        /\ KeyOf[a.of] = k /\ EndpointOf[a.of] = record[k].endpoint
    BY <1>1 DEF IInv, Stored
  <2> HIDE DEF a
  <2>3. Final(a, step', reply', effects')
    BY <2>1, <2>2, AnswersStay
  <2> QED
    BY <2>2, <2>3 DEF a
<1> QED
  BY <1>1 DEF Stored

-----------------------------------------------------------------------------
(* The locks: a step that neither writes records nor acts.                 *)
LEMMA LocksStay ==
    ASSUME Locks, NEW c \in Calls, NEW s \in StepType, NEW r \in ReplyType,
           step' = [step EXCEPT ![c] = s], reply' = [reply EXCEPT ![c] = r],
           s # "run", s \in {"save", "fail"} => Executing(c),
           UNCHANGED <<record, effects, clock>>
    PROVE  Locks'
<1>1. \A d \in Calls : step'[d] = IF d = c THEN s ELSE step[d]
  BY Typed DEF Locks
<1>2. TypeOK'
  <2>1. /\ record' \in [Keys -> Row] /\ step' \in [Calls -> StepType]
        /\ reply' \in [Calls -> ReplyType]
        /\ effects' \subseteq [call : Calls, asked : 0..MaxTime] /\ clock' \in 0..MaxTime
    BY Typed DEF Locks
  <2> QED
    BY <2>1 DEF TypeOK, Row, Locked, Kept, StepType, ReplyType
<1>3. OneExecution'
  BY <1>1 DEF Locks, OneExecution, Executing, Found, Key
<1>4. Dated' /\ Past' /\ EffectOncePerWindow'
  BY DEF Locks, Dated, Past, EffectOncePerWindow
<1>5. Unacted'
  BY <1>1 DEF Locks, Unacted, Key
<1> QED
  BY <1>2, <1>3, <1>4, <1>5 DEF Locks

(* Both halves, for such a step.                                           *)
LEMMA QuietStep ==
    ASSUME IInv, NEW c \in Calls, NEW s \in StepType, NEW r \in ReplyType,
           step' = [step EXCEPT ![c] = s], reply' = [reply EXCEPT ![c] = r],
           UNCHANGED <<record, effects, clock>>,
           s # "run", s \in {"save", "fail"} => Executing(c), step[c] # "over",
           step[c] = "throw" => s = "over" /\ r \in {reply[c], Answer("error", c)},
           r \in Answers /\ r.of # c =>
                /\ Final(r, step, reply, effects)
                /\ KeyOf[r.of] = KeyOf[c] /\ EndpointOf[r.of] = EndpointOf[c],
           s \notin {"save", "over"} => r = NoReply,
           s = "save" => r \in {NoReply, Answer("ok", c)} /\ \E e \in effects : e.call = c
    PROVE  IInv'
<1>1. Locks'
  BY LocksStay DEF IInv
<1>2. Told' /\ Replayed'
  BY CallStep
<1>3. Stored'
  BY StoredStays
<1> QED
  BY <1>1, <1>2, <1>3 DEF IInv

LEMMA Untouched ==
    ASSUME IInv, NEW c \in Calls
    PROVE  /\ step[c] \in StepType /\ step = [step EXCEPT ![c] = step[c]]
           /\ reply[c] \in ReplyType /\ reply = [reply EXCEPT ![c] = reply[c]]
           /\ step[c] \notin {"save", "over"} => reply[c] = NoReply
           /\ NoReply \in ReplyType /\ NoReply \notin Answers
           /\ reply[c] \in {NoReply, Answer("ok", c)} => (reply[c] \in Answers => reply[c].of = c)
           /\ KeyOf[c] \in Keys /\ Key(c) \in Row /\ EndpointOf[c] \in Endpoints
BY Typed, Replied, IdempotencyAssumption DEF IInv, Locks, Told, Key, ReplyType, Outcomes

LEMMA QuietSteps ==
    ASSUME IInv, NEW c \in Calls,
           \/ LookUpMisses(c) \/ LookUpInFlight(c) \/ Replay(c) \/ InsertConflicts(c)
           \/ HandlerRefuses(c) \/ Respond(c) \/ ThrowError(c) \/ Dies(c)
    PROVE  IInv'
<1>1. CASE LookUpMisses(c)
  <2>1. "insert" \in StepType /\ step[c] = "new" /\ reply' = [reply EXCEPT ![c] = reply[c]]
    BY <1>1, Untouched DEF LookUpMisses, StepType
  <2> QED
    BY <1>1, <2>1, Untouched, QuietStep DEF LookUpMisses, Goes
<1>2. CASE LookUpInFlight(c) \/ InsertConflicts(c)
  <2>1. /\ step[c] \in {"new", "insert"} /\ "over" \in StepType
        /\ Conflict \in ReplyType /\ Conflict \notin Answers
        /\ step' = [step EXCEPT ![c] = "over"] /\ reply' = [reply EXCEPT ![c] = Conflict]
        /\ UNCHANGED <<record, effects, clock>>
    BY <1>2, Replied
    DEF LookUpInFlight, InsertConflicts, StepType, ReplyType, Goes, Replies
  <2> QED
    BY <2>1, QuietStep
<1>3. CASE Replay(c)
  <2> DEFINE r == Key(c).response
  <2>1. /\ step[c] = "new" /\ "over" \in StepType
        /\ step' = [step EXCEPT ![c] = "over"] /\ reply' = [reply EXCEPT ![c] = r]
        /\ UNCHANGED <<record, effects, clock>>
        /\ Key(c).endpoint = EndpointOf[c] /\ Key(c).status \notin {"none", "in-flight"}
    BY <1>3 DEF Replay, StepType, Goes, Replies, Found
  <2>2. Key(c).status \in {"completed", "failed"} /\ r \in Answers
    BY <2>1, Untouched, Rows DEF Kept
  <2>3. /\ Final(r, step, reply, effects)
        /\ KeyOf[r.of] = KeyOf[c] /\ EndpointOf[r.of] = EndpointOf[c]
    BY <2>1, <2>2, Untouched DEF IInv, Stored, Key
  <2>4. r \in ReplyType
    BY <2>2 DEF ReplyType
  <2> HIDE DEF r
  <2> QED
    BY <2>1, <2>3, <2>4, QuietStep
<1>4. CASE HandlerRefuses(c)
  <2>1. /\ "fail" \in StepType /\ step[c] = "run" /\ reply' = [reply EXCEPT ![c] = reply[c]]
        /\ Executing(c)
    BY <1>4, Untouched DEF HandlerRefuses, StepType, Executing
  <2> QED
    BY <1>4, <2>1, Untouched, QuietStep DEF HandlerRefuses, Goes
<1>5. CASE Respond(c)
  <2> DEFINE r == Answer("ok", c)
  <2>1. /\ "save" \in StepType /\ step[c] = "save" /\ Executing(c)
        /\ step' = [step EXCEPT ![c] = "save"] /\ reply' = [reply EXCEPT ![c] = r]
        /\ UNCHANGED <<record, effects, clock>>
    BY <1>5, Untouched DEF Respond, StepType, Replies, Executing
  <2>2. r \in ReplyType /\ r.of = c
    BY Replied DEF ReplyType, Outcomes
  <2>3. \E e \in effects : e.call = c
    BY <2>1 DEF IInv, Told
  <2>4. r = Answer("ok", c)
    OBVIOUS
  <2> HIDE DEF r
  <2> QED
    BY <2>1, <2>2, <2>3, <2>4, QuietStep
<1>6. CASE ThrowError(c)
  <2> DEFINE r == Answer("error", c)
  <2>1. /\ "over" \in StepType /\ step[c] = "throw"
        /\ step' = [step EXCEPT ![c] = "over"] /\ reply' = [reply EXCEPT ![c] = r]
        /\ UNCHANGED <<record, effects, clock>>
    BY <1>6 DEF ThrowError, StepType, Goes, Replies
  <2>2. r \in ReplyType /\ r.of = c /\ r = Answer("error", c)
    BY Replied DEF ReplyType, Outcomes
  <2> HIDE DEF r
  <2> QED
    BY <2>1, <2>2, QuietStep
<1>7. CASE Dies(c)
  <2>1. /\ "over" \in StepType /\ step[c] # "over"
        /\ step' = [step EXCEPT ![c] = "over"] /\ reply' = [reply EXCEPT ![c] = reply[c]]
        /\ UNCHANGED <<record, effects, clock>>
    BY <1>7, Untouched DEF Dies, StepType, Goes
  <2>2. reply[c] \in Answers => reply[c].of = c
    BY <2>1, Untouched DEF IInv, Told
  <2> QED
    BY <2>1, <2>2, Untouched, QuietStep
<1> QED
  BY <1>1, <1>2, <1>3, <1>4, <1>5, <1>6, <1>7

-----------------------------------------------------------------------------
LEMMA InsertStep ==
    ASSUME IInv, NEW c \in Calls, Insert(c)
    PROVE  IInv'
<1> DEFINE k == KeyOf[c]
<1>1. /\ step[c] = "insert" /\ record[k].status = "none" /\ k \in Keys
      /\ record' = [record EXCEPT ![k] = InFlight(c)]
      /\ step' = [step EXCEPT ![c] = "run"] /\ UNCHANGED <<reply, effects, clock>>
  BY IdempotencyAssumption DEF Insert, Key, Goes
<1>2. /\ InFlight(c) \in Row /\ InFlight(c).status = "in-flight"
      /\ InFlight(c).endpoint = EndpointOf[c] /\ InFlight(c).createdAt = clock
  BY Untouched, Typed DEF InFlight, Row, Locked, IInv, Locks
<1>3. /\ record \in [Keys -> Row] /\ step \in [Calls -> StepType]
      /\ reply \in [Calls -> ReplyType]
      /\ effects \subseteq [call : Calls, asked : 0..MaxTime] /\ clock \in 0..MaxTime
  BY Typed DEF IInv, Locks
<1>4. /\ \A l \in Keys : record'[l] = IF l = k THEN InFlight(c) ELSE record[l]
      /\ \A d \in Calls : step'[d] = IF d = c THEN "run" ELSE step[d]
  BY <1>1, <1>3
<1>5. TypeOK'
  <2>1. record' \in [Keys -> Row] /\ step' \in [Calls -> StepType]
    BY <1>1, <1>2, <1>3 DEF StepType
  <2> QED
    BY <1>1, <1>3, <2>1 DEF TypeOK, Row, Locked, Kept, StepType, ReplyType
<1> HIDE DEF k
<1>6. KeyOf \in [Calls -> Keys] /\ KeyOf[c] = k
  BY IdempotencyAssumption DEF k
<1>7. OneExecution'
  <2>1. \A d \in Calls : KeyOf[d] = k => ~Executing(d)
    BY <1>1 DEF IInv, Locks, OneExecution, Found, Key
  <2> QED
    BY <1>2, <1>4, <1>6, <2>1 DEF IInv, Locks, OneExecution, Executing, Found, Key
<1>8. \A e \in effects : KeyOf[e.call] = k => clock - e.asked > KeepFor /\ e.asked \in Nat
  BY <1>1, <1>3 DEF IInv, Locks, Dated
<1>9. Dated'
  BY <1>1, <1>2, <1>3, <1>4, <1>6, <1>8 DEF IInv, Locks, Dated
<1>10. Past' /\ EffectOncePerWindow'
  BY <1>1, <1>2, <1>3, <1>4 DEF IInv, Locks, Past, EffectOncePerWindow
<1>11. Unacted'
  <2>1. ASSUME NEW d \in Calls, step'[d] = "run",
               NEW e \in effects, KeyOf[e.call] = KeyOf[d]
        PROVE  e.asked # record'[KeyOf[d]].createdAt
    <3>1. CASE d = c
      BY <1>2, <1>3, <1>4, <1>6, <1>8, <2>1, <3>1, IdempotencyAssumption
    <3>2. CASE d # c
      <4>1. step[d] = "run" /\ KeyOf[d] # k
        BY <1>1, <1>4, <2>1, <3>2 DEF IInv, Locks, OneExecution, Executing, Found, Key
      <4> QED
        BY <1>4, <1>6, <2>1, <4>1 DEF IInv, Locks, Unacted, Key
    <3> QED
      BY <3>1, <3>2
  <2> QED
    BY <1>1, <2>1 DEF Unacted, Key
<1>12. reply' = [reply EXCEPT ![c] = NoReply] /\ "run" \in StepType
  BY <1>1, Untouched DEF StepType
<1>13. Told' /\ Replayed'
  BY <1>1, <1>12, Untouched, CallStep
<1>14. Stored'
  <2>1. /\ step' = [step EXCEPT ![c] = "run"] /\ step[c] = "insert"
        /\ effects \subseteq effects' /\ NoReply \in ReplyType
    BY <1>1, Untouched
  <2>2. \A l \in Keys : record'[l].status \in {"completed", "failed"} =>
            record'[l] = record[l]
    BY <1>2, <1>4
  <2> QED
    BY <1>12, <2>1, <2>2, StoredStays
<1> QED
  BY <1>5, <1>7, <1>9, <1>10, <1>11, <1>13, <1>14 DEF IInv, Locks

LEMMA ActStep ==
    ASSUME IInv, NEW c \in Calls, NEW outcome \in Outcomes, HandlerActs(c, outcome)
    PROVE  IInv'
<1> DEFINE k == KeyOf[c]
           e == [call |-> c, asked |-> Key(c).createdAt]
           s == IF outcome = "ok" THEN "save" ELSE "fail"
<1>1. /\ step[c] = "run" /\ effects' = effects \union {e}
      /\ step' = [step EXCEPT ![c] = s] /\ UNCHANGED <<record, reply, clock>>
  BY DEF HandlerActs, Goes
<1>2. /\ record \in [Keys -> Row] /\ step \in [Calls -> StepType]
      /\ reply \in [Calls -> ReplyType]
      /\ effects \subseteq [call : Calls, asked : 0..MaxTime] /\ clock \in 0..MaxTime
  BY Typed DEF IInv, Locks
<1>3. s \in {"save", "fail"} /\ s \in StepType
  BY DEF StepType
<1>4. /\ record[k].status = "in-flight" /\ k \in Keys /\ KeyOf[c] = k
      /\ record[k].createdAt \in 0..MaxTime /\ record[k].createdAt <= clock
  <2>1. k \in Keys /\ record[k].status = "in-flight"
    BY <1>1, Untouched DEF IInv, Locks, OneExecution, Executing, Key
  <2> QED
    BY <1>2, <2>1, Rows DEF IInv, Locks, Past
<1>5. e.call = c /\ e.asked = record[k].createdAt /\ e \in [call : Calls, asked : 0..MaxTime]
  BY <1>4 DEF Key
<1> HIDE DEF e, s, k
<1>6. \A d \in Calls : step'[d] = IF d = c THEN s ELSE step[d]
  BY <1>1, <1>2
<1>7. TypeOK'
  <2>1. step' \in [Calls -> StepType] /\ effects' \subseteq [call : Calls, asked : 0..MaxTime]
    BY <1>1, <1>2, <1>3, <1>5
  <2> QED
    BY <1>1, <1>2, <2>1 DEF TypeOK, Row, Locked, Kept, StepType, ReplyType
<1>8. OneExecution'
  BY <1>1, <1>3, <1>6 DEF IInv, Locks, OneExecution, Executing, Found, Key
<1>9. Dated' /\ Past'
  BY <1>1, <1>4, <1>5 DEF IInv, Locks, Dated, Past
<1>10. EffectOncePerWindow'
  <2>1. ASSUME NEW f \in effects, KeyOf[f.call] = k
        PROVE  e.asked - f.asked > Promised
    <3>1. f.asked # record[k].createdAt
      BY <1>1, <1>4, <2>1 DEF IInv, Locks, Unacted, Key
    <3>2. record[k].createdAt - f.asked > KeepFor
      BY <1>4, <2>1, <3>1 DEF IInv, Locks, Dated
    <3>3. f.asked \in Nat /\ record[k].createdAt \in Nat
      BY <1>2, <1>4
    <3> QED
      BY <1>5, <3>2, <3>3, IdempotencyAssumption
  <2>2. ASSUME NEW f \in effects', NEW g \in effects',
               KeyOf[f.call] = KeyOf[g.call], f # g
        PROVE  f.asked - g.asked > Promised \/ g.asked - f.asked > Promised
    <3>1. CASE f \in effects /\ g \in effects
      BY <2>2, <3>1 DEF IInv, Locks, EffectOncePerWindow
    <3>2. CASE f = e /\ g \in effects
      BY <1>4, <1>5, <2>1, <2>2, <3>2
    <3>3. CASE g = e /\ f \in effects
      BY <1>4, <1>5, <2>1, <2>2, <3>3
    <3> QED
      BY <1>1, <2>2, <3>1, <3>2, <3>3
  <2> QED
    BY <2>2 DEF EffectOncePerWindow
<1>11. Unacted'
  <2>1. ASSUME NEW d \in Calls, step'[d] = "run",
               NEW f \in effects', KeyOf[f.call] = KeyOf[d]
        PROVE  f.asked # record'[KeyOf[d]].createdAt
    <3>1. d # c /\ step[d] = "run"
      BY <1>3, <1>6, <2>1
    <3>2. KeyOf[d] # k
      BY <1>1, <1>4, <3>1 DEF IInv, Locks, OneExecution, Executing
    <3>3. f \in effects
      BY <1>1, <1>4, <1>5, <2>1, <3>2
    <3> QED
      BY <1>1, <2>1, <3>1, <3>3 DEF IInv, Locks, Unacted, Key
  <2> QED
    BY <2>1 DEF Unacted, Key
<1>12. reply' = [reply EXCEPT ![c] = NoReply]
  BY <1>1, Untouched
<1>13. Told' /\ Replayed'
  <2>1. e \in effects' /\ effects \subseteq effects'
    BY <1>1
  <2> QED
    BY <1>1, <1>3, <1>5, <1>12, <2>1, Untouched, CallStep
<1>14. Stored'
  <2>1. /\ effects \subseteq effects' /\ NoReply \in ReplyType
        /\ step' = [step EXCEPT ![c] = s] /\ step[c] = "run" /\ record' = record
    BY <1>1, Untouched
  <2> QED
    BY <1>3, <1>12, <2>1, StoredStays
<1> QED
  BY <1>7, <1>8, <1>9, <1>10, <1>11, <1>13, <1>14 DEF IInv, Locks

LEMMA SaveStep ==
    ASSUME IInv, NEW c \in Calls, SaveCompleted(c) \/ SaveFailed(c)
    PROVE  IInv'
<1> DEFINE k == KeyOf[c]
           status == IF SaveCompleted(c) THEN "completed" ELSE "failed"
           s == IF SaveCompleted(c) THEN "over" ELSE "throw"
           a == Answer(IF status = "completed" THEN "ok" ELSE "error", c)
           row == [status |-> status, endpoint |-> EndpointOf[c],
                   createdAt |-> Key(c).createdAt, response |-> a]
<1>1. /\ step' = [step EXCEPT ![c] = s] /\ UNCHANGED <<reply, effects, clock>>
      /\ Saved(c, status)
      /\ \/ /\ status = "completed" /\ s = "over"
            /\ step[c] = "save" /\ reply[c] # NoReply
         \/ status = "failed" /\ s = "throw" /\ step[c] = "fail"
  BY DEF SaveCompleted, SaveFailed, Goes
<1>2. /\ record \in [Keys -> Row] /\ step \in [Calls -> StepType]
      /\ reply \in [Calls -> ReplyType]
      /\ effects \subseteq [call : Calls, asked : 0..MaxTime] /\ clock \in 0..MaxTime
  BY Typed DEF IInv, Locks
<1>3. Executing(c) /\ Found(c)
  BY <1>1 DEF Executing, IInv, Locks, OneExecution
<1>4. /\ record' = [record EXCEPT ![k] = row] /\ k \in Keys /\ KeyOf[c] = k
      /\ record[k].status # "none" /\ record[k].createdAt \in 0..MaxTime
  <2>1. k \in Keys /\ record[k].status # "none"
    BY <1>3, Untouched DEF Found, Key
  <2> QED
    BY <1>1, <1>2, <1>3, <2>1, Rows DEF Saved
<1>5. /\ a \in Answers /\ a.of = c /\ a = Answer(a.kind, c)
      /\ status = "completed" => a.kind = "ok"
      /\ status = "failed" => a.kind = "error"
  BY Replied DEF Outcomes
<1>6. status \in {"completed", "failed"} /\ s \in {"over", "throw"} /\ s \in StepType
  BY DEF StepType
<1> HIDE DEF status, s, a
<1>7. /\ row \in Row /\ row.status = status /\ row.endpoint = EndpointOf[c]
      /\ row.createdAt = record[k].createdAt /\ row.response = a
  BY <1>4, <1>5, <1>6, Untouched DEF Row, Kept, Key
<1> HIDE DEF row, k
<1>8. /\ \A d \in Calls : step'[d] = IF d = c THEN s ELSE step[d]
      /\ \A l \in Keys : record'[l] = IF l = k THEN row ELSE record[l]
  BY <1>1, <1>2, <1>4
<1>9. TypeOK'
  <2>1. step' \in [Calls -> StepType] /\ record' \in [Keys -> Row]
    BY <1>1, <1>2, <1>4, <1>6, <1>7
  <2> QED
    BY <1>1, <1>2, <2>1 DEF TypeOK, Row, Locked, Kept, StepType, ReplyType
<1>10. \A d \in Calls : Executing(d) /\ KeyOf[d] = k => d = c
  BY <1>3, <1>4 DEF IInv, Locks, OneExecution
<1>11. KeyOf \in [Calls -> Keys]
  BY IdempotencyAssumption
<1>12. OneExecution'
  BY <1>6, <1>8, <1>10, <1>11 DEF IInv, Locks, OneExecution, Executing, Found, Key
<1>13. Dated' /\ Past' /\ EffectOncePerWindow'
  <2>1. \A e \in effects : KeyOf[e.call] \in Keys
    BY <1>2, <1>11
  <2> QED
    BY <1>1, <1>4, <1>6, <1>7, <1>8, <2>1 DEF IInv, Locks, Dated, Past, EffectOncePerWindow
<1>14. Unacted'
  <2>1. \A d \in Calls : step'[d] = "run" =>
            /\ step[d] = "run" /\ KeyOf[d] \in Keys
            /\ record'[KeyOf[d]].createdAt = record[KeyOf[d]].createdAt
    BY <1>6, <1>7, <1>8, <1>11
  <2> QED
    BY <1>1, <2>1 DEF IInv, Locks, Unacted, Key
<1>15. /\ reply' = [reply EXCEPT ![c] = reply[c]] /\ reply[c] \in ReplyType
       /\ status = "failed" => reply[c] = NoReply
       /\ status = "completed" => reply[c] = a /\ \E e \in effects : e.call = c
  <2>1. status = "completed" => reply[c] = Answer("ok", c) /\ \E e \in effects : e.call = c
    BY <1>1 DEF IInv, Told
  <2>2. status = "failed" => reply[c] = NoReply
    BY <1>1, Untouched
  <2> QED
    BY <1>1, <1>5, <2>1, <2>2, Untouched
<1>16. effects \subseteq effects' /\ step[c] \in {"save", "fail"}
  BY <1>1
<1>17. Told' /\ Replayed'
  <2>1. s = "throw" => reply[c] = NoReply
    BY <1>1, <1>15
  <2>2. reply[c] \in Answers => reply[c].of = c
    BY <1>5, <1>6, <1>15, Untouched
  <2>3. step' = [step EXCEPT ![c] = s] /\ s # "save"
    BY <1>1
  <2> QED
    BY <1>6, <1>15, <1>16, <2>1, <2>2, <2>3, CallStep
<1>18. Stored'
  <2>1. Final(a, step', reply', effects')
    BY <1>1, <1>2, <1>5, <1>8, <1>15 DEF Final
  <2>2. step' = [step EXCEPT ![c] = s]
    BY <1>1
  <2>3. \A l \in Keys : record'[l].status \in {"completed", "failed"} =>
            \/ record'[l] = record[l]
            \/ /\ Final(record'[l].response, step', reply', effects')
               /\ KeyOf[record'[l].response.of] = l
               /\ EndpointOf[record'[l].response.of] = record'[l].endpoint
    BY <1>4, <1>5, <1>7, <1>8, <2>1
  <2> QED
    BY <1>6, <1>15, <1>16, <2>2, <2>3, StoredStays
<1> QED
  BY <1>9, <1>12, <1>13, <1>14, <1>17, <1>18 DEF IInv, Locks

-----------------------------------------------------------------------------
(* Time and the nightly clean-up.                                          *)
LEMMA CleanUpStep == IInv /\ CleanUp => IInv'
<1> SUFFICES ASSUME IInv, CleanUp PROVE IInv'
  OBVIOUS
<1>1. /\ record \in [Keys -> Row] /\ clock \in 0..MaxTime
      /\ effects \subseteq [call : Calls, asked : 0..MaxTime]
  BY Typed DEF IInv, Locks
<1>2. /\ UNCHANGED <<step, reply, effects, clock>>
      /\ record' = [k \in Keys |->
                      IF record[k].status = "completed" /\ record[k].createdAt < clock - KeepFor
                      THEN NoRecord ELSE record[k]]
  BY DEF CleanUp
<1>3. NoRecord.status = "none" /\ NoRecord \in Row
  BY DEF NoRecord, Row
<1>4. ASSUME NEW k \in Keys
      PROVE  \/ record'[k] = record[k]
             \/ /\ record'[k] = NoRecord /\ record[k].status = "completed"
                /\ record[k].createdAt < clock - KeepFor
                /\ record[k].createdAt \in 0..MaxTime
  BY <1>1, <1>2, Rows
<1>5. TypeOK'
  <2>1. record' \in [Keys -> Row]
    BY <1>1, <1>2, <1>3
  <2> QED
    BY <1>2, <2>1 DEF IInv, Locks, TypeOK, Row, Locked, Kept
<1>6. KeyOf \in [Calls -> Keys] /\ KeepFor \in Nat
  BY IdempotencyAssumption
<1>7. OneExecution'
  BY <1>2, <1>4, <1>6 DEF IInv, Locks, OneExecution, Executing, Found, Key
<1>8. Dated'
  <2>1. ASSUME NEW e \in effects
        PROVE  LET r == record'[KeyOf[e.call]]
               IN  /\ e.asked <= clock
                   /\ r.status = "none" => clock - e.asked > KeepFor
                   /\ r.status # "none" =>
                         r.createdAt = e.asked \/ r.createdAt - e.asked > KeepFor
    <3> DEFINE k == KeyOf[e.call]
    <3>1. /\ k \in Keys /\ e.asked \in Nat /\ clock \in Nat
          /\ e.asked <= clock
          /\ record[k].status = "none" => clock - e.asked > KeepFor
          /\ record[k].status # "none" =>
                record[k].createdAt = e.asked \/ record[k].createdAt - e.asked > KeepFor
      BY <1>1, <1>6 DEF IInv, Locks, Dated
    <3> HIDE DEF k
    <3>2. CASE record'[k] = record[k]
      BY <3>1, <3>2 DEF k
    <3>3. CASE record'[k] # record[k]
      <4>1. /\ record'[k].status = "none" /\ record[k].status = "completed"
            /\ record[k].createdAt < clock - KeepFor /\ record[k].createdAt \in Nat
        BY <1>3, <1>4, <3>1, <3>3
      <4>2. clock - e.asked > KeepFor
        BY <1>6, <3>1, <4>1
      <4> QED
        BY <3>1, <4>1, <4>2 DEF k
    <3> QED
      BY <3>2, <3>3
  <2> QED
    BY <1>2, <2>1 DEF Dated
<1>9. Past' /\ EffectOncePerWindow'
  BY <1>2, <1>3, <1>4 DEF IInv, Locks, Past, EffectOncePerWindow
<1>10. Unacted'
  <2>1. \A d \in Calls : step[d] = "run" => record'[KeyOf[d]] = record[KeyOf[d]]
    BY <1>4, <1>6 DEF IInv, Locks, OneExecution, Executing, Key
  <2> QED
    BY <1>2, <2>1 DEF IInv, Locks, Unacted, Key
<1>11. Told' /\ Replayed'
  BY <1>2 DEF IInv, Told, Replayed
<1>12. Stored'
  BY <1>2, <1>3, <1>4 DEF IInv, Stored
<1> QED
  BY <1>5, <1>7, <1>8, <1>9, <1>10, <1>11, <1>12 DEF IInv, Locks

LEMMA TickStep == IInv /\ Tick => IInv'
<1> SUFFICES ASSUME IInv, Tick PROVE IInv'
  OBVIOUS
<1>1. /\ record \in [Keys -> Row] /\ clock \in 0..MaxTime
      /\ effects \subseteq [call : Calls, asked : 0..MaxTime]
      /\ KeyOf \in [Calls -> Keys] /\ KeepFor \in Nat /\ MaxTime \in Nat
  BY Typed, IdempotencyAssumption DEF IInv, Locks
<1>2. /\ UNCHANGED <<record, step, reply, effects>> /\ clock' = clock + 1
      /\ clock' \in 0..MaxTime
  BY <1>1 DEF Tick
<1>3. TypeOK'
  BY <1>2 DEF IInv, Locks, TypeOK
<1>4. OneExecution' /\ Unacted' /\ EffectOncePerWindow'
  BY <1>2 DEF IInv, Locks, OneExecution, Executing, Found, Key, Unacted, EffectOncePerWindow
<1>5. Dated'
  <2>1. \A e \in effects : e.asked \in Nat /\ KeyOf[e.call] \in Keys
    BY <1>1
  <2> QED
    BY <1>1, <1>2, <2>1 DEF IInv, Locks, Dated
<1>6. Past'
  <2>1. \A k \in Keys : record[k].status # "none" => record[k].createdAt \in 0..MaxTime
    BY <1>1, Rows
  <2> QED
    BY <1>1, <1>2, <2>1 DEF IInv, Locks, Past
<1>7. Told' /\ Stored' /\ Replayed'
  BY <1>2 DEF IInv, Told, Stored, Replayed
<1> QED
  BY <1>3, <1>4, <1>5, <1>6, <1>7 DEF IInv, Locks

LEMMA NextInv == IInv /\ [Next]_vars => IInv'
<1> SUFFICES ASSUME IInv, [Next]_vars PROVE IInv'
  OBVIOUS
<1>1. CASE UNCHANGED vars
  <2>1. Locks'
    BY <1>1 DEF vars, IInv, Locks, TypeOK, OneExecution, Executing, Found, Key, Dated,
                Past, Unacted, EffectOncePerWindow
  <2>2. Told' /\ Stored' /\ Replayed'
    BY <1>1 DEF vars, IInv, Told, Stored, Replayed
  <2> QED
    BY <2>1, <2>2 DEF IInv
<1>2. CASE Next
  BY <1>2, QuietSteps, InsertStep, ActStep, SaveStep, CleanUpStep, TickStep DEF Next
<1> QED
  BY <1>1, <1>2

THEOREM Invariance == Spec => []IInv
BY InitInv, NextInv, PTL DEF Spec

-----------------------------------------------------------------------------
(* The variables keep their types.                                         *)
THEOREM IdempotencyTyped == Spec => []TypeOK
BY Invariance, PTL DEF IInv, Locks

(* Whatever requests there are and wherever they die, at most one handler  *)
(* of a key is between its insert and its save.                            *)
THEOREM AtMostOneExecution == Spec => []OneExecution
BY Invariance, PTL DEF IInv, Locks

(* Two effects of one key lie further apart than the promised time.        *)
THEOREM EffectsOncePerWindow == Spec => []EffectOncePerWindow
BY Invariance, PTL DEF IInv, Locks

LEMMA ReplayedIsExact == IInv => ReplaysAreExact
BY DEF IInv, Replayed, Final, ReplaysAreExact

(* A replay is the answer of the call that wrote the record, to that call's *)
(* key and endpoint, and a success only after its effect.                  *)
THEOREM ReplaysExact == Spec => []ReplaysAreExact
BY Invariance, ReplayedIsExact, PTL
=============================================================================
