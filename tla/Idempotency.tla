---------------------------- MODULE Idempotency ----------------------------
(***************************************************************************)
(* IdempotencyInterceptor around the endpoints that move money: a request  *)
(* looks its key up, inserts an in-flight record, runs the handler and     *)
(* then writes the outcome into the record, each in a statement of its     *)
(* own.  A unique index on the key decides between two requests that both  *)
(* found nothing.  ScheduledTasksService deletes old completed records.    *)
(*                                                                         *)
(* The handler is one step with one effect (a transfer, a withdrawal, a    *)
(* deposit), after which it returns or throws.  It may also throw without  *)
(* any effect, when it refuses the request.                                *)
(***************************************************************************)
EXTENDS Integers, FiniteSets

CONSTANTS
    Calls,        \* HTTP requests: each is served at most once
    Keys,         \* composite keys, `userId:idempotencyKey`
    Endpoints,    \* `method:path`
    KeyOf,        \* KeyOf[c], EndpointOf[c]: what request c asks for
    EndpointOf,
    KeepFor,      \* records older than this many ticks are deleted (25 hours)
    Promised,     \* ticks the README promises the cached response for (24 hours)
    MaxTime       \* bound: the clock stops there

ASSUME IdempotencyAssumption ==
    /\ KeyOf \in [Calls -> Keys]
    /\ EndpointOf \in [Calls -> Endpoints]
    /\ KeepFor \in Nat /\ Promised \in Nat /\ MaxTime \in Nat
    /\ Promised <= KeepFor

VARIABLES
    record,    \* record[k]: the row with that composite key, or NoRecord
    step,      \* step[c]: "new", "insert", "run", "save", "fail", "throw" or
               \* "over"
    reply,     \* reply[c]: what the client of c was told last
    effects,   \* history: the effects of handlers, [call, asked]; asked is
               \* when the call's record was inserted
    clock

vars == <<record, step, reply, effects, clock>>

Outcomes == {"ok", "error"}

NoRecord == [status |-> "none"]
NoReply == [kind |-> "none"]
Conflict == [kind |-> "conflict"]
Answer(outcome, c) == [kind |-> outcome, of |-> c]

Init ==
    /\ record = [k \in Keys |-> NoRecord]
    /\ step = [c \in Calls |-> "new"]
    /\ reply = [c \in Calls |-> NoReply]
    /\ effects = {}
    /\ clock = 0

-----------------------------------------------------------------------------
Key(c) == record[KeyOf[c]]

(* findOne({ compositeKey, endpoint }).                                    *)
Found(c) == Key(c).status # "none" /\ Key(c).endpoint = EndpointOf[c]

Goes(c, place) == step' = [step EXCEPT ![c] = place]
Replies(c, r) == reply' = [reply EXCEPT ![c] = r]

LookUpMisses(c) ==
    /\ step[c] = "new"
    /\ ~Found(c)
    /\ Goes(c, "insert")
    /\ UNCHANGED <<record, reply, effects, clock>>

LookUpInFlight(c) ==
    /\ step[c] = "new"
    /\ Found(c) /\ Key(c).status = "in-flight"
    /\ Goes(c, "over")
    /\ Replies(c, Conflict)
    /\ UNCHANGED <<record, effects, clock>>

(* Fault: records are looked up by key alone.                              *)
ReplayAnyEndpoint(c) ==
    /\ step[c] = "new"
    /\ Key(c).status \in {"completed", "failed"}
    /\ Goes(c, "over")
    /\ Replies(c, Key(c).response)
    /\ UNCHANGED <<record, effects, clock>>

(* The stored response, whether the handler had returned or thrown.        *)
Replay(c) ==
    /\ step[c] = "new"
    /\ Found(c) /\ Key(c).status # "in-flight"
    /\ Goes(c, "over")
    /\ Replies(c, Key(c).response)
    /\ UNCHANGED <<record, effects, clock>>

(* Fault: the column says when the record expires.                         *)
InFlightUntil(c) ==
    [status |-> "in-flight", endpoint |-> EndpointOf[c], createdAt |-> clock + KeepFor]

InFlight(c) == [status |-> "in-flight", endpoint |-> EndpointOf[c], createdAt |-> clock]

(* Fault: no unique index, the second insert succeeds.                     *)
InsertAnyway(c) ==
    /\ step[c] = "insert"
    /\ record' = [record EXCEPT ![KeyOf[c]] = InFlight(c)]
    /\ Goes(c, "run")
    /\ UNCHANGED <<reply, effects, clock>>

Insert(c) ==
    /\ step[c] = "insert"
    /\ Key(c).status = "none"
    /\ record' = [record EXCEPT ![KeyOf[c]] = InFlight(c)]
    /\ Goes(c, "run")
    /\ UNCHANGED <<reply, effects, clock>>

(* The unique index refuses the row, also for another endpoint's record.   *)
InsertConflicts(c) ==
    /\ step[c] = "insert"
    /\ Key(c).status # "none"
    /\ Goes(c, "over")
    /\ Replies(c, Conflict)
    /\ UNCHANGED <<record, effects, clock>>

(* The handler has its effect, then returns or throws (initiateWithdrawal  *)
(* throws after its commit when the queue refuses the job).                *)
HandlerActs(c, outcome) ==
    /\ step[c] = "run"
    /\ effects' = effects \union {[call |-> c, asked |-> Key(c).createdAt]}
    /\ Goes(c, IF outcome = "ok" THEN "save" ELSE "fail")
    /\ UNCHANGED <<record, reply, clock>>

HandlerRefuses(c) ==
    /\ step[c] = "run"
    /\ Goes(c, "fail")
    /\ UNCHANGED <<record, reply, effects, clock>>

(* tap does not wait for its callback: the client has the answer before    *)
(* the record is updated.                                                  *)
Respond(c) ==
    /\ step[c] = "save"
    /\ reply[c] = NoReply
    /\ Replies(c, Answer("ok", c))
    /\ UNCHANGED <<record, step, effects, clock>>

(* The UPDATE matches on key and endpoint; no row, no effect.              *)
Saved(c, status) ==
    record' = IF Found(c)
              THEN [record EXCEPT ![KeyOf[c]] =
                      [status |-> status, endpoint |-> EndpointOf[c],
                       createdAt |-> Key(c).createdAt,
                       response |-> Answer(IF status = "completed" THEN "ok" ELSE "error", c)]]
              ELSE record

SaveCompleted(c) ==
    /\ step[c] = "save"
    /\ reply[c] # NoReply
    /\ Saved(c, "completed")
    /\ Goes(c, "over")
    /\ UNCHANGED <<reply, effects, clock>>

(* catchError awaits the update before it throws.                          *)
SaveFailed(c) ==
    /\ step[c] = "fail"
    /\ Saved(c, "failed")
    /\ Goes(c, "throw")
    /\ UNCHANGED <<reply, effects, clock>>

ThrowError(c) ==
    /\ step[c] = "throw"
    /\ Goes(c, "over")
    /\ Replies(c, Answer("error", c))
    /\ UNCHANGED <<record, effects, clock>>

(* The process dies, or an update of the record fails: the request is over *)
(* and its record stays as it is.                                          *)
Dies(c) ==
    /\ step[c] \in {"insert", "run", "save", "fail", "throw"}
    /\ Goes(c, "over")
    /\ UNCHANGED <<record, reply, effects, clock>>

(* Fault: records are kept for less than the promised time.                *)
CleanUpEarly ==
    LET old(k) == /\ record[k].status = "completed"
                  /\ record[k].createdAt < clock
    IN  /\ \E k \in Keys : old(k)
        /\ record' = [k \in Keys |-> IF old(k) THEN NoRecord ELSE record[k]]
        /\ UNCHANGED <<step, reply, effects, clock>>

(* cleanupIdempotencyRecords deletes completed records only.               *)
CleanUp ==
    LET old(k) == /\ record[k].status = "completed"
                  /\ record[k].createdAt < clock - KeepFor
    IN  /\ \E k \in Keys : old(k)
        /\ record' = [k \in Keys |-> IF old(k) THEN NoRecord ELSE record[k]]
        /\ UNCHANGED <<step, reply, effects, clock>>

Tick ==
    /\ clock < MaxTime
    /\ clock' = clock + 1
    /\ UNCHANGED <<record, step, reply, effects>>

Next ==
    \/ \E c \in Calls :
          \/ LookUpMisses(c) \/ LookUpInFlight(c) \/ Replay(c)
          \/ Insert(c) \/ InsertConflicts(c)
          \/ \E outcome \in Outcomes : HandlerActs(c, outcome)
          \/ HandlerRefuses(c)
          \/ Respond(c) \/ SaveCompleted(c) \/ SaveFailed(c) \/ ThrowError(c)
          \/ Dies(c)
    \/ CleanUp
    \/ Tick

Spec == Init /\ [][Next]_vars

-----------------------------------------------------------------------------
Answers == [kind : Outcomes, of : Calls]

(* Every variable has its type.                                            *)
TypeOK ==
    /\ record \in [Keys ->
         {NoRecord}
         \union [status : {"in-flight"}, endpoint : Endpoints, createdAt : 0..MaxTime]
         \union [status : {"completed", "failed"}, endpoint : Endpoints,
                 createdAt : 0..MaxTime, response : Answers]]
    /\ step \in [Calls -> {"new", "insert", "run", "save", "fail", "throw", "over"}]
    /\ reply \in [Calls -> {NoReply, Conflict} \union Answers]
    /\ effects \subseteq [call : Calls, asked : 0..MaxTime]
    /\ clock \in 0..MaxTime

(* Of one key, at most one handler is between its insert and its save: the *)
(* in-flight record is the lock, and it is there for as long as they run.  *)
Executing(c) == step[c] \in {"run", "save", "fail"}

OneExecution ==
    \A c, d \in Calls :
        /\ KeyOf[c] = KeyOf[d] /\ Executing(c) /\ Executing(d) => c = d
        /\ Executing(c) => Found(c) /\ Key(c).status = "in-flight"

(* README.md:104: no re-execution within 24 hours.  The requests behind    *)
(* two effects of one key were accepted further apart than that, whatever  *)
(* dies in between and however the lookups, inserts and the nightly        *)
(* clean-up interleave.                                                    *)
EffectOncePerWindow ==
    \A e, f \in effects :
        KeyOf[e.call] = KeyOf[f.call] /\ e # f =>
            e.asked - f.asked > Promised \/ f.asked - e.asked > Promised

(* "the exact cached response": whoever is answered from a record gets     *)
(* what the request that wrote it was answered (or would have been, had    *)
(* it not died), and a success only if that one had its effect.            *)
ReplaysAreExact ==
    \A c \in Calls : reply[c] \in Answers /\ reply[c].of # c =>
        LET origin == reply[c].of
        IN  /\ KeyOf[origin] = KeyOf[c] /\ EndpointOf[origin] = EndpointOf[c]
            /\ reply[origin] \in {reply[c], NoReply}
            /\ reply[c].kind = "ok" => \E e \in effects : e.call = origin

(* idempotency.interceptor.ts:67: "A concurrent request with the same key  *)
(* is already processing."                                                 *)
InFlightIsProcessing ==
    \A k \in Keys : record[k].status = "in-flight" =>
        \E c \in Calls : KeyOf[c] = k /\ Executing(c)

(* idempotency.interceptor.ts:115: a failure is marked "so the client can  *)
(* retry with the same key".  No request is answered with the failure of   *)
(* another one.                                                            *)
FailedMayRetry ==
    \A c \in Calls : reply[c] \in Answers /\ reply[c].kind = "error" => reply[c].of = c
=============================================================================
