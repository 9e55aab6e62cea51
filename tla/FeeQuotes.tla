----------------------------- MODULE FeeQuotes -----------------------------
(***************************************************************************)
(* FeesService between the fee_rules table and its cache: requests ask for *)
(* a fee, administrators create and update rules and invalidate the cache. *)
(*                                                                         *)
(* CacheModule.register keeps the cache in the memory of each process of   *)
(* the application.  A request looks its key up, reads the table on a miss *)
(* and then fills the cache, an administrator saves and then deletes the   *)
(* key: every one of these is a step of its own.                           *)
(***************************************************************************)
EXTENDS FeeRules

CONSTANTS
    Processes,     \* application processes
    Keys,          \* `currency:transactionType`
    RuleIds,       \* rows of fee_rules, present or not yet created
    KeyOf,         \* KeyOf[i], PriorityOf[i]: columns that no update changes
    PriorityOf,
    Seeded,        \* the rows that seedDefaultRules makes sure of
    Configs,       \* what the other columns of a rule may be set to
    Quotes,        \* requests for a fee
    Asks,          \* Asks[q] = [key, amount]
    Admins,        \* requests of administrators
    TTL,           \* ticks a cached rule lives: 300_000 ms
    FetchTime,     \* a rule is in the cache this many ticks after it was read
    MaxTime        \* bound: the clock stops there

NoRow == [active |-> FALSE, config |-> Null]
Row == [active : BOOLEAN, config : {{c} : c \in Configs}]

ASSUME FeeQuotesAssumption ==
    /\ KeyOf \in [RuleIds -> Keys] /\ PriorityOf \in [RuleIds -> Nat]
    /\ Configs \subseteq FeeRule /\ Seeded \in [RuleIds -> {NoRow} \union Row]
    /\ Asks \in [Quotes -> [key : Keys, amount : Nat]]
    /\ TTL \in Nat /\ FetchTime \in Nat /\ MaxTime \in Nat

VARIABLES
    rules,      \* rules[i]: the row, or NoRow
    cache,      \* cache[p][k]: the cached rule with its expiry, or Empty
    quote,      \* quote[q]: the request's place, the rule it holds, its answer
    admin,      \* admin[a]: "new", "saved", "failed" or "over", its process and key
    clock,
    superseded  \* history: the rules that were in force, with key and end

vars == <<rules, cache, quote, admin, clock, superseded>>

Empty == [rule |-> Null, until |-> 0, raced |-> FALSE]

NewQuote == [step |-> "new", process |-> Null, rule |-> Null, readAt |-> 0,
             fee |-> ZeroFee, at |-> 0]
NewAdmin == [step |-> "new", process |-> Null, key |-> Null]

(* Rules are null or not, like columns: a set of at most one config.       *)
Winners(table, k) ==
    LET live == {i \in RuleIds : KeyOf[i] = k /\ table[i].active}
    IN  {i \in live : \A j \in live : PriorityOf[j] <= PriorityOf[i]}

InForce(table, k) ==
    IF Winners(table, k) = {} THEN {Null} ELSE {table[i].config : i \in Winners(table, k)}

Init ==
    /\ rules = Seeded
    /\ cache = [p \in Processes |-> [k \in Keys |-> Empty]]
    /\ quote = [q \in Quotes |-> NewQuote]
    /\ admin = [a \in Admins |-> NewAdmin]
    /\ clock = 0
    /\ superseded = {}

-----------------------------------------------------------------------------
Key(q) == Asks[q].key

(* calculate: what a request answers once it holds a rule, or null.        *)
Answered(q, rule) ==
    [step |-> "over", process |-> Null, rule |-> rule, readAt |-> 0,
     fee |-> IF rule = Null THEN ZeroFee
             ELSE Calculate(CHOOSE c \in rule : TRUE, Asks[q].amount),
     at |-> clock]

(* Fault: an entry never expires.                                          *)
NeverExpires(p, k) == cache[p][k].rule # Null

Cached(p, k) == cache[p][k].rule # Null /\ clock <= cache[p][k].until

Hit(q, p) ==
    /\ quote[q].step = "new"
    /\ Cached(p, Key(q))
    /\ quote' = [quote EXCEPT ![q] = Answered(q, cache[p][Key(q)].rule)]
    /\ UNCHANGED <<rules, cache, admin, clock, superseded>>

Miss(q, p) ==
    /\ quote[q].step = "new"
    /\ ~Cached(p, Key(q))
    /\ quote' = [quote EXCEPT ![q].step = "read", ![q].process = {p}]
    /\ UNCHANGED <<rules, cache, admin, clock, superseded>>

(* Fault: the absence of a rule is cached as well.                         *)
ReadCachesNull(q) ==
    /\ quote[q].step = "read"
    /\ \E rule \in InForce(rules, Key(q)) :
          quote' = [quote EXCEPT ![q].step = "fill", ![q].rule = rule, ![q].readAt = clock]
    /\ UNCHANGED <<rules, cache, admin, clock, superseded>>

(* findOne; no rule at all is not cached.                                  *)
Read(q) ==
    /\ quote[q].step = "read"
    /\ \E rule \in InForce(rules, Key(q)) :
          quote' = [quote EXCEPT ![q] =
                      IF rule = Null THEN Answered(q, Null)
                      ELSE [@ EXCEPT !.step = "fill", !.rule = rule, !.readAt = clock]]
    /\ UNCHANGED <<rules, cache, admin, clock, superseded>>

(* raced is history: the rule had been replaced when it was put in.        *)
Fill(q) ==
    /\ quote[q].step = "fill"
    /\ \E p \in quote[q].process :
          /\ cache' = [cache EXCEPT ![p][Key(q)] =
                         [rule |-> quote[q].rule, until |-> clock + TTL,
                          raced |-> quote[q].rule \notin InForce(rules, Key(q))]]
          /\ quote' = [quote EXCEPT ![q] = Answered(q, quote[q].rule)]
    /\ UNCHANGED <<rules, admin, clock, superseded>>

-----------------------------------------------------------------------------
Replaced(k, table) ==
    superseded' = superseded \union
        {[key |-> k, rule |-> r, end |-> clock] : r \in InForce(rules, k) \ InForce(table, k)}

Saves(a, p, i, row) ==
    LET table == [rules EXCEPT ![i] = row]
    IN  /\ rules' = table
        /\ Replaced(KeyOf[i], table)
        /\ admin' = [admin EXCEPT ![a] = [step |-> "saved", process |-> {p}, key |-> {KeyOf[i]}]]

CreateFeeRule(a, p, i, config) ==
    /\ admin[a].step = "new"
    /\ rules[i] = NoRow
    /\ Saves(a, p, i, [active |-> TRUE, config |-> {config}])
    /\ UNCHANGED <<cache, quote, clock>>

(* A partial update: other columns, or isActive.                           *)
UpdateFeeRule(a, p, i, row) ==
    /\ admin[a].step = "new"
    /\ rules[i] # NoRow
    /\ Saves(a, p, i, row)
    /\ UNCHANGED <<cache, quote, clock>>

(* Fault: the key is deleted only when the rule is still active.           *)
InvalidateActiveOnly(a) ==
    /\ admin[a].step = "saved"
    /\ \E p \in admin[a].process, k \in admin[a].key :
          cache' = IF InForce(rules, k) = {Null} THEN cache
                   ELSE [cache EXCEPT ![p][k] = Empty]
    /\ admin' = [admin EXCEPT ![a].step = "over"]
    /\ UNCHANGED <<rules, quote, clock, superseded>>

InvalidateFeeCache(a) ==
    /\ admin[a].step = "saved"
    /\ \E p \in admin[a].process, k \in admin[a].key : cache' = [cache EXCEPT ![p][k] = Empty]
    /\ admin' = [admin EXCEPT ![a].step = "over"]
    /\ UNCHANGED <<rules, quote, clock, superseded>>

(* updateFeeRule reads the row back before it invalidates: that may fail.  *)
ReadBackFails(a) ==
    /\ admin[a].step = "saved"
    /\ admin' = [admin EXCEPT ![a].step = "failed"]
    /\ UNCHANGED <<rules, cache, quote, clock, superseded>>

(* A process dies, with its cache and every request it was serving.        *)
Restart(p) ==
    /\ cache' = [cache EXCEPT ![p] = [k \in Keys |-> Empty]]
    /\ quote' = [q \in Quotes |-> IF p \in quote[q].process /\ quote[q].step # "over"
                                  THEN [NewQuote EXCEPT !.step = "dead"] ELSE quote[q]]
    /\ admin' = [a \in Admins |-> IF p \in admin[a].process
                                     /\ admin[a].step = "saved"
                                  THEN [admin[a] EXCEPT !.step = "over"] ELSE admin[a]]
    /\ \/ \E k \in Keys : cache[p][k] # Empty
       \/ quote' # quote \/ admin' # admin
    /\ UNCHANGED <<rules, clock, superseded>>

Tick ==
    /\ clock < MaxTime
    /\ \A q \in Quotes : quote[q].step = "fill" => clock - quote[q].readAt < FetchTime
    /\ clock' = clock + 1
    /\ UNCHANGED <<rules, cache, quote, admin, superseded>>

Next ==
    \/ \E q \in Quotes :
          \/ \E p \in Processes : Hit(q, p) \/ Miss(q, p)
          \/ Read(q) \/ Fill(q)
    \/ \E a \in Admins :
          \/ \E p \in Processes, i \in RuleIds, c \in Configs :
                \/ CreateFeeRule(a, p, i, c)
                \/ UpdateFeeRule(a, p, i, [rules[i] EXCEPT !.config = {c}])
                \/ UpdateFeeRule(a, p, i, [rules[i] EXCEPT !.active = ~@])
          \/ InvalidateFeeCache(a) \/ ReadBackFails(a)
    \/ \E p \in Processes : Restart(p)
    \/ Tick

Spec == Init /\ [][Next]_vars

-----------------------------------------------------------------------------
MaybeConfig == {Null} \union {{c} : c \in Configs}

(* Every variable has its type; a cached rule is never null.               *)
TypeOK ==
    /\ rules \in [RuleIds -> {NoRow} \union Row]
    /\ \A p \in Processes, k \in Keys :
          \/ cache[p][k] = Empty
          \/ /\ cache[p][k].rule \in MaybeConfig \ {Null}
             /\ cache[p][k].until \in TTL..(MaxTime + TTL)
    /\ \A q \in Quotes :
          /\ quote[q].step \in {"new", "read", "fill", "over", "dead"}
          /\ quote[q].rule \in MaybeConfig
          /\ quote[q].step = "fill" => quote[q].rule # Null
          /\ quote[q].fee.totalFee \in Values
    /\ \A a \in Admins : admin[a].step \in {"new", "saved", "failed", "over"}
    /\ clock \in 0..MaxTime

(* README.md:406: "the cache invalidates within 5 minutes".  Whatever the  *)
(* processes, the fills that race with an update and the invalidations     *)
(* that never happen, a fee comes from a rule that was in force, or was    *)
(* replaced no longer ago than a cached rule lives and a fill takes.       *)
QuotesAreRecent ==
    \A q \in Quotes : quote[q].step = "over" /\ quote[q].rule # Null =>
        \/ quote[q].rule \in InForce(rules, Key(q))
        \/ \E s \in superseded :
              s.key = Key(q) /\ s.rule = quote[q].rule /\ s.end + TTL + FetchTime >= quote[q].at

(* Once an update has been answered, its process keeps an outdated rule    *)
(* only if a request that had read the old one put it in afterwards.       *)
OnlyRacesKeepStale ==
    \A p \in Processes, k \in Keys :
        LET stale == cache[p][k].rule # Null /\ cache[p][k].rule \notin InForce(rules, k)
            pending == \E a \in Admins : admin[a].step \in {"saved", "failed"} /\ admin[a].key = {k}
            elsewhere == \E a \in Admins : admin[a].key = {k} /\ admin[a].process # {p}
        IN  stale => cache[p][k].raced \/ pending \/ elsewhere

(* A fee that is still a number is the sum of its parts, and its base      *)
(* respects the cap, and the floor unless the cap is lower: only values    *)
(* that come out of a BIGINT column (flat amount, floor, cap) escape them. *)
NumericFeesAreExact ==
    \A q \in Quotes : \A rule \in quote[q].rule :
        LET fee == quote[q].fee
        IN  quote[q].step = "over" /\ InRange(rule, Asks[q].amount) /\ ~fee.totalFee.text =>
                /\ fee.totalFee.n = fee.baseFee.n + fee.tax
                /\ \A f \in rule.floor :
                      f <= fee.baseFee.n \/ \E c \in rule.cap : c < f
                /\ \A c \in rule.cap : fee.baseFee.n <= c

(* README.md:113: "cache invalidated immediately on update".  When every   *)
(* update has been answered, no process holds a rule that is not in force. *)
InvalidatedImmediately ==
    (\A a \in Admins : admin[a].step \notin {"saved", "failed"}) =>
        \A p \in Processes, k \in Keys :
            Cached(p, k) => cache[p][k].rule \in InForce(rules, k)

(* admin.dto.ts:78: "Maximum fee cap in smallest unit."  A fee is never    *)
(* more than the cap and the tax on the cap.                               *)
FeeWithinCap ==
    \A q \in Quotes : \A rule \in quote[q].rule : \A c \in rule.cap :
        quote[q].step = "over" =>
            quote[q].fee.totalFee.n <= c + Percent(c, rule.taxRate)
=============================================================================
