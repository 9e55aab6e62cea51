--------------------------- MODULE FraudScreening ---------------------------
(***************************************************************************)
(* FraudService.evaluate for the payments of one user in one currency and  *)
(* tier: the rules come from the table or from the cache of the process,   *)
(* each is checked, alerts are saved, and the payment is let through or    *)
(* blocked.  A velocity rule keeps its counter in the same cache, which it *)
(* reads and writes in two steps.  The other rules compare the amount with *)
(* the user's transfers; here they trigger or not.                         *)
(*                                                                         *)
(* The cache is in the memory of the process (CacheModule.register, whose  *)
(* store evicts nothing before it expires), so the catch branch of         *)
(* checkVelocity, for a cache that cannot be reached, is never taken.  A   *)
(* tick is long: a process never lets one pass between an answer it has    *)
(* read and the cache entry it writes from it.                             *)
(***************************************************************************)
EXTENDS Integers, FiniteSets

CONSTANTS
    Processes,
    Screenings,   \* calls of evaluate
    Rules,        \* rows of fraud_rules for that currency and tier
    Velocity,     \* the velocity rules among them
    Blocking,     \* those whose action is BLOCK
    Priority,     \* Priority[r]: they are checked from the highest down
    Seeded,       \* the active ones at the start
    MaxCount,     \* config.maxCount and config.windowSeconds of the velocity rules
    Window,
    RulesTTL,     \* ticks the rules stay in the cache: 120_000 ms
    MaxTime,      \* bound: the clock stops there
    MaxSwitches   \* bound: changes of the active rules

ASSUME FraudAssumption ==
    /\ Velocity \subseteq Rules /\ Blocking \subseteq Rules /\ Seeded \subseteq Rules
    /\ Priority \in [Rules -> Nat]
    /\ {MaxCount, Window, RulesTTL, MaxTime, MaxSwitches} \subseteq Nat
    /\ IsFiniteSet(Screenings)

VARIABLES
    active,     \* the rules with isActive
    cached,     \* cached[p]: the rules in p's cache and when they expire
    counter,    \* counter[p][v]: the count in p's cache and when it expires
    screening,  \* screening[s]: its place, process, rules, the one it counts for ...
    alerts,     \* rows of fraud_alerts, [by, rule]
    clock,
    \* history:
    retired,    \* earlier values of active, and when they ended
    streak,     \* streak[p][v]: checks so far, each within Window of the last
    overlap     \* overlap[p]: two checks have been between read and write

vars == <<active, cached, counter, screening, alerts, clock, retired, streak, overlap>>
history == <<retired, streak, overlap>>

Nothing == [rules |-> {}, until |-> -1]
NoCount == [count |-> 0, until |-> -1]
NoStreak == [length |-> 0, first |-> -1, last |-> -1]
NewScreening == [step |-> "new", process |-> {}, rules |-> {}, todo |-> {}, hits |-> {},
                 counting |-> {}, got |-> 0, verdict |-> "none", at |-> 0]

Init ==
    /\ active = Seeded
    /\ cached = [p \in Processes |-> Nothing]
    /\ counter = [p \in Processes |-> [v \in Velocity |-> NoCount]]
    /\ screening = [s \in Screenings |-> NewScreening]
    /\ alerts = {}
    /\ clock = 0
    /\ retired = {}
    /\ streak = [p \in Processes |-> [v \in Velocity |-> NoStreak]]
    /\ overlap = [p \in Processes |-> FALSE]

-----------------------------------------------------------------------------
At(s, place) == screening[s].step = place
Live(entry) == clock <= entry.until
Becomes(s, record) == screening' = [screening EXCEPT ![s] = record]

Checking(s, rules) ==
    [screening[s] EXCEPT !.step = "check", !.rules = rules, !.todo = rules, !.at = clock]

(* An empty list is truthy, and cached like any other.                     *)
RulesCached(s, p) ==
    /\ At(s, "new") /\ Live(cached[p])
    /\ Becomes(s, [Checking(s, cached[p].rules) EXCEPT !.process = {p}])
    /\ UNCHANGED <<active, cached, counter, alerts, clock, history>>

RulesRead(s, p) ==
    /\ At(s, "new") /\ ~Live(cached[p])
    /\ Becomes(s, [screening[s] EXCEPT !.step = "fill", !.process = {p}, !.rules = active])
    /\ UNCHANGED <<active, cached, counter, alerts, clock, history>>

(* Fault: the rules are cached without an expiry.                          *)
RulesFilledForGood(s) ==
    /\ At(s, "fill")
    /\ \E p \in screening[s].process :
          cached' = [cached EXCEPT ![p] = [rules |-> screening[s].rules, until |-> MaxTime]]
    /\ Becomes(s, Checking(s, screening[s].rules))
    /\ UNCHANGED <<active, counter, alerts, clock, history>>

RulesFilled(s) ==
    /\ At(s, "fill")
    /\ \E p \in screening[s].process :
          cached' = [cached EXCEPT ![p] =
                       [rules |-> screening[s].rules, until |-> clock + RulesTTL]]
    /\ Becomes(s, Checking(s, screening[s].rules))
    /\ UNCHANGED <<active, counter, alerts, clock, history>>

(* Fault: a rule that triggers is checked again.                           *)
CheckedAgain(s, r, triggered) ==
    [screening[s] EXCEPT !.step = "check", !.todo = IF triggered THEN @ ELSE @ \ {r},
                         !.counting = {}, !.got = 0,
                         !.hits = IF triggered THEN @ \union {r} ELSE @]

(* What a rule's check leaves of the screening.                            *)
Checked(s, r, triggered) ==
    [screening[s] EXCEPT !.step = "check", !.todo = @ \ {r}, !.counting = {}, !.got = 0,
                         !.hits = IF triggered THEN @ \union {r} ELSE @]

(* orderBy priority DESC: the rule whose turn it is.                       *)
Turn(s, r) ==
    /\ r \in screening[s].todo
    /\ \A other \in screening[s].todo : Priority[r] >= Priority[other]

(* Daily limit, large amount, unusual pattern; other types never trigger.  *)
CheckTransfers(s, r) ==
    /\ At(s, "check") /\ Turn(s, r) /\ r \notin Velocity
    /\ \E triggered \in BOOLEAN : Becomes(s, Checked(s, r, triggered))
    /\ UNCHANGED <<active, cached, counter, alerts, clock, history>>

GetCount(s, v) ==
    /\ At(s, "check") /\ Turn(s, v) /\ v \in Velocity
    /\ \E p \in screening[s].process :
          /\ Becomes(s, [screening[s] EXCEPT
                !.step = "set", !.counting = {v},
                !.got = IF Live(counter[p][v]) THEN counter[p][v].count ELSE 0])
          /\ overlap' = [overlap EXCEPT ![p] = @ \/ \E t \in Screenings :
                                              At(t, "set") /\ screening[t].process = {p}]
    /\ UNCHANGED <<active, cached, counter, alerts, clock, retired, streak>>

(* Fault: only the first write sets an expiry.                             *)
SetKeepingExpiry(s, p, v) ==
    counter' = [counter EXCEPT ![p][v] =
                  [count |-> screening[s].got + 1,
                   until |-> IF Live(@) THEN @.until ELSE clock + Window]]

(* Every write starts the window anew.                                     *)
SetCounter(s, p, v) ==
    counter' = [counter EXCEPT ![p][v] =
                  [count |-> screening[s].got + 1, until |-> clock + Window]]

Extended(s) ==
    IF s.last >= 0 /\ clock - s.last <= Window
    THEN [s EXCEPT !.length = @ + 1, !.last = clock]
    ELSE [length |-> 1, first |-> clock, last |-> clock]

SetCount(s, v) ==
    /\ At(s, "set") /\ v \in screening[s].counting
    /\ \E p \in screening[s].process :
          /\ SetCounter(s, p, v)
          /\ streak' = [streak EXCEPT ![p][v] = Extended(@)]
    /\ Becomes(s, Checked(s, v, screening[s].got + 1 > MaxCount))
    /\ UNCHANGED <<active, cached, alerts, clock, retired, overlap>>

-----------------------------------------------------------------------------
(* Promise.all: the alerts of all hits, in any order.                      *)
SaveAlert(s, r) ==
    /\ At(s, "check") /\ screening[s].todo = {}
    /\ r \in screening[s].hits /\ [by |-> s, rule |-> r] \notin alerts
    /\ alerts' = alerts \union {[by |-> s, rule |-> r]}
    /\ UNCHANGED <<active, cached, counter, screening, clock, history>>

Over(s, verdict) ==
    [NewScreening EXCEPT !.step = "over", !.hits = screening[s].hits, !.verdict = verdict]

Verdict(hits) ==
    IF hits \intersect Blocking # {} THEN "blocked"
    ELSE IF hits # {} THEN "flagged" ELSE "clear"

(* Fault: the verdict does not wait for the alerts.                        *)
DecideAtOnce(s) ==
    /\ At(s, "check") /\ screening[s].todo = {}
    /\ Becomes(s, Over(s, Verdict(screening[s].hits)))
    /\ UNCHANGED <<active, cached, counter, alerts, clock, history>>

Decide(s) ==
    /\ At(s, "check") /\ screening[s].todo = {}
    /\ \A r \in screening[s].hits : [by |-> s, rule |-> r] \in alerts
    /\ Becomes(s, Over(s, Verdict(screening[s].hits)))
    /\ UNCHANGED <<active, cached, counter, alerts, clock, history>>

(* A query fails: the request ends with an error, alerts saved so far stay.*)
Fails(s) ==
    /\ screening[s].step \in {"fill", "check"}
    /\ Becomes(s, Over(s, "error"))
    /\ UNCHANGED <<active, cached, counter, alerts, clock, history>>

(* createFraudRule and updateFraudRule; no cache is told.                  *)
SwitchRule(r) ==
    /\ Cardinality(retired) < MaxSwitches
    /\ active' = IF r \in active THEN active \ {r} ELSE active \union {r}
    /\ retired' = retired \union {[rules |-> active, end |-> clock]}
    /\ UNCHANGED <<cached, counter, screening, alerts, clock, streak, overlap>>

Tick ==
    /\ clock < MaxTime
    /\ \A s \in Screenings : screening[s].step \notin {"fill", "set"}
    /\ clock' = clock + 1
    /\ UNCHANGED <<active, cached, counter, screening, alerts, history>>

Next ==
    \/ \E s \in Screenings :
          \/ \E p \in Processes : RulesCached(s, p) \/ RulesRead(s, p)
          \/ RulesFilled(s)
          \/ \E r \in Rules : \/ CheckTransfers(s, r) \/ GetCount(s, r) \/ SetCount(s, r)
                              \/ SaveAlert(s, r)
          \/ Decide(s) \/ Fails(s)
    \/ \E r \in Rules : SwitchRule(r)
    \/ Tick

Spec == Init /\ [][Next]_vars

-----------------------------------------------------------------------------
(* Every variable has its type.                                            *)
TypeOK ==
    /\ active \subseteq Rules
    /\ \A p \in Processes :
          /\ cached[p].rules \subseteq Rules
          /\ \A v \in Velocity : counter[p][v].count \in 0..Cardinality(Screenings)
    /\ \A s \in Screenings :
          /\ screening[s].step \in {"new", "fill", "check", "set", "over"}
          /\ screening[s].todo \subseteq screening[s].rules
          /\ screening[s].hits \subseteq Rules \ screening[s].todo
          /\ screening[s].verdict \in {"none", "clear", "flagged", "blocked", "error"}
    /\ alerts \subseteq [by : Screenings, rule : Rules]
    /\ clock \in 0..MaxTime

(* What a velocity counter counts: the checks of its process, each within  *)
(* the window of the one before; never more, and exactly those as long as  *)
(* no two checks overlapped.                                               *)
CountIsStreak ==
    \A p \in Processes, v \in Velocity : Live(counter[p][v]) =>
        /\ counter[p][v].count <= streak[p][v].length
        /\ ~overlap[p] => counter[p][v].count = streak[p][v].length

(* A payment is screened with the rules that were active together at one   *)
(* moment, no longer ago than the cache keeps them.                        *)
RulesAreRecent ==
    \A s \in Screenings : screening[s].step \in {"check", "set"} =>
        \/ screening[s].rules = active
        \/ \E old \in retired :
              old.rules = screening[s].rules /\ old.end + RulesTTL >= screening[s].at

(* fraud.service.ts:59: "Save all alerts first."  Whoever is blocked or    *)
(* let through with a flag has an alert of every rule that triggered, and  *)
(* no alert names a rule that the payment was not screened with.           *)
AlertsPrecedeVerdict ==
    /\ \A s \in Screenings : screening[s].verdict \in {"blocked", "flagged"} =>
          {r \in Rules : [by |-> s, rule |-> r] \in alerts} = screening[s].hits
    /\ \A a \in alerts : a.rule \in screening[a.by].hits

(* README.md:127: "blocks > N transactions per rolling hour window".  A    *)
(* velocity rule is over its limit only when the checks that brought its   *)
(* count there have fallen within one window.                              *)
WindowIsRolling ==
    \A p \in Processes, v \in Velocity :
        /\ Live(counter[p][v]) /\ counter[p][v].count > MaxCount
        /\ streak[p][v].length = MaxCount + 1
        => streak[p][v].last - streak[p][v].first <= Window

(* admin.module.ts:260: "Takes effect immediately".  A screening that has  *)
(* just got its rules has the active ones.                                 *)
RulesTakeEffectImmediately ==
    \A s \in Screenings :
        screening[s].step = "check" /\ screening[s].todo = screening[s].rules
            /\ screening[s].at = clock /\ retired # {}
            /\ (\A old \in retired : old.end < clock)
        => screening[s].rules = active
=============================================================================
