------------------------ MODULE FraudScreeningProofs ------------------------
(***************************************************************************)
(* Proofs about FraudScreening, for any screenings, processes, rules,      *)
(* priorities, windows and times.                                          *)
(***************************************************************************)
EXTENDS FraudScreening, FiniteSetTheorems, TLAPS

RulesEntry == [rules : SUBSET Rules, until : Int]
CountEntry == [count : Nat, until : Int]
StreakType == [length : Nat, first : Int, last : Int]
ScreeningType ==
    [step : {"new", "fill", "check", "set", "over"}, process : SUBSET Processes,
     rules : SUBSET Rules, todo : SUBSET Rules, hits : SUBSET Rules,
     counting : SUBSET Velocity, got : Nat,
     verdict : {"none", "clear", "flagged", "blocked", "error"}, at : Nat]

Typed ==
    /\ active \subseteq Rules
    /\ cached \in [Processes -> RulesEntry]
    /\ counter \in [Processes -> [Velocity -> CountEntry]]
    /\ screening \in [Screenings -> ScreeningType]
    /\ alerts \subseteq [by : Screenings, rule : Rules]
    /\ clock \in 0..MaxTime
    /\ retired \subseteq [rules : SUBSET Rules, end : Nat]
    /\ streak \in [Processes -> [Velocity -> StreakType]]
    /\ overlap \in [Processes -> BOOLEAN]

(* What a screening's place says of the rest of its record.                *)
Placed(x) ==
    /\ x.todo \subseteq x.rules
    /\ x.hits \intersect x.todo = {}
    /\ x.step \in {"new", "fill"} => x.todo = {} /\ x.hits = {}
    /\ x.step \in {"fill", "check", "set"} => \E p \in Processes : x.process = {p}
    /\ x.step = "set" => \E v \in x.todo : x.counting = {v}
    /\ x.step # "set" => x.counting = {}
    /\ x.step # "over" => x.verdict = "none"

(* A set of rules was the active one at t, or at some time since.          *)
ActiveSince(rules, t) ==
    \/ rules = active
    \/ \E old \in retired : old.rules = rules /\ old.end >= t

RecentEntry(e) == e.until >= 0 =>
    e.until <= clock + RulesTTL /\ ActiveSince(e.rules, e.until - RulesTTL)

RecentRules(x) ==
    /\ x.at <= clock
    /\ x.step = "fill" => ActiveSince(x.rules, clock)
    /\ x.step \in {"check", "set"} => ActiveSince(x.rules, x.at - RulesTTL)

(* A counter and the streak of its checks; what a check has read of it.    *)
Matching(c, k, overlapped) ==
    \/ c = NoCount /\ k = NoStreak
    \/ /\ k.last \in 0..clock /\ c.until = k.last + Window
       /\ c.count <= k.length
       /\ ~overlapped => c.count = k.length

Kept(c, n) == IF Live(c) THEN n ELSE 0

ReadBefore(x, p, v) == x.step = "set" /\ x.process = {p} /\ x.counting = {v}

Counted ==
    \A p \in Processes, v \in Velocity :
        /\ Matching(counter[p][v], streak[p][v], overlap[p])
        /\ \A s \in Screenings : ReadBefore(screening[s], p, v) =>
              /\ screening[s].got <= Kept(counter[p][v], streak[p][v].length)
              /\ ~overlap[p] => screening[s].got = Kept(counter[p][v], counter[p][v].count)

Alone ==
    \A p \in Processes : ~overlap[p] =>
        \A s, t \in Screenings :
            /\ screening[s].step = "set" /\ screening[s].process = {p}
            /\ screening[t].step = "set" /\ screening[t].process = {p}
            => s = t

(* The screenings that may have counted for v: none of them will again.    *)
DoneRecord(x, v) ==
    x.step = "over" \/ (x.step \in {"check", "set"} /\ v \in x.rules \ x.todo)

Done(v) == {s \in Screenings : DoneRecord(screening[s], v)}

Bounded ==
    \A v \in Velocity :
        /\ \A p \in Processes : counter[p][v].count <= Cardinality(Done(v))
        /\ \A s \in Screenings :
              screening[s].counting = {v} => screening[s].got <= Cardinality(Done(v))

SInv ==
    /\ Typed
    /\ \A s \in Screenings : Placed(screening[s]) /\ RecentRules(screening[s])
    /\ \A p \in Processes : RecentEntry(cached[p])
    /\ Counted /\ Alone /\ Bounded /\ AlertsPrecedeVerdict

LEMMA Times ==
    /\ RulesTTL \in Nat /\ Window \in Nat /\ MaxTime \in Nat /\ MaxCount \in Nat
    /\ Velocity \subseteq Rules
BY FraudAssumption

LEMMA DoneIsFinite ==
    ASSUME NEW v
    PROVE  /\ IsFiniteSet(Done(v)) /\ Cardinality(Done(v)) \in Nat
           /\ Cardinality(Done(v)) <= Cardinality(Screenings)
<1>1. IsFiniteSet(Screenings) /\ Done(v) \subseteq Screenings
  BY FraudAssumption DEF Done
<1> QED
  BY <1>1, FS_Subset, FS_CardinalityType

(* The screenings that are done stay done, and their number grows by one   *)
(* more when a screening that was not is.                                  *)
LEMMA DoneGrows ==
    ASSUME NEW v, NEW s \in Screenings, NEW x,
           screening \in [Screenings -> ScreeningType],
           screening' = [screening EXCEPT ![s] = x],
           DoneRecord(screening[s], v) => DoneRecord(x, v)
    PROVE  /\ Cardinality(Done(v)) <= Cardinality(Done(v)')
           /\ Cardinality(Done(v)') \in Nat
           /\ ~DoneRecord(screening[s], v) /\ DoneRecord(x, v) =>
                Cardinality(Done(v)) + 1 <= Cardinality(Done(v)')
<1> DEFINE before == Done(v)
           after == Done(v)'
<1>1. after = {t \in Screenings : DoneRecord(screening'[t], v)}
  BY DEF Done, DoneRecord
<1>2. \A t \in Screenings : screening'[t] = IF t = s THEN x ELSE screening[t]
  OBVIOUS
<1>3. before \subseteq after
  BY <1>1, <1>2 DEF Done
<1>4. IsFiniteSet(Screenings) /\ after \subseteq Screenings
  BY <1>1, FraudAssumption
<1>5. IsFiniteSet(after) /\ Cardinality(after) \in Nat
  BY <1>4, FS_Subset, FS_CardinalityType
<1>6. IsFiniteSet(before) /\ Cardinality(before) \in Nat
  BY DoneIsFinite
<1>7. Cardinality(before) <= Cardinality(after)
  <2> HIDE DEF before, after
  <2> QED
    BY <1>3, <1>5, FS_Subset
<1>8. ASSUME ~DoneRecord(screening[s], v), DoneRecord(x, v)
      PROVE  Cardinality(before) + 1 <= Cardinality(after)
  <2>1. s \notin before
    BY <1>8 DEF Done
  <2>2. s \in after
    BY <1>1, <1>2, <1>8
  <2>3. before \union {s} \subseteq after
    BY <1>3, <2>2
  <2> HIDE DEF before, after
  <2>4. Cardinality(before \union {s}) = Cardinality(before) + 1
    BY <1>6, <2>1, FS_AddElement
  <2>5. Cardinality(before \union {s}) <= Cardinality(after)
    BY <1>5, <2>3, FS_Subset
  <2> QED
    BY <2>4, <2>5
<1> HIDE DEF before
<1> QED
  BY <1>5, <1>7, <1>8 DEF before

-----------------------------------------------------------------------------
(* One screening moves on, and maybe the cached rules change.              *)
LEMMA ScreeningStep ==
    ASSUME SInv, NEW s \in Screenings, NEW x \in ScreeningType,
           Placed(x), RecentRules(x), x.step # "set",
           \A v \in Velocity : DoneRecord(screening[s], v) => DoneRecord(x, v),
           screening[s].hits \subseteq x.hits,
           x.verdict \in {"blocked", "flagged"} =>
               {r \in Rules : [by |-> s, rule |-> r] \in alerts} = x.hits,
           Becomes(s, x),
           cached' \in [Processes -> RulesEntry], \A p \in Processes : RecentEntry(cached'[p]),
           UNCHANGED <<active, counter, alerts, clock, history>>
    PROVE  SInv'
<1>1. /\ Typed /\ screening \in [Screenings -> ScreeningType]
      /\ screening' = [screening EXCEPT ![s] = x]
      /\ \A t \in Screenings : screening'[t] = IF t = s THEN x ELSE screening[t]
      /\ UNCHANGED <<active, counter, alerts, clock, retired, streak, overlap>>
  BY DEF SInv, Typed, Becomes, history
<1>2. Typed'
  BY <1>1 DEF Typed
<1>3. \A t \in Screenings : Placed(screening[t])' /\ RecentRules(screening[t])'
  <2>1. ASSUME NEW y, Placed(y), RecentRules(y) PROVE Placed(y)' /\ RecentRules(y)'
    BY <1>1, <2>1 DEF Placed, RecentRules, ActiveSince
  <2>2. \A t \in Screenings : Placed(screening'[t]) /\ RecentRules(screening'[t])
    BY <1>1 DEF SInv
  <2> QED
    BY <2>1, <2>2 DEF Placed, RecentRules, ActiveSince
<1>4. \A p \in Processes : RecentEntry(cached[p])'
  BY <1>1 DEF RecentEntry, ActiveSince
<1>5. Counted'
  <2>1. ASSUME NEW p \in Processes, NEW v \in Velocity
        PROVE  Matching(counter[p][v], streak[p][v], overlap[p])'
    BY <1>1 DEF SInv, Counted, Matching
  <2>2. ASSUME NEW p \in Processes, NEW v \in Velocity, NEW t \in Screenings,
               ReadBefore(screening'[t], p, v)
        PROVE  /\ screening[t].got <= Kept(counter[p][v], streak[p][v].length)
               /\ ~overlap[p] => screening[t].got = Kept(counter[p][v], counter[p][v].count)
               /\ screening'[t] = screening[t]
    BY <1>1, <2>2 DEF SInv, Counted, ReadBefore
  <2>3. \A c, n : Kept(c, n)' = Kept(c, n)
    BY <1>1 DEF Kept, Live
  <2> QED
    BY <1>1, <2>1, <2>2, <2>3 DEF Counted, ReadBefore, Kept, Live
<1>6. Alone'
  BY <1>1 DEF SInv, Alone
<1>7. Bounded'
  <2> SUFFICES ASSUME NEW v \in Velocity
               PROVE  /\ \A p \in Processes : counter'[p][v].count <= Cardinality(Done(v)')
                      /\ \A t \in Screenings : screening'[t].counting = {v} =>
                            screening'[t].got <= Cardinality(Done(v)')
    BY DEF Bounded
  <2>1. Cardinality(Done(v)) <= Cardinality(Done(v)') /\ Cardinality(Done(v)') \in Nat
    BY <1>1, DoneGrows
  <2>2. Cardinality(Done(v)) \in Nat
    BY DoneIsFinite
  <2>3. x.counting # {v}
    BY DEF Placed
  <2>4. \A p \in Processes : counter[p][v].count \in Nat
    BY <1>1 DEF Typed, CountEntry
  <2>5. \A t \in Screenings : screening[t].got \in Nat
    BY <1>1 DEF ScreeningType
  <2> QED
    BY <1>1, <2>1, <2>2, <2>3, <2>4, <2>5 DEF SInv, Bounded
<1>8. AlertsPrecedeVerdict'
  BY <1>1 DEF SInv, AlertsPrecedeVerdict
<1> QED
  BY <1>2, <1>3, <1>4, <1>5, <1>6, <1>7, <1>8 DEF SInv

(* Where a screening is and what it holds, as one fact.                    *)
LEMMA ScreeningFacts ==
    ASSUME SInv, NEW s \in Screenings
    PROVE  /\ Typed /\ clock \in Nat /\ screening[s] \in ScreeningType
           /\ screening \in [Screenings -> ScreeningType]
           /\ Placed(screening[s]) /\ RecentRules(screening[s])
           /\ \A p \in Processes : cached[p] \in RulesEntry /\ RecentEntry(cached[p])
           /\ cached \in [Processes -> RulesEntry]
BY Times DEF SInv, Typed

LEMMA CachedStep ==
    ASSUME SInv, NEW s \in Screenings, NEW p \in Processes, RulesCached(s, p)
    PROVE  SInv'
<1> DEFINE x == [Checking(s, cached[p].rules) EXCEPT !.process = {p}]
<1>1. /\ screening[s].step = "new" /\ clock <= cached[p].until
      /\ Becomes(s, x) /\ UNCHANGED <<active, cached, counter, alerts, clock, history>>
  BY DEF RulesCached, At, Live
<1>2. /\ cached[p] \in RulesEntry /\ RecentEntry(cached[p]) /\ clock \in Nat
      /\ screening[s] \in ScreeningType /\ Placed(screening[s])
      /\ retired \subseteq [rules : SUBSET Rules, end : Nat]
  BY ScreeningFacts DEF Typed
<1>3. x = [screening[s] EXCEPT !.step = "check", !.process = {p}, !.rules = cached[p].rules,
                               !.todo = cached[p].rules, !.at = clock]
  BY <1>2 DEF Checking, ScreeningType
<1> HIDE DEF x
<1>4. /\ x \in ScreeningType /\ x.step = "check" /\ x.process = {p}
      /\ x.rules = cached[p].rules /\ x.todo = x.rules /\ x.at = clock
      /\ x.hits = screening[s].hits /\ x.counting = screening[s].counting
      /\ x.verdict = screening[s].verdict
  BY <1>2, <1>3 DEF ScreeningType, RulesEntry
<1>5. Placed(x)
  BY <1>1, <1>2, <1>4 DEF Placed
<1>6. ActiveSince(x.rules, clock - RulesTTL)
  BY <1>1, <1>2, <1>4, Times DEF RecentEntry, RulesEntry, ActiveSince
<1>7. RecentRules(x)
  BY <1>2, <1>4, <1>6 DEF RecentRules
<1>8. \A v \in Velocity : ~DoneRecord(screening[s], v)
  BY <1>1 DEF DoneRecord
<1>9. x.verdict = "none"
  BY <1>1, <1>2, <1>4 DEF Placed
<1> QED
  BY <1>1, <1>4, <1>5, <1>7, <1>8, <1>9, ScreeningFacts, ScreeningStep

LEMMA RulesReadStep ==
    ASSUME SInv, NEW s \in Screenings, NEW p \in Processes, RulesRead(s, p)
    PROVE  SInv'
<1> DEFINE x == [screening[s] EXCEPT !.step = "fill", !.process = {p}, !.rules = active]
<1>1. /\ screening[s].step = "new" /\ Becomes(s, x)
      /\ UNCHANGED <<active, cached, counter, alerts, clock, history>>
  BY DEF RulesRead, At
<1>2. /\ screening[s] \in ScreeningType /\ Placed(screening[s]) /\ RecentRules(screening[s])
      /\ active \subseteq Rules
  BY ScreeningFacts DEF Typed
<1>3. /\ x \in ScreeningType /\ x.step = "fill" /\ x.process = {p} /\ x.rules = active
      /\ x.todo = screening[s].todo /\ x.at = screening[s].at
      /\ x.hits = screening[s].hits /\ x.counting = screening[s].counting
      /\ x.verdict = screening[s].verdict
  BY <1>2 DEF ScreeningType
<1> HIDE DEF x
<1>4. Placed(x) /\ x.verdict = "none"
  BY <1>1, <1>2, <1>3 DEF Placed
<1>5. RecentRules(x)
  BY <1>2, <1>3 DEF RecentRules, ActiveSince
<1>6. \A v \in Velocity : ~DoneRecord(screening[s], v)
  BY <1>1 DEF DoneRecord
<1> QED
  BY <1>1, <1>3, <1>4, <1>5, <1>6, ScreeningFacts, ScreeningStep

LEMMA FilledStep ==
    ASSUME SInv, NEW s \in Screenings, RulesFilled(s)
    PROVE  SInv'
<1> DEFINE x == Checking(s, screening[s].rules)
<1>1. /\ screening[s].step = "fill" /\ Becomes(s, x)
      /\ UNCHANGED <<active, counter, alerts, clock, history>>
  BY DEF RulesFilled, At
<1>2. /\ screening[s] \in ScreeningType /\ Placed(screening[s]) /\ RecentRules(screening[s])
      /\ clock \in Nat /\ retired \subseteq [rules : SUBSET Rules, end : Nat]
      /\ cached \in [Processes -> RulesEntry]
  BY ScreeningFacts DEF Typed
<1>3. x = [screening[s] EXCEPT !.step = "check", !.rules = screening[s].rules,
                               !.todo = screening[s].rules, !.at = clock]
  BY DEF Checking
<1> HIDE DEF x
<1>4. /\ x \in ScreeningType /\ x.step = "check" /\ x.process = screening[s].process
      /\ x.rules = screening[s].rules /\ x.todo = x.rules /\ x.at = clock
      /\ x.hits = screening[s].hits /\ x.counting = screening[s].counting
      /\ x.verdict = screening[s].verdict
  BY <1>2, <1>3 DEF ScreeningType
<1>5. Placed(x) /\ x.verdict = "none"
  BY <1>1, <1>2, <1>4 DEF Placed
<1>6. ActiveSince(x.rules, clock - RulesTTL)
  BY <1>1, <1>2, <1>4, Times DEF RecentRules, ActiveSince
<1>7. RecentRules(x)
  BY <1>2, <1>4, <1>6 DEF RecentRules
<1>8. \A v \in Velocity : ~DoneRecord(screening[s], v)
  BY <1>1 DEF DoneRecord
<1> DEFINE e == [rules |-> screening[s].rules, until |-> clock + RulesTTL]
<1>9. e \in RulesEntry /\ RecentEntry(e)
  <2>1. e.until \in Int /\ e.until - RulesTTL = clock /\ e.rules = x.rules
    BY <1>2, <1>4, Times
  <2>2. ActiveSince(x.rules, clock)
    BY <1>1, <1>2, <1>4 DEF RecentRules
  <2> QED
    BY <1>2, <2>1, <2>2 DEF RecentEntry, RulesEntry, ScreeningType
<1>10. cached' \in [Processes -> RulesEntry] /\ \A p \in Processes : RecentEntry(cached'[p])
  <2>1. PICK p \in screening[s].process : cached' = [cached EXCEPT ![p] = e]
    BY DEF RulesFilled
  <2> HIDE DEF e
  <2> QED
    BY <1>2, <1>9, <2>1, ScreeningFacts
<1> QED
  BY <1>1, <1>4, <1>5, <1>7, <1>8, <1>10, ScreeningStep

(* What Checked leaves, for a rule that was still to be checked.           *)
LEMMA CheckedFacts ==
    ASSUME SInv, NEW s \in Screenings, NEW r \in screening[s].todo, NEW triggered \in BOOLEAN,
           screening[s].step \in {"check", "set"}
    PROVE  LET x == Checked(s, r, triggered)
           IN  /\ x \in ScreeningType /\ Placed(x) /\ RecentRules(x) /\ x.step = "check"
               /\ x.verdict = "none" /\ screening[s].hits \subseteq x.hits
               /\ \A v : DoneRecord(screening[s], v) => DoneRecord(x, v)
               /\ ~DoneRecord(screening[s], r) /\ DoneRecord(x, r)
<1> DEFINE x == Checked(s, r, triggered)
<1>1. screening[s] \in ScreeningType /\ Placed(screening[s]) /\ RecentRules(screening[s])
  BY ScreeningFacts
<1>2. r \in Rules /\ r \in screening[s].rules
  BY <1>1 DEF Placed, ScreeningType
<1>3. /\ x \in ScreeningType /\ x.step = "check" /\ x.process = screening[s].process
      /\ x.rules = screening[s].rules /\ x.todo = screening[s].todo \ {r}
      /\ x.at = screening[s].at /\ x.counting = {} /\ x.verdict = screening[s].verdict
      /\ screening[s].hits \subseteq x.hits /\ x.hits \subseteq screening[s].hits \union {r}
  BY <1>1, <1>2 DEF Checked, ScreeningType
<1> HIDE DEF x
<1>4. Placed(x) /\ x.verdict = "none"
  BY <1>1, <1>3 DEF Placed
<1>5. RecentRules(x)
  BY <1>1, <1>3 DEF RecentRules
<1>6. \A v : DoneRecord(screening[s], v) => DoneRecord(x, v)
  BY <1>3 DEF DoneRecord
<1>7. ~DoneRecord(screening[s], r) /\ DoneRecord(x, r)
  BY <1>2, <1>3 DEF DoneRecord
<1> QED
  BY <1>3, <1>4, <1>5, <1>6, <1>7 DEF x

LEMMA TransfersStep ==
    ASSUME SInv, NEW s \in Screenings, NEW r \in Rules, CheckTransfers(s, r)
    PROVE  SInv'
<1>1. PICK triggered \in BOOLEAN : Becomes(s, Checked(s, r, triggered))
  BY DEF CheckTransfers
<1>2. /\ screening[s].step = "check" /\ r \in screening[s].todo
      /\ UNCHANGED <<active, cached, counter, alerts, clock, history>>
  BY DEF CheckTransfers, At, Turn
<1> DEFINE x == Checked(s, r, triggered)
<1>3. /\ x \in ScreeningType /\ Placed(x) /\ RecentRules(x) /\ x.step = "check"
      /\ x.verdict = "none" /\ screening[s].hits \subseteq x.hits
      /\ \A v : DoneRecord(screening[s], v) => DoneRecord(x, v)
  BY <1>2, CheckedFacts
<1> HIDE DEF x
<1> QED
  BY <1>1, <1>2, <1>3, ScreeningFacts, ScreeningStep DEF x

(* A screening ends, with an error or with the verdict on its hits.        *)
LEMMA OverFacts ==
    ASSUME SInv, NEW s \in Screenings, NEW verdict \in {"clear", "flagged", "blocked", "error"}
    PROVE  LET x == Over(s, verdict)
           IN  /\ x \in ScreeningType /\ Placed(x) /\ RecentRules(x) /\ x.step = "over"
               /\ x.verdict = verdict /\ x.hits = screening[s].hits
               /\ \A v : DoneRecord(x, v)
<1> DEFINE x == Over(s, verdict)
<1>1. screening[s] \in ScreeningType /\ clock \in Nat
  BY ScreeningFacts
<1>2. /\ x.step = "over" /\ x.rules = {} /\ x.todo = {} /\ x.hits = screening[s].hits
      /\ x.counting = {} /\ x.verdict = verdict /\ x.at = 0
  BY DEF Over, NewScreening
<1>3. x \in ScreeningType
  <2>1. NewScreening \in ScreeningType
    BY DEF NewScreening, ScreeningType
  <2> QED
    BY <1>1, <2>1 DEF Over, ScreeningType
<1> HIDE DEF x
<1>4. Placed(x) /\ RecentRules(x) /\ \A v : DoneRecord(x, v)
  BY <1>1, <1>2 DEF Placed, RecentRules, DoneRecord
<1> QED
  BY <1>2, <1>3, <1>4 DEF x

LEMMA DecideStep ==
    ASSUME SInv, NEW s \in Screenings, Decide(s)
    PROVE  SInv'
<1> DEFINE verdict == Verdict(screening[s].hits)
           x == Over(s, verdict)
<1>1. /\ \A r \in screening[s].hits : [by |-> s, rule |-> r] \in alerts
      /\ Becomes(s, x) /\ UNCHANGED <<active, cached, counter, alerts, clock, history>>
  BY DEF Decide
<1>2. verdict \in {"clear", "flagged", "blocked", "error"}
  BY DEF Verdict
<1>3. /\ x \in ScreeningType /\ Placed(x) /\ RecentRules(x) /\ x.step = "over"
      /\ x.hits = screening[s].hits /\ \A v : DoneRecord(x, v)
  BY <1>2, OverFacts
<1>4. {r \in Rules : [by |-> s, rule |-> r] \in alerts} = screening[s].hits
  <2>1. screening[s].hits \subseteq Rules
    BY ScreeningFacts DEF ScreeningType
  <2>2. \A a \in alerts : a.rule \in screening[a.by].hits
    BY DEF SInv, AlertsPrecedeVerdict
  <2>3. \A r \in Rules : [by |-> s, rule |-> r] \in alerts => r \in screening[s].hits
    BY <2>2
  <2> QED
    BY <1>1, <2>1, <2>3
<1> HIDE DEF x
<1> QED
  BY <1>1, <1>3, <1>4, ScreeningFacts, ScreeningStep

LEMMA FailsStep ==
    ASSUME SInv, NEW s \in Screenings, Fails(s)
    PROVE  SInv'
<1> DEFINE x == Over(s, "error")
<1>1. Becomes(s, x) /\ UNCHANGED <<active, cached, counter, alerts, clock, history>>
  BY DEF Fails
<1>2. /\ x \in ScreeningType /\ Placed(x) /\ RecentRules(x) /\ x.step = "over"
      /\ x.hits = screening[s].hits /\ x.verdict = "error" /\ \A v : DoneRecord(x, v)
  BY OverFacts
<1> HIDE DEF x
<1> QED
  BY <1>1, <1>2, ScreeningFacts, ScreeningStep

-----------------------------------------------------------------------------
(* A velocity rule: the counter is read, and then written.                 *)
LEMMA GetStep ==
    ASSUME SInv, NEW s \in Screenings, NEW v \in Rules, GetCount(s, v)
    PROVE  SInv'
<1>1. PICK p \in screening[s].process :
          /\ Becomes(s, [screening[s] EXCEPT !.step = "set", !.counting = {v},
                !.got = IF Live(counter[p][v]) THEN counter[p][v].count ELSE 0])
          /\ overlap' = [overlap EXCEPT ![p] = @ \/ \E t \in Screenings :
                                           At(t, "set") /\ screening[t].process = {p}]
  BY DEF GetCount
<1> DEFINE got == Kept(counter[p][v], counter[p][v].count)
           x == [screening[s] EXCEPT !.step = "set", !.counting = {v}, !.got = got]
           busy == \E t \in Screenings : At(t, "set") /\ screening[t].process = {p}
<1>2. /\ screening[s].step = "check" /\ v \in screening[s].todo /\ v \in Velocity
      /\ UNCHANGED <<active, cached, counter, alerts, clock, retired, streak>>
      /\ screening' = [screening EXCEPT ![s] = x]
  BY <1>1 DEF GetCount, At, Turn, Becomes, Kept
<1>3. /\ Typed /\ screening[s] \in ScreeningType /\ Placed(screening[s])
      /\ RecentRules(screening[s]) /\ screening \in [Screenings -> ScreeningType]
      /\ p \in Processes /\ screening[s].process = {p}
  <2>1. screening[s] \in ScreeningType /\ Placed(screening[s])
    BY ScreeningFacts
  <2> QED
    BY <1>1, <1>2, <2>1, ScreeningFacts DEF Placed
<1>4. got \in Nat
  BY <1>2, <1>3 DEF Typed, Kept, CountEntry
<1> HIDE DEF got
<1>5. /\ x \in ScreeningType /\ x.step = "set" /\ x.process = {p} /\ x.counting = {v}
      /\ x.got = got /\ x.rules = screening[s].rules /\ x.todo = screening[s].todo
      /\ x.hits = screening[s].hits /\ x.verdict = screening[s].verdict
      /\ x.at = screening[s].at
  BY <1>2, <1>3, <1>4 DEF ScreeningType
<1> HIDE DEF x, busy
<1>6. \A t \in Screenings : screening'[t] = IF t = s THEN x ELSE screening[t]
  BY <1>2, <1>3
<1>7. /\ overlap' \in [Processes -> BOOLEAN]
      /\ \A q \in Processes : ~overlap'[q] => ~overlap[q]
      /\ ~overlap'[p] => ~busy
  BY <1>1, <1>3 DEF Typed, busy
<1>8. Typed'
  BY <1>2, <1>3, <1>5, <1>7 DEF Typed
<1>9. \A t \in Screenings : Placed(screening[t])' /\ RecentRules(screening[t])'
  <2>1. ASSUME NEW y, Placed(y), RecentRules(y) PROVE Placed(y)' /\ RecentRules(y)'
    BY <1>2, <2>1 DEF Placed, RecentRules, ActiveSince
  <2>2. Placed(x) /\ RecentRules(x)
    BY <1>2, <1>3, <1>5 DEF Placed, RecentRules
  <2>3. \A t \in Screenings : Placed(screening'[t]) /\ RecentRules(screening'[t])
    BY <1>6, <2>2 DEF SInv
  <2> QED
    BY <2>1, <2>3 DEF Placed, RecentRules, ActiveSince
<1>10. \A q \in Processes : RecentEntry(cached[q])'
  BY <1>2 DEF SInv, RecentEntry, ActiveSince
<1>11. Counted'
  <2>1. \A c, n : Kept(c, n)' = Kept(c, n)
    BY <1>2 DEF Kept, Live
  <2>2. ASSUME NEW q \in Processes, NEW w \in Velocity
        PROVE  Matching(counter[q][w], streak[q][w], overlap[q])'
    BY <1>2, <1>7 DEF SInv, Counted, Matching
  <2>3. ASSUME NEW q \in Processes, NEW w \in Velocity, NEW t \in Screenings,
               ReadBefore(screening'[t], q, w)
        PROVE  /\ screening'[t].got <= Kept(counter[q][w], streak[q][w].length)
               /\ ~overlap'[q] => screening'[t].got = Kept(counter[q][w], counter[q][w].count)
    <3>1. CASE t # s
      BY <1>6, <1>7, <2>3, <3>1 DEF SInv, Counted, ReadBefore
    <3>2. CASE t = s
      <4>1. q = p /\ w = v /\ screening'[t].got = got
        BY <1>5, <1>6, <2>3, <3>2 DEF ReadBefore
      <4>2. Matching(counter[p][v], streak[p][v], overlap[p])
        BY <1>2, <1>3 DEF SInv, Counted
      <4>3. counter[p][v] \in CountEntry /\ streak[p][v] \in StreakType
        BY <1>2, <1>3 DEF Typed
      <4>4. got <= Kept(counter[p][v], streak[p][v].length)
        BY <4>2, <4>3 DEF got, Matching, Kept, NoCount, NoStreak, CountEntry, StreakType
      <4> QED
        BY <4>1, <4>4 DEF got
    <3> QED
      BY <3>1, <3>2
  <2> QED
    BY <1>2, <2>1, <2>2, <2>3 DEF Counted, ReadBefore, Kept, Live
<1>12. Alone'
  <2> SUFFICES ASSUME NEW q \in Processes, ~overlap'[q], NEW t \in Screenings, NEW u \in Screenings,
                      screening'[t].step = "set", screening'[t].process = {q},
                      screening'[u].step = "set", screening'[u].process = {q}
               PROVE  t = u
    BY DEF Alone
  <2>1. CASE t # s /\ u # s
    BY <1>6, <1>7, <2>1 DEF SInv, Alone
  <2>2. CASE t = s \/ u = s
    <3>1. q = p
      BY <1>5, <1>6, <2>2
    <3>2. ~busy
      BY <1>7, <3>1
    <3>3. \A y \in Screenings : y # s => ~(screening'[y].step = "set" /\ screening'[y].process = {p})
      BY <1>6, <3>2 DEF busy, At
    <3> QED
      BY <3>1, <3>3
  <2> QED
    BY <2>1, <2>2
<1>13. Bounded'
  <2> SUFFICES ASSUME NEW w \in Velocity
               PROVE  /\ \A q \in Processes : counter'[q][w].count <= Cardinality(Done(w)')
                      /\ \A t \in Screenings : screening'[t].counting = {w} =>
                            screening'[t].got <= Cardinality(Done(w)')
    BY DEF Bounded
  <2>1. DoneRecord(screening[s], w) => DoneRecord(x, w)
    BY <1>2, <1>5 DEF DoneRecord
  <2>2. Cardinality(Done(w)) <= Cardinality(Done(w)') /\ Cardinality(Done(w)') \in Nat
    BY <1>2, <1>3, <2>1, DoneGrows
  <2>3. Cardinality(Done(w)) \in Nat
    BY DoneIsFinite
  <2>4. \A q \in Processes : counter[q][w].count \in Nat /\ counter[q][w].count <= Cardinality(Done(w))
    BY <1>3 DEF Typed, CountEntry, SInv, Bounded
  <2>5. \A t \in Screenings : screening[t].got \in Nat /\
            (screening[t].counting = {w} => screening[t].got <= Cardinality(Done(w)))
    BY <1>3 DEF ScreeningType, SInv, Bounded
  <2>6. w = v => got <= Cardinality(Done(w))
    BY <1>3, <2>3, <2>4 DEF got, Kept
  <2> QED
    BY <1>2, <1>4, <1>5, <1>6, <2>2, <2>3, <2>4, <2>5, <2>6
<1>14. AlertsPrecedeVerdict'
  BY <1>2, <1>5, <1>6 DEF SInv, AlertsPrecedeVerdict
<1> QED
  BY <1>8, <1>9, <1>10, <1>11, <1>12, <1>13, <1>14 DEF SInv

(* A check extends the streak exactly when the counter is still there.     *)
LEMMA ExtendedFacts ==
    ASSUME NEW c \in CountEntry, NEW k \in StreakType, NEW o, Matching(c, k, o), clock \in Nat
    PROVE  /\ Extended(k) \in StreakType /\ Extended(k).last = clock
           /\ Extended(k).length = Kept(c, k.length) + 1
           /\ ~o => Kept(c, k.length) = Kept(c, c.count)
<1>1. CASE c = NoCount /\ k = NoStreak
  <2>1. ~Live(c) /\ ~(k.last >= 0)
    BY <1>1 DEF Live, NoCount, NoStreak
  <2>2. Extended(k) = [length |-> 1, first |-> clock, last |-> clock] /\ Kept(c, k.length) = 0
    BY <2>1 DEF Extended, Kept
  <2> QED
    BY <2>1, <2>2 DEF StreakType, Kept
<1>2. CASE k.last \in 0..clock /\ c.until = k.last + Window /\ (~o => c.count = k.length)
  <2>1. k.last >= 0 /\ (Live(c) <=> clock - k.last <= Window)
    BY <1>2, Times DEF Live
  <2>2. CASE Live(c)
    <3>1. Extended(k) = [k EXCEPT !.length = @ + 1, !.last = clock]
      BY <2>1, <2>2 DEF Extended
    <3>2. /\ Extended(k) \in StreakType /\ Extended(k).last = clock
          /\ Extended(k).length = k.length + 1
      <4>1. k.length \in Nat /\ k.first \in Int /\ clock \in Int
        BY DEF StreakType
      <4>2. Extended(k) = [length |-> k.length + 1, first |-> k.first, last |-> clock]
        BY <3>1 DEF StreakType
      <4> QED
        BY <4>1, <4>2 DEF StreakType
    <3> QED
      BY <1>2, <2>2, <3>2 DEF Kept
  <2>3. CASE ~Live(c)
    BY <1>2, <2>1, <2>3 DEF Extended, Kept, StreakType
  <2> QED
    BY <2>2, <2>3
<1> QED
  BY <1>1, <1>2 DEF Matching

LEMMA SetStep ==
    ASSUME SInv, NEW s \in Screenings, NEW v \in Rules, SetCount(s, v)
    PROVE  SInv'
<1> DEFINE got == screening[s].got
           triggered == got + 1 > MaxCount
           x == Checked(s, v, triggered)
<1>1. /\ Typed /\ clock \in Nat /\ screening[s] \in ScreeningType
      /\ screening \in [Screenings -> ScreeningType]
      /\ screening[s].step = "set" /\ v \in screening[s].counting
      /\ Becomes(s, x) /\ UNCHANGED <<active, cached, alerts, clock, retired, overlap>>
  BY ScreeningFacts DEF SetCount, At
<1>2. PICK p \in Processes : screening[s].process = {p}
  BY <1>1, ScreeningFacts DEF Placed
<1>3. v \in screening[s].todo /\ screening[s].counting = {v} /\ v \in Velocity
  <2>1. Placed(screening[s])
    BY ScreeningFacts
  <2> QED
    BY <1>1, <2>1 DEF Placed, ScreeningType
<1> DEFINE c == counter[p][v]
           k == streak[p][v]
           newc == [count |-> got + 1, until |-> clock + Window]
           newk == Extended(k)
<1>4. counter' = [counter EXCEPT ![p][v] = newc] /\ streak' = [streak EXCEPT ![p][v] = newk]
  BY <1>2 DEF SetCount, SetCounter
<1>5. c \in CountEntry /\ k \in StreakType /\ got \in Nat /\ newc \in CountEntry
  BY <1>1, <1>3, Times DEF Typed, ScreeningType, CountEntry
<1>6. /\ Matching(c, k, overlap[p])
      /\ got <= Kept(c, k.length)
      /\ ~overlap[p] => got = Kept(c, c.count)
  BY <1>1, <1>2, <1>3 DEF SInv, Counted, ReadBefore
<1>7. /\ newk \in StreakType /\ newk.last = clock
      /\ newk.length = Kept(c, k.length) + 1
      /\ ~overlap[p] => Kept(c, k.length) = Kept(c, c.count)
  <2>1. clock \in Nat /\ c \in CountEntry /\ k \in StreakType /\ Matching(c, k, overlap[p])
    BY <1>1, <1>5, <1>6
  <2> HIDE DEF c, k
  <2> QED
    BY <2>1, ExtendedFacts
<1>8. /\ x \in ScreeningType /\ Placed(x) /\ RecentRules(x) /\ x.step = "check"
      /\ x.verdict = "none" /\ screening[s].hits \subseteq x.hits
      /\ \A w : DoneRecord(screening[s], w) => DoneRecord(x, w)
      /\ ~DoneRecord(screening[s], v) /\ DoneRecord(x, v)
  <2>1. triggered \in BOOLEAN
    OBVIOUS
  <2> HIDE DEF triggered
  <2> QED
    BY <1>1, <1>3, <2>1, CheckedFacts
<1> HIDE DEF x, newk, triggered
<1>9. \A t \in Screenings : screening'[t] = IF t = s THEN x ELSE screening[t]
  BY <1>1 DEF Becomes
<1>10. \A q \in Processes, w \in Velocity :
          /\ counter'[q][w] = IF q = p /\ w = v THEN newc ELSE counter[q][w]
          /\ streak'[q][w] = IF q = p /\ w = v THEN newk ELSE streak[q][w]
  BY <1>1, <1>4 DEF Typed
<1>11. Typed'
  <2>1. counter' \in [Processes -> [Velocity -> CountEntry]]
    BY <1>1, <1>2, <1>3, <1>4, <1>5 DEF Typed
  <2>2. streak' \in [Processes -> [Velocity -> StreakType]]
    BY <1>1, <1>2, <1>3, <1>4, <1>7 DEF Typed
  <2>3. screening' \in [Screenings -> ScreeningType]
    BY <1>1, <1>8 DEF Becomes
  <2> QED
    BY <1>1, <2>1, <2>2, <2>3 DEF Typed
<1>12. \A t \in Screenings : Placed(screening[t])' /\ RecentRules(screening[t])'
  <2>1. ASSUME NEW y, Placed(y), RecentRules(y) PROVE Placed(y)' /\ RecentRules(y)'
    BY <1>1, <2>1 DEF Placed, RecentRules, ActiveSince
  <2>2. \A t \in Screenings : Placed(screening'[t]) /\ RecentRules(screening'[t])
    BY <1>8, <1>9 DEF SInv
  <2> QED
    BY <2>1, <2>2 DEF Placed, RecentRules, ActiveSince
<1>13. \A q \in Processes : RecentEntry(cached[q])'
  BY <1>1 DEF SInv, RecentEntry, ActiveSince
<1>14. Matching(newc, newk, overlap[p])
  <2>1. newc.until = newk.last + Window /\ newk.last \in 0..clock
    BY <1>1, <1>7
  <2>2. newc.count = got + 1 /\ got + 1 <= newk.length /\ (~overlap[p] => got + 1 = newk.length)
    BY <1>5, <1>6, <1>7 DEF Kept, StreakType
  <2> QED
    BY <2>1, <2>2 DEF Matching
<1>15. Counted'
  <2>1. \A e, n : Kept(e, n)' = Kept(e, n)
    BY <1>1 DEF Kept, Live
  <2>2. ASSUME NEW q \in Processes, NEW w \in Velocity
        PROVE  Matching(counter[q][w], streak[q][w], overlap[q])'
    <3>1. Matching(counter'[q][w], streak'[q][w], overlap[q])
      BY <1>10, <1>14 DEF SInv, Counted
    <3> QED
      BY <1>1, <3>1 DEF Matching
  <2>3. ASSUME NEW q \in Processes, NEW w \in Velocity, NEW t \in Screenings,
               ReadBefore(screening'[t], q, w)
        PROVE  /\ screening'[t].got <= Kept(counter'[q][w], streak'[q][w].length)
               /\ ~overlap[q] => screening'[t].got = Kept(counter'[q][w], counter'[q][w].count)
    <3>1. t # s /\ screening'[t] = screening[t] /\ ReadBefore(screening[t], q, w)
      BY <1>8, <1>9, <2>3 DEF ReadBefore
    <3>2. /\ screening[t].got <= Kept(counter[q][w], streak[q][w].length)
          /\ ~overlap[q] => screening[t].got = Kept(counter[q][w], counter[q][w].count)
      BY <3>1 DEF SInv, Counted
    <3>3. CASE ~(q = p /\ w = v)
      BY <1>10, <3>1, <3>2, <3>3
    <3>4. CASE q = p /\ w = v
      <4>1. overlap[p]
        BY <1>1, <1>2, <3>1, <3>4 DEF SInv, Alone, ReadBefore
      <4>2. Kept(newc, newk.length) = newk.length
        BY <1>1, Times DEF Kept, Live
      <4>3. screening[t].got \in Nat /\ Kept(c, k.length) \in Nat
        BY <1>1, <1>5 DEF ScreeningType, Kept, StreakType
      <4>4. screening[t].got <= Kept(c, k.length)
        BY <3>2, <3>4
      <4> QED
        BY <1>7, <1>10, <3>1, <3>4, <4>1, <4>2, <4>3, <4>4
    <3> QED
      BY <3>3, <3>4
  <2> QED
    BY <1>1, <2>1, <2>2, <2>3 DEF Counted, ReadBefore, Kept, Live
<1>16. Alone'
  BY <1>1, <1>8, <1>9 DEF SInv, Alone
<1>17. Bounded'
  <2> SUFFICES ASSUME NEW w \in Velocity
               PROVE  /\ \A q \in Processes : counter'[q][w].count <= Cardinality(Done(w)')
                      /\ \A t \in Screenings : screening'[t].counting = {w} =>
                            screening'[t].got <= Cardinality(Done(w)')
    BY DEF Bounded
  <2>1. /\ Cardinality(Done(w)) <= Cardinality(Done(w)') /\ Cardinality(Done(w)') \in Nat
        /\ w = v => Cardinality(Done(w)) + 1 <= Cardinality(Done(w)')
    BY <1>1, <1>8, DoneGrows DEF Becomes
  <2>2. Cardinality(Done(w)) \in Nat
    BY DoneIsFinite
  <2>3. \A q \in Processes : counter[q][w].count \in Nat /\ counter[q][w].count <= Cardinality(Done(w))
    BY <1>1 DEF Typed, CountEntry, SInv, Bounded
  <2>4. \A t \in Screenings : screening[t].got \in Nat /\
            (screening[t].counting = {w} => screening[t].got <= Cardinality(Done(w)))
    BY <1>1 DEF ScreeningType, SInv, Bounded
  <2>5. w = v => newc.count <= Cardinality(Done(w)')
    BY <1>3, <1>5, <2>1, <2>2, <2>4
  <2>6. x.counting = {}
    BY <1>8 DEF Placed
  <2> QED
    BY <1>9, <1>10, <2>1, <2>2, <2>3, <2>4, <2>5, <2>6
<1>18. AlertsPrecedeVerdict'
  <2>1. /\ \A t \in Screenings : screening[t].hits \subseteq screening'[t].hits
        /\ \A t \in Screenings : screening'[t].verdict \in {"blocked", "flagged"} =>
              screening'[t] = screening[t]
    BY <1>8, <1>9
  <2>2. \A a \in alerts : a.by \in Screenings
    BY <1>1 DEF Typed
  <2> QED
    BY <1>1, <2>1, <2>2 DEF SInv, AlertsPrecedeVerdict
<1> QED
  BY <1>11, <1>12, <1>13, <1>15, <1>16, <1>17, <1>18 DEF SInv

-----------------------------------------------------------------------------
(* The steps that leave the screenings alone.                              *)
LEMMA SaveStep ==
    ASSUME SInv, NEW s \in Screenings, NEW r \in Rules, SaveAlert(s, r)
    PROVE  SInv'
<1>1. /\ Typed /\ screening[s].step = "check" /\ r \in screening[s].hits
      /\ alerts' = alerts \union {[by |-> s, rule |-> r]}
      /\ UNCHANGED <<active, cached, counter, screening, clock, retired, streak, overlap>>
  BY DEF SInv, SaveAlert, At, history
<1>2. Typed'
  BY <1>1 DEF Typed
<1>3. \A t \in Screenings : Placed(screening[t])' /\ RecentRules(screening[t])'
  BY <1>1 DEF SInv, Placed, RecentRules, ActiveSince
<1>4. \A q \in Processes : RecentEntry(cached[q])'
  BY <1>1 DEF SInv, RecentEntry, ActiveSince
<1>5. Counted' /\ Alone'
  BY <1>1 DEF SInv, Counted, Alone, Matching, ReadBefore, Kept, Live
<1>6. Bounded'
  BY <1>1 DEF SInv, Bounded, Done, DoneRecord
<1>7. AlertsPrecedeVerdict'
  <2>1. screening[s].verdict = "none"
    BY <1>1, ScreeningFacts DEF Placed
  <2>2. ASSUME NEW t \in Screenings, screening[t].verdict \in {"blocked", "flagged"}
        PROVE  {q \in Rules : [by |-> t, rule |-> q] \in alerts'} = screening[t].hits
    <3>1. \A q \in Rules : [by |-> t, rule |-> q] # [by |-> s, rule |-> r]
      BY <2>1, <2>2
    <3>2. {q \in Rules : [by |-> t, rule |-> q] \in alerts'} =
              {q \in Rules : [by |-> t, rule |-> q] \in alerts}
      BY <1>1, <3>1
    <3> QED
      BY <2>2, <3>2 DEF SInv, AlertsPrecedeVerdict
  <2>3. \A a \in alerts' : a.rule \in screening[a.by].hits
    BY <1>1 DEF SInv, AlertsPrecedeVerdict
  <2> QED
    BY <1>1, <2>2, <2>3 DEF AlertsPrecedeVerdict
<1> QED
  BY <1>2, <1>3, <1>4, <1>5, <1>6, <1>7 DEF SInv

LEMMA SwitchStep ==
    ASSUME SInv, NEW r \in Rules, SwitchRule(r)
    PROVE  SInv'
<1>1. /\ Typed /\ clock \in Nat
      /\ active' \subseteq Rules
      /\ retired' = retired \union {[rules |-> active, end |-> clock]}
      /\ UNCHANGED <<cached, counter, screening, alerts, clock, streak, overlap>>
  <2>1. Typed /\ clock \in Nat /\ active \subseteq Rules
    BY Times DEF SInv, Typed
  <2> QED
    BY <2>1 DEF SwitchRule
<1>2. Typed'
  BY <1>1 DEF Typed
<1>3. ASSUME NEW rules, NEW t \in Int, t <= clock, ActiveSince(rules, t)
      PROVE  ActiveSince(rules, t)'
  <2>1. CASE rules = active
    <3> DEFINE old == [rules |-> active, end |-> clock]
    <3>1. old \in retired' /\ old.rules = rules /\ old.end >= t
      BY <1>1, <1>3, <2>1
    <3> QED
      BY <3>1 DEF ActiveSince
  <2>2. CASE rules # active
    BY <1>1, <1>3, <2>2 DEF ActiveSince
  <2> QED
    BY <2>1, <2>2
<1>4. ASSUME NEW t \in Screenings PROVE Placed(screening[t])' /\ RecentRules(screening[t])'
  <2>1. /\ Placed(screening[t]) /\ RecentRules(screening[t]) /\ screening[t].at \in Nat
    BY <1>1 DEF SInv, Typed, ScreeningType
  <2>2. screening[t].at - RulesTTL \in Int /\ (screening[t].at <= clock => screening[t].at - RulesTTL <= clock)
    BY <1>1, <2>1, Times
  <2>3. screening[t].at <= clock
    BY <2>1 DEF RecentRules
  <2>4. Placed(screening[t])'
    BY <1>1, <2>1 DEF Placed
  <2>5. RecentRules(screening[t])'
    BY <1>1, <1>3, <2>1, <2>2, <2>3 DEF RecentRules
  <2> QED
    BY <2>4, <2>5
<1>5. ASSUME NEW q \in Processes PROVE RecentEntry(cached[q])'
  <2>1. cached[q] \in RulesEntry /\ RecentEntry(cached[q])
    BY <1>1 DEF SInv, Typed
  <2>2. CASE cached[q].until >= 0
    <3>1. /\ cached[q].until - RulesTTL \in Int /\ cached[q].until - RulesTTL <= clock
          /\ ActiveSince(cached[q].rules, cached[q].until - RulesTTL)
      BY <1>1, <2>1, <2>2, Times DEF RulesEntry, RecentEntry
    <3>2. ActiveSince(cached[q].rules, cached[q].until - RulesTTL)'
      BY <1>1, <1>3, <3>1
    <3> QED
      BY <1>1, <2>1, <2>2, <3>2 DEF RecentEntry
  <2>3. CASE ~(cached[q].until >= 0)
    BY <1>1, <2>3 DEF RecentEntry
  <2> QED
    BY <2>2, <2>3
<1>6. Counted' /\ Alone'
  BY <1>1 DEF SInv, Counted, Alone, Matching, ReadBefore, Kept, Live
<1>7. Bounded'
  BY <1>1 DEF SInv, Bounded, Done, DoneRecord
<1>8. AlertsPrecedeVerdict'
  BY <1>1 DEF SInv, AlertsPrecedeVerdict
<1> QED
  BY <1>2, <1>4, <1>5, <1>6, <1>7, <1>8 DEF SInv

LEMMA TickStep ==
    ASSUME SInv, Tick
    PROVE  SInv'
<1>1. /\ Typed /\ clock \in Nat /\ clock' = clock + 1 /\ clock < MaxTime
      /\ \A s \in Screenings : screening[s].step \notin {"fill", "set"}
      /\ UNCHANGED <<active, cached, counter, screening, alerts, retired, streak, overlap>>
  BY Times DEF SInv, Typed, Tick, history
<1>2. Typed'
  BY <1>1, Times DEF Typed
<1>3. ASSUME NEW t \in Screenings PROVE Placed(screening[t])' /\ RecentRules(screening[t])'
  <2>1. Placed(screening[t]) /\ RecentRules(screening[t]) /\ screening[t].at \in Nat
    BY <1>1 DEF SInv, Typed, ScreeningType
  <2> QED
    BY <1>1, <2>1 DEF Placed, RecentRules, ActiveSince
<1>4. ASSUME NEW q \in Processes PROVE RecentEntry(cached[q])'
  <2>1. cached[q] \in RulesEntry /\ RecentEntry(cached[q])
    BY <1>1 DEF SInv, Typed
  <2> QED
    BY <1>1, <2>1, Times DEF RecentEntry, RulesEntry, ActiveSince
<1>5. Counted'
  <2>1. ASSUME NEW q \in Processes, NEW w \in Velocity
        PROVE  Matching(counter[q][w], streak[q][w], overlap[q])'
    <3>1. Matching(counter[q][w], streak[q][w], overlap[q]) /\ 0..clock \subseteq 0..clock'
      BY <1>1 DEF SInv, Counted
    <3> QED
      BY <1>1, <3>1 DEF Matching
  <2> QED
    BY <1>1, <2>1 DEF Counted, ReadBefore
<1>6. Alone'
  BY <1>1 DEF SInv, Alone
<1>7. Bounded'
  BY <1>1 DEF SInv, Bounded, Done, DoneRecord
<1>8. AlertsPrecedeVerdict'
  BY <1>1 DEF SInv, AlertsPrecedeVerdict
<1> QED
  BY <1>2, <1>3, <1>4, <1>5, <1>6, <1>7, <1>8 DEF SInv

-----------------------------------------------------------------------------
LEMMA InitSInv == Init => SInv
<1> SUFFICES ASSUME Init PROVE SInv
  OBVIOUS
<1>1. Typed
  <2>1. NewScreening \in ScreeningType
    BY DEF NewScreening, ScreeningType
  <2> QED
    BY <2>1, FraudAssumption, Times
       DEF Init, Typed, Nothing, NoCount, NoStreak, RulesEntry, CountEntry, StreakType
<1>2. \A s \in Screenings : Placed(screening[s]) /\ RecentRules(screening[s])
  BY DEF Init, NewScreening, Placed, RecentRules
<1>3. \A p \in Processes : RecentEntry(cached[p])
  BY DEF Init, Nothing, RecentEntry
<1>4. Counted /\ Alone
  BY DEF Init, NewScreening, Counted, Alone, Matching, ReadBefore
<1>5. Bounded
  <2>1. \A v : Cardinality(Done(v)) \in Nat
    BY DoneIsFinite
  <2> QED
    BY <2>1 DEF Init, NewScreening, NoCount, Bounded
<1>6. AlertsPrecedeVerdict
  BY DEF Init, NewScreening, AlertsPrecedeVerdict
<1> QED
  BY <1>1, <1>2, <1>3, <1>4, <1>5, <1>6 DEF SInv

LEMMA NextSInv == SInv /\ [Next]_vars => SInv'
<1> SUFFICES ASSUME SInv, [Next]_vars PROVE SInv'
  OBVIOUS
<1>1. CASE \E s \in Screenings, p \in Processes : RulesCached(s, p) \/ RulesRead(s, p)
  BY <1>1, CachedStep, RulesReadStep
<1>2. CASE \E s \in Screenings : RulesFilled(s) \/ Decide(s) \/ Fails(s)
  BY <1>2, FilledStep, DecideStep, FailsStep
<1>3. CASE \E s \in Screenings, r \in Rules :
              CheckTransfers(s, r) \/ GetCount(s, r) \/ SetCount(s, r) \/ SaveAlert(s, r)
  BY <1>3, TransfersStep, GetStep, SetStep, SaveStep
<1>4. CASE (\E r \in Rules : SwitchRule(r)) \/ Tick
  BY <1>4, SwitchStep, TickStep
<1>5. CASE UNCHANGED vars
  <2>1. UNCHANGED <<active, cached, counter, screening, alerts, clock, retired, streak, overlap>>
    BY <1>5 DEF vars
  <2>2. Typed' /\ \A s \in Screenings : Placed(screening[s])' /\ RecentRules(screening[s])'
    BY <2>1 DEF SInv, Typed, Placed, RecentRules, ActiveSince
  <2>3. \A p \in Processes : RecentEntry(cached[p])'
    BY <2>1 DEF SInv, RecentEntry, ActiveSince
  <2>4. Counted' /\ Alone'
    BY <2>1 DEF SInv, Counted, Alone, Matching, ReadBefore, Kept, Live
  <2>5. Bounded' /\ AlertsPrecedeVerdict'
    BY <2>1 DEF SInv, Bounded, Done, DoneRecord, AlertsPrecedeVerdict
  <2> QED
    BY <2>2, <2>3, <2>4, <2>5 DEF SInv
<1> QED
  BY <1>1, <1>2, <1>3, <1>4, <1>5 DEF Next

LEMMA SInvHolds == Spec => []SInv
BY InitSInv, NextSInv, PTL DEF Spec

(* Every variable has its type; no counter exceeds the screenings.         *)
THEOREM ScreeningTypesHold == Spec => []TypeOK
<1>1. SInv => TypeOK
  <2> SUFFICES ASSUME SInv PROVE TypeOK
    OBVIOUS
  <2>1. Typed /\ clock \in 0..MaxTime
    BY DEF SInv, Typed
  <2>2. ASSUME NEW p \in Processes
        PROVE  /\ cached[p].rules \subseteq Rules
               /\ \A v \in Velocity : counter[p][v].count \in 0..Cardinality(Screenings)
    <3>1. cached[p].rules \subseteq Rules
      BY <2>1 DEF Typed, RulesEntry
    <3>2. ASSUME NEW v \in Velocity PROVE counter[p][v].count \in 0..Cardinality(Screenings)
      <4>1. counter[p][v].count \in Nat /\ counter[p][v].count <= Cardinality(Done(v))
        BY <2>1 DEF Typed, CountEntry, SInv, Bounded
      <4>2. Cardinality(Done(v)) \in Nat /\ Cardinality(Done(v)) <= Cardinality(Screenings)
        BY DoneIsFinite
      <4>3. Cardinality(Screenings) \in Nat
        BY FraudAssumption, FS_CardinalityType
      <4> QED
        BY <4>1, <4>2, <4>3
    <3> QED
      BY <3>1, <3>2
  <2>3. ASSUME NEW s \in Screenings
        PROVE  /\ screening[s].step \in {"new", "fill", "check", "set", "over"}
               /\ screening[s].todo \subseteq screening[s].rules
               /\ screening[s].hits \subseteq Rules \ screening[s].todo
               /\ screening[s].verdict \in {"none", "clear", "flagged", "blocked", "error"}
    BY <2>1 DEF SInv, Placed, Typed, ScreeningType
  <2> QED
    BY <2>1, <2>2, <2>3 DEF TypeOK, Typed
<1> QED
  BY <1>1, SInvHolds, PTL

(* A live counter is never more than the checks of its process that        *)
(* followed each other within the window, and exactly those until two      *)
(* checks overlap.                                                         *)
THEOREM CountersAreStreaks == Spec => []CountIsStreak
<1>1. SInv => CountIsStreak
  <2> SUFFICES ASSUME SInv, NEW p \in Processes, NEW v \in Velocity, Live(counter[p][v])
               PROVE  /\ counter[p][v].count <= streak[p][v].length
                      /\ ~overlap[p] => counter[p][v].count = streak[p][v].length
    BY DEF CountIsStreak
  <2>1. Matching(counter[p][v], streak[p][v], overlap[p])
    BY DEF SInv, Counted
  <2> QED
    BY <2>1 DEF Matching, NoCount, NoStreak
<1> QED
  BY <1>1, SInvHolds, PTL

(* A payment is screened with rules that were active together at one       *)
(* moment, no longer ago than the cache keeps them.                        *)
THEOREM ScreenedWithRecentRules == Spec => []RulesAreRecent
<1>1. SInv => RulesAreRecent
  <2> SUFFICES ASSUME SInv, NEW s \in Screenings, screening[s].step \in {"check", "set"}
               PROVE  \/ screening[s].rules = active
                      \/ \E old \in retired : old.rules = screening[s].rules
                            /\ old.end + RulesTTL >= screening[s].at
    BY DEF RulesAreRecent
  <2>1. ActiveSince(screening[s].rules, screening[s].at - RulesTTL)
    BY DEF SInv, RecentRules
  <2>2. screening[s].at \in Nat /\ \A old \in retired : old.end \in Nat
    BY DEF SInv, Typed, ScreeningType
  <2> QED
    BY <2>1, <2>2, Times DEF ActiveSince
<1> QED
  BY <1>1, SInvHolds, PTL

(* Whoever is blocked or flagged has an alert of every rule that           *)
(* triggered, and no alert names another rule.                             *)
THEOREM AlertsComeFirst == Spec => []AlertsPrecedeVerdict
<1>1. SInv => AlertsPrecedeVerdict
  BY DEF SInv
<1> QED
  BY <1>1, SInvHolds, PTL
=============================================================================
