--------------------------- MODULE AccountsProofs ---------------------------
(***************************************************************************)
(* Proofs about Accounts, for any number of concurrent calls, any lockout  *)
(* and any lives of the tokens.  The second half, from LeastNatural on, is *)
(* what the lockout is worth: arithmetic, then the calls as climbers.      *)
(***************************************************************************)
EXTENDS Accounts, Integers, FiniteSetTheorems, WellFoundedInduction, TLAPS

(* Only registration runs before there is a row.                           *)
RowKnown ==
    /\ user.status = "none" <=> user = NoUser
    /\ \A c \in Calls : call[c].at \notin {"idle", "insert user"} => user.status # "none"

(* The histories count the rows there are.                                 *)
RowsCounted ==
    /\ created.email = IF user.status = "none" THEN 0 ELSE 1
    /\ created.wallet = IF wallet THEN 1 ELSE 0

(* What is bounded leaves room for the calls that sign.                    *)
RoomKept == Len(issued) + Cardinality(Signing) <= MaxTokens

Place == {"idle", "insert user", "record", "clear", "sign", "logout", "reuse",
          "find wallet", "insert wallet"}
CallType == [at : Place, seen : Nat, then : {"idle", "sign"}]
UserType(n) == [status : {"none", "active", "suspended"}, attempts : Nat,
                lockedUntil : 0..MaxNow + LockDuration, hash : 0..n]

(* TypeOK, with the types named.                                           *)
Typed ==
    /\ user \in UserType(Len(issued)) /\ wallet \in BOOLEAN
    /\ issued \in Seq(0..MaxNow) /\ Len(issued) <= MaxTokens
    /\ call \in [Calls -> CallType]
    /\ now \in 0..MaxNow /\ guesses \in Nat /\ created \in [email : Nat, wallet : Nat]
    /\ ahead \subseteq Calls

AInv == Typed /\ RowKnown /\ RowsCounted /\ RoomKept

LEMMA TypesNamed == Typed => TypeOK
BY DEF TypeOK, Typed, UserType, CallType, Place

-----------------------------------------------------------------------------
(* The values that the steps write.                                        *)
Counted(u, n, t) == [u EXCEPT !.attempts = n, !.lockedUntil = t]
Hashed(u, h) == [u EXCEPT !.hash = h]
Marked(u, st) == [u EXCEPT !.status = st]

LEMMA UserFacts ==
    ASSUME NEW n \in Nat, NEW u \in UserType(n)
    PROVE  /\ u.attempts \in Nat /\ u.lockedUntil \in 0..(MaxNow + LockDuration)
           /\ \A st \in {"active", "suspended"} :
                 Marked(u, st) \in UserType(n) /\ Marked(u, st).status = st
BY DEF UserType, Marked

LEMMA CountedFacts ==
    ASSUME NEW n \in Nat, NEW u \in UserType(n), NEW a \in Nat,
           NEW t \in 0..(MaxNow + LockDuration)
    PROVE  Counted(u, a, t) \in UserType(n) /\ Counted(u, a, t).status = u.status
BY DEF UserType, Counted

LEMMA HashedFacts ==
    ASSUME NEW n \in Nat, NEW u \in UserType(n), NEW m \in Nat, NEW h \in 0..m
    PROVE  Hashed(u, h) \in UserType(m) /\ Hashed(u, h).status = u.status
BY DEF UserType, Hashed

LEMMA NoUserFacts ==
    /\ NoUser \in UserType(0) /\ NoUser.status = "none" /\ NoUser.hash = 0
BY AccountsAssumption DEF NoUser, UserType

LEMMA CallFacts ==
    /\ Idle \in CallType /\ Idle.at = "idle"
    /\ \A place \in Place, n \in Nat, then \in {"idle", "sign"} :
          LET x == [at |-> place, seen |-> n, then |-> then]
          IN  x \in CallType /\ x.at = place
    /\ \A x \in CallType : x.at \in Place /\ x.seen \in Nat /\ x.then \in {"idle", "sign"}
BY DEF CallType, Idle, Place

LEMMA IssuedFacts ==
    ASSUME NEW list \in Seq(0..MaxNow)
    PROVE  /\ Len(list) \in Nat /\ DOMAIN list = 1..Len(list)
           /\ \A t \in 0..MaxNow : /\ Append(list, t) \in Seq(0..MaxNow)
                                   /\ Len(Append(list, t)) = Len(list) + 1
OBVIOUS

LEMMA SigningFinite == IsFiniteSet(Signing) /\ Cardinality(Signing) \in Nat
<1>1. IsFiniteSet(Calls) /\ Signing \in SUBSET Calls
  BY AccountsAssumption DEF Signing
<1>2. IsFiniteSet(Signing)
  BY <1>1, FS_Subset
<1> QED
  BY <1>2, FS_CardinalityType

LEMMA InitAInv == Init => AInv
<1> SUFFICES ASSUME Init PROVE AInv
  OBVIOUS
<1>1. Signing = {} /\ Len(issued) = 0
  BY DEF Init, Signing, Idle
<1>2. RoomKept
  BY <1>1, FS_EmptySet, AccountsAssumption DEF RoomKept
<1>3. Typed
  <2>1. issued \in Seq(0..MaxNow) /\ Len(issued) <= MaxTokens
    BY <1>1, AccountsAssumption DEF Init
  <2>2. user \in UserType(Len(issued))
    BY <1>1, NoUserFacts DEF Init
  <2>3. call \in [Calls -> CallType]
    BY CallFacts DEF Init
  <2>4. /\ created = [email |-> 0, wallet |-> 0] /\ wallet = FALSE /\ now = 0 /\ guesses = 0
        /\ ahead = {}
    BY DEF Init
  <2>5. created \in [email : Nat, wallet : Nat] /\ wallet \in BOOLEAN
    BY <2>4
  <2>6. now \in 0..MaxNow /\ guesses \in Nat
    BY <2>4, AccountsAssumption
  <2> QED
    BY <2>1, <2>2, <2>3, <2>4, <2>5, <2>6 DEF Typed
<1>4. RowKnown /\ RowsCounted
  BY NoUserFacts, CallFacts DEF Init, RowKnown, RowsCounted
<1> QED
  BY <1>2, <1>3, <1>4 DEF AInv

-----------------------------------------------------------------------------
(* How the set of calls that sign changes with one call.                   *)
SigningPlace(at) == at \in {"insert user", "clear", "sign"}

LEMMA SigningChanges ==
    ASSUME Typed, NEW c \in Calls, NEW x, call' = [call EXCEPT ![c] = x]
    PROVE  /\ Cardinality(Signing') \in Nat
           /\ Cardinality(Signing') <= Cardinality(Signing) + 1
           /\ ~SigningPlace(x.at) => Cardinality(Signing') <= Cardinality(Signing)
           /\ SigningPlace(call[c].at) => Cardinality(Signing') <= Cardinality(Signing)
           /\ SigningPlace(call[c].at) /\ ~SigningPlace(x.at)
                 => Cardinality(Signing') = Cardinality(Signing) - 1
<1>1. call'[c] = x /\ \A d \in Calls : d # c => call'[d] = call[d]
  BY DEF Typed
<1>2. Signing' = IF SigningPlace(x.at) THEN Signing \union {c} ELSE Signing \ {c}
  BY <1>1 DEF Signing, SigningPlace
<1>3. c \in Signing <=> SigningPlace(call[c].at)
  BY DEF Signing, SigningPlace
<1>4. /\ IsFiniteSet(Signing) /\ Cardinality(Signing) \in Nat
      /\ Cardinality(Signing \union {c})
             = IF c \in Signing THEN Cardinality(Signing) ELSE Cardinality(Signing) + 1
      /\ Cardinality(Signing \ {c})
             = IF c \in Signing THEN Cardinality(Signing) - 1 ELSE Cardinality(Signing)
      /\ Cardinality(Signing \ {c}) \in Nat
  <2>1. IsFiniteSet(Signing)
    BY SigningFinite
  <2>2. IsFiniteSet(Signing \ {c})
    BY <2>1, FS_RemoveElement
  <2> QED
    BY <2>1, <2>2, SigningFinite, FS_AddElement, FS_RemoveElement, FS_CardinalityType
<1> QED
  BY <1>2, <1>3, <1>4

(* A call that only moves leaves the room it found, or took.               *)
LEMMA RoomStays ==
    ASSUME Typed, RoomKept, issued' = issued, NEW c \in Calls, NEW x,
           call' = [call EXCEPT ![c] = x],
           SigningPlace(x.at) => SigningPlace(call[c].at) \/ Room
    PROVE  RoomKept'
<1> DEFINE before == Cardinality(Signing)
           after == Cardinality(Signing')
           len == Len(issued)
<1>1. /\ after \in Nat /\ before \in Nat /\ after <= before + 1
      /\ ~SigningPlace(x.at) => after <= before
      /\ SigningPlace(call[c].at) => after <= before
  BY SigningChanges, SigningFinite
<1>2. len \in Nat /\ MaxTokens \in Nat
  BY IssuedFacts, AccountsAssumption DEF Typed
<1>3. len + before <= MaxTokens /\ (Room => len + before < MaxTokens)
  BY DEF RoomKept, Room
<1>4. RoomKept' <=> len + after <= MaxTokens
  BY DEF RoomKept
<1> HIDE DEF before, after, len
<1>5. CASE SigningPlace(x.at) /\ ~SigningPlace(call[c].at)
  <2>1. len + before < MaxTokens
    BY <1>3, <1>5
  <2> QED
    BY <1>1, <1>2, <1>4, <2>1
<1>6. CASE ~SigningPlace(x.at) \/ SigningPlace(call[c].at)
  <2>1. after <= before
    BY <1>1, <1>6
  <2> QED
    BY <1>1, <1>2, <1>3, <1>4, <2>1
<1> QED
  BY <1>5, <1>6

(* A call that moves, and writes to the row at most what leaves its status.*)
LEMMA MovesKeep ==
    ASSUME AInv, NEW c \in Calls, NEW x \in CallType, call' = [call EXCEPT ![c] = x],
           UNCHANGED <<wallet, issued, now, created>>, guesses' \in Nat,
           ahead' \subseteq Calls,
           user' \in UserType(Len(issued)),
           user'.status = user.status, user.status = "none" => user' = user,
           x.at \notin {"idle", "insert user"} => user.status # "none",
           SigningPlace(x.at) => SigningPlace(call[c].at) \/ Room
    PROVE  AInv'
<1>1. call'[c] = x /\ \A d \in Calls : d # c => call'[d] = call[d]
  BY DEF AInv, Typed
<1>2. Typed'
  BY DEF AInv, Typed
<1>3. RowKnown'
  <2>1. user'.status = "none" <=> user' = NoUser
    BY NoUserFacts DEF AInv, RowKnown
  <2>2. ASSUME NEW d \in Calls, call'[d].at \notin {"idle", "insert user"}
        PROVE  user'.status # "none"
    BY <1>1, <2>2 DEF AInv, RowKnown
  <2> QED
    BY <2>1, <2>2 DEF RowKnown
<1>4. RowsCounted'
  BY DEF AInv, RowsCounted
<1>5. RoomKept'
  BY RoomStays DEF AInv
<1> QED
  BY <1>2, <1>3, <1>4, <1>5 DEF AInv

-----------------------------------------------------------------------------
(* The steps that write more than the columns of a known row.              *)
LEMMA InsertUserKeeps ==
    ASSUME AInv, NEW c \in Calls, InsertUser(c)
    PROVE  AInv'
<1>0. /\ Typed /\ call[c].at = "insert user"
      /\ UNCHANGED <<wallet, issued, now, guesses, ahead>> /\ ahead \subseteq Calls
      /\ Len(issued) \in Nat /\ guesses \in Nat /\ user \in UserType(Len(issued))
  BY IssuedFacts DEF AInv, Typed, InsertUser, At
<1>1. CASE user = NoUser
  <2> DEFINE x == [at |-> "sign", seen |-> 0, then |-> "idle"]
             v == Marked(NoUser, "active")
  <2>1. user' = v /\ call' = [call EXCEPT ![c] = x]
        /\ created' = [created EXCEPT !.email = @ + 1]
    BY <1>1 DEF InsertUser, Goes, Marked
  <2>2. x \in CallType /\ x.at = "sign" /\ SigningPlace(call[c].at)
    BY <1>0, CallFacts DEF Place, SigningPlace
  <2>3. v \in UserType(Len(issued)) /\ v.status = "active"
    BY <1>0, <1>1, UserFacts
  <2> HIDE DEF x, v
  <2>4. call'[c] = x /\ \A d \in Calls : d # c => call'[d] = call[d]
    BY <1>0, <2>1 DEF Typed
  <2>5. created.email = 0 /\ created \in [email : Nat, wallet : Nat]
    BY <1>1, NoUserFacts DEF AInv, Typed, RowsCounted
  <2>6. created' \in [email : Nat, wallet : Nat]
        /\ created'.email = 1 /\ created'.wallet = created.wallet
    BY <2>1, <2>5
  <2>7. Typed'
    BY <1>0, <2>1, <2>2, <2>3, <2>6 DEF Typed
  <2>8. RowKnown'
    BY <2>1, <2>3, NoUserFacts DEF RowKnown
  <2>9. RowsCounted'
    BY <1>0, <2>1, <2>3, <2>6 DEF AInv, RowsCounted
  <2>10. RoomKept'
    BY <1>0, <2>1, <2>2, RoomStays DEF AInv
  <2> QED
    BY <2>7, <2>8, <2>9, <2>10 DEF AInv
<1>2. CASE user # NoUser
  <2>1. call' = [call EXCEPT ![c] = Idle] /\ UNCHANGED <<user, created>>
    BY <1>2 DEF InsertUser, Ends
  <2> QED
    BY <1>0, <2>1, CallFacts, MovesKeep DEF SigningPlace
<1> QED
  BY <1>1, <1>2

LEMMA SignKeeps ==
    ASSUME AInv, NEW c \in Calls, Sign(c)
    PROVE  AInv'
<1>1. /\ call[c].at = "sign" /\ issued' = Append(issued, now)
      /\ user' = [user EXCEPT !.hash = Len(issued) + 1]
      /\ call' = [call EXCEPT ![c] = Idle] /\ UNCHANGED <<wallet, now, guesses, created, ahead>>
  BY DEF Sign, At, Ends
<1>2. Typed /\ call'[c] = Idle /\ \A d \in Calls : d # c => call'[d] = call[d]
  BY <1>1 DEF AInv, Typed
<1>3. /\ issued' \in Seq(0..MaxNow) /\ Len(issued) \in Nat /\ Len(issued') = Len(issued) + 1
      /\ MaxTokens \in Nat /\ user \in UserType(Len(issued))
  BY <1>1, <1>2, IssuedFacts, AccountsAssumption DEF Typed
<1>4. Len(issued') + Cardinality(Signing') <= MaxTokens /\ Len(issued') <= MaxTokens
  <2> DEFINE before == Cardinality(Signing)
             after == Cardinality(Signing')
  <2>1. after \in Nat /\ before \in Nat /\ after = before - 1
    BY <1>1, <1>2, SigningChanges, SigningFinite, CallFacts DEF SigningPlace
  <2>2. Len(issued) + before <= MaxTokens
    BY DEF AInv, RoomKept
  <2> HIDE DEF before, after
  <2>3. Len(issued') + after <= MaxTokens /\ Len(issued') <= MaxTokens
    BY <1>3, <2>1, <2>2
  <2> QED
    BY <2>3 DEF after
<1>5. /\ user' \in UserType(Len(issued')) /\ user'.status = user.status
      /\ user.status # "none"
  <2>1. Len(issued) + 1 \in 0..Len(issued') /\ Len(issued') \in Nat
    BY <1>3
  <2>2. user.status # "none"
    BY <1>1 DEF AInv, RowKnown
  <2> DEFINE v == Hashed(user, Len(issued) + 1)
  <2>3. v \in UserType(Len(issued')) /\ v.status = user.status
    BY <1>3, <2>1, HashedFacts
  <2>4. user' = v
    BY <1>1 DEF Hashed
  <2> HIDE DEF v
  <2> QED
    BY <2>2, <2>3, <2>4
<1>6. Typed'
  BY <1>1, <1>2, <1>3, <1>4, <1>5, CallFacts DEF Typed
<1>7. RowKnown'
  BY <1>5, NoUserFacts DEF RowKnown
<1>8. RowsCounted'
  BY <1>1, <1>5 DEF AInv, RowsCounted
<1> QED
  BY <1>4, <1>6, <1>7, <1>8 DEF AInv, RoomKept

LEMMA InsertWalletKeeps ==
    ASSUME AInv, NEW c \in Calls, InsertWallet(c)
    PROVE  AInv'
<1>1. /\ call' = [call EXCEPT ![c] = Idle] /\ wallet' = TRUE
      /\ created' = IF wallet THEN created ELSE [created EXCEPT !.wallet = @ + 1]
      /\ UNCHANGED <<user, issued, now, guesses, ahead>>
  BY DEF InsertWallet, Ends
<1>2. Typed /\ call'[c] = Idle /\ \A d \in Calls : d # c => call'[d] = call[d]
  BY <1>1 DEF AInv, Typed
<1>3. /\ created \in [email : Nat, wallet : Nat]
      /\ created.wallet = IF wallet THEN 1 ELSE 0
  BY <1>2 DEF AInv, Typed, RowsCounted
<1>4. /\ created' \in [email : Nat, wallet : Nat]
      /\ created'.wallet = 1 /\ created'.email = created.email
  <2>1. CASE wallet
    BY <1>1, <1>3, <2>1
  <2>2. CASE ~wallet
    BY <1>1, <1>3, <2>2
  <2> QED
    BY <2>1, <2>2
<1>5. Typed'
  BY <1>1, <1>2, <1>4, CallFacts DEF Typed
<1>6. RowsCounted'
  BY <1>1, <1>4 DEF AInv, RowsCounted
<1>7. RowKnown'
  BY <1>1, <1>2, CallFacts DEF AInv, RowKnown
<1>8. RoomKept'
  BY <1>1, <1>2, CallFacts, RoomStays DEF AInv, SigningPlace
<1> QED
  BY <1>5, <1>6, <1>7, <1>8 DEF AInv
-----------------------------------------------------------------------------
(* A call that reads, and writes nothing.                                  *)
LEMMA ReadsKeep ==
    ASSUME AInv, NEW c \in Calls, NEW place \in Place, NEW n \in Nat,
           NEW then \in {"idle", "sign"},
           call' = [call EXCEPT ![c] = [at |-> place, seen |-> n, then |-> then]],
           UNCHANGED <<user, wallet, issued, now, guesses, created, ahead>>,
           place \notin {"idle", "insert user"} => user.status # "none",
           SigningPlace(place) => SigningPlace(call[c].at) \/ Room
    PROVE  AInv'
<1> DEFINE x == [at |-> place, seen |-> n, then |-> then]
<1>1. x \in CallType /\ x.at = place /\ call' = [call EXCEPT ![c] = x]
  BY CallFacts
<1>2. user \in UserType(Len(issued)) /\ guesses \in Nat /\ ahead \subseteq Calls
  BY DEF AInv, Typed
<1> HIDE DEF x
<1> QED
  BY <1>1, <1>2, MovesKeep

(* A call that ends, and has written to the row at most what leaves its    *)
(* status.                                                                 *)
LEMMA EndsKeep ==
    ASSUME AInv, NEW c \in Calls, Ends(c),
           UNCHANGED <<wallet, issued, now, created>>, guesses' \in Nat,
           ahead' \subseteq Calls,
           user' \in UserType(Len(issued)),
           user'.status = user.status, user.status = "none" => user' = user
    PROVE  AInv'
<1>1. Idle \in CallType /\ Idle.at = "idle" /\ call' = [call EXCEPT ![c] = Idle]
  BY CallFacts DEF Ends
<1> QED
  BY <1>1, MovesKeep DEF SigningPlace

LEMMA RegistrationKeeps ==
    ASSUME AInv, NEW c \in Calls, FindEmail(c)
    PROVE  AInv'
<1>1. /\ Room /\ call' = [call EXCEPT ![c] = [at |-> "insert user", seen |-> 0, then |-> "idle"]]
      /\ UNCHANGED <<user, wallet, issued, now, guesses, created, ahead>>
  BY DEF FindEmail, Goes
<1>2. "insert user" \in Place
  BY DEF Place
<1> QED
  BY <1>1, <1>2, ReadsKeep

LEMMA LoginKeeps ==
    ASSUME AInv, NEW c \in Calls, LoginRight(c) \/ LoginWrong(c)
    PROVE  AInv'
<1>1. user.status # "none" /\ user.attempts \in Nat
  <2>1. user # NoUser
    BY DEF LoginRight, LoginWrong
  <2> QED
    BY <2>1, UserFacts, IssuedFacts DEF AInv, Typed, RowKnown
<1>2. {"clear", "sign", "idle", "record"} \subseteq Place
  BY DEF Place
<1>3. CASE LoginRight(c)
  <2> DEFINE next == IF user.status = "suspended" THEN "idle" ELSE "sign"
  <2>1. Room /\ UNCHANGED <<user, wallet, issued, now, guesses, created, ahead>>
    BY <1>3 DEF LoginRight
  <2>2. \/ call' = [call EXCEPT ![c] = [at |-> "clear", seen |-> 0, then |-> next]]
        \/ call' = [call EXCEPT ![c] = [at |-> next, seen |-> 0, then |-> "idle"]]
    BY <1>3 DEF LoginRight
  <2>3. next \in {"idle", "sign"}
    OBVIOUS
  <2> HIDE DEF next
  <2>4. "clear" \in Place /\ next \in Place
    BY <1>2, <2>3
  <2>5. CASE call' = [call EXCEPT ![c] = [at |-> "clear", seen |-> 0, then |-> next]]
    BY <1>1, <2>1, <2>3, <2>4, <2>5, ReadsKeep
  <2>6. CASE call' = [call EXCEPT ![c] = [at |-> next, seen |-> 0, then |-> "idle"]]
    BY <1>1, <2>1, <2>3, <2>4, <2>6, ReadsKeep
  <2> QED
    BY <2>2, <2>5, <2>6
<1>4. CASE LoginWrong(c)
  <2>1. /\ UNCHANGED <<user, wallet, issued, now, guesses, created, ahead>>
        /\ call' = [call EXCEPT ![c] =
                      [at |-> "record", seen |-> user.attempts, then |-> "idle"]]
    BY <1>4 DEF LoginWrong, Goes
  <2> QED
    BY <1>1, <1>2, <2>1, ReadsKeep DEF SigningPlace
<1> QED
  BY <1>3, <1>4

LEMMA RecordKeeps ==
    ASSUME AInv, NEW c \in Calls, RecordFailedAttempt(c)
    PROVE  AInv'
<1> DEFINE a == call[c].seen + 1
           t == IF a >= MaxFailedAttempts THEN now + LockDuration ELSE user.lockedUntil
           v == Counted(user, a, t)
<1>1. /\ call[c].at = "record" /\ user' = v /\ guesses' = guesses + 1 /\ Ends(c)
      /\ ahead' \in {Entering, ahead} /\ UNCHANGED <<wallet, issued, now, created>>
  BY DEF RecordFailedAttempt, At, Counted
<1>2. /\ call[c] \in CallType /\ user \in UserType(Len(issued)) /\ Len(issued) \in Nat
      /\ now \in 0..MaxNow /\ guesses \in Nat
  BY IssuedFacts DEF AInv, Typed
<1>3. a \in Nat /\ user.lockedUntil \in 0..(MaxNow + LockDuration)
  <2>1. call[c].seen \in Nat
    BY <1>2, CallFacts
  <2> QED
    BY <1>2, <2>1, UserFacts
<1> HIDE DEF a
<1>4. t \in 0..(MaxNow + LockDuration)
  BY <1>2, <1>3, AccountsAssumption
<1> HIDE DEF t
<1>5. v \in UserType(Len(issued)) /\ v.status = user.status
  BY <1>2, <1>3, <1>4, CountedFacts
<1> HIDE DEF v
<1>6. user.status # "none" /\ guesses' \in Nat /\ ahead' \subseteq Calls
  <2>1. user.status # "none"
    BY <1>1 DEF AInv, RowKnown
  <2>2. ahead' \subseteq Calls
    BY <1>1 DEF AInv, Typed, Entering
  <2> QED
    BY <1>1, <1>2, <2>1, <2>2
<1> QED
  BY <1>1, <1>5, <1>6, EndsKeep

LEMMA ClearKeeps ==
    ASSUME AInv, NEW c \in Calls, ClearFailedAttempts(c)
    PROVE  AInv'
<1> DEFINE v == Counted(user, 0, 0)
           next == call[c].then
           x == [at |-> next, seen |-> 0, then |-> "idle"]
<1>1. /\ call[c].at = "clear" /\ user' = v /\ guesses' = 0 /\ ahead' = {}
      /\ call' = [call EXCEPT ![c] = x]
      /\ UNCHANGED <<wallet, issued, now, created>>
  BY DEF ClearFailedAttempts, At, Goes, Counted
<1>2. /\ call[c] \in CallType /\ user \in UserType(Len(issued)) /\ Len(issued) \in Nat
  BY IssuedFacts DEF AInv, Typed
<1>3. next \in {"idle", "sign"} /\ next \in Place
  BY <1>2, CallFacts DEF Place
<1> HIDE DEF next
<1>4. x \in CallType /\ x.at = next
  BY <1>3, CallFacts
<1> HIDE DEF x
<1>5. 0 \in Nat /\ 0 \in 0..(MaxNow + LockDuration)
  BY AccountsAssumption
<1>6. v \in UserType(Len(issued)) /\ v.status = user.status
  BY <1>2, <1>5, CountedFacts
<1> HIDE DEF v
<1>7. user.status # "none" /\ SigningPlace(call[c].at)
  BY <1>1 DEF AInv, RowKnown, SigningPlace
<1> QED
  BY <1>1, <1>4, <1>5, <1>6, <1>7, MovesKeep

LEMMA RefreshKeeps ==
    ASSUME AInv, NEW c \in Calls, NEW token \in DOMAIN issued, Refresh(c, token)
    PROVE  AInv'
<1>1. Room /\ user.hash # 0 /\ UNCHANGED <<user, wallet, issued, now, guesses, created, ahead>>
  BY DEF Refresh
<1>2. user.status # "none"
  BY <1>1, NoUserFacts DEF AInv, RowKnown
<1>3. token \in Nat /\ {"sign", "reuse"} \subseteq Place
  BY DEF AInv, Typed, Place
<1>4. CASE Matches(token, user.hash)
  <2>1. call' = [call EXCEPT ![c] = [at |-> "sign", seen |-> token, then |-> "idle"]]
    BY <1>4 DEF Refresh, Goes
  <2> QED
    BY <1>1, <1>2, <1>3, <2>1, ReadsKeep
<1>5. CASE ~Matches(token, user.hash)
  <2>1. call' = [call EXCEPT ![c] = [at |-> "reuse", seen |-> token, then |-> "idle"]]
    BY <1>5 DEF Refresh, Goes
  <2> QED
    BY <1>1, <1>2, <1>3, <2>1, ReadsKeep DEF SigningPlace
<1> QED
  BY <1>4, <1>5

LEMMA GuardKeeps ==
    ASSUME AInv, NEW c \in Calls, NEW place \in {"logout", "find wallet"}, Guard(c, place)
    PROVE  AInv'
<1>1. /\ user.status = "active"
      /\ call' = [call EXCEPT ![c] = [at |-> place, seen |-> 0, then |-> "idle"]]
      /\ UNCHANGED <<user, wallet, issued, now, guesses, created, ahead>>
  BY DEF Guard, Goes
<1>2. place \in Place /\ ~SigningPlace(place)
  BY DEF Place, SigningPlace
<1> QED
  BY <1>1, <1>2, ReadsKeep

LEMMA ForgetKeeps ==
    ASSUME AInv, NEW c \in Calls, ForgetHash(c)
    PROVE  AInv'
<1> DEFINE v == Hashed(user, 0)
<1>1. /\ call[c].at \in {"logout", "reuse"} /\ user' = v /\ Ends(c)
      /\ UNCHANGED <<wallet, issued, now, guesses, created, ahead>>
  BY DEF ForgetHash, Hashed
<1>2. /\ user \in UserType(Len(issued)) /\ Len(issued) \in Nat /\ guesses \in Nat
      /\ ahead \subseteq Calls
  BY IssuedFacts DEF AInv, Typed
<1>3. 0 \in 0..Len(issued)
  BY <1>2
<1>4. v \in UserType(Len(issued)) /\ v.status = user.status
  BY <1>2, <1>3, HashedFacts
<1> HIDE DEF v
<1>5. user.status # "none"
  BY <1>1 DEF AInv, RowKnown
<1> QED
  BY <1>1, <1>2, <1>4, <1>5, EndsKeep

LEMMA WalletKeeps ==
    ASSUME AInv, NEW c \in Calls, FindWallet(c) \/ Dies(c)
    PROVE  AInv'
<1>1. /\ UNCHANGED <<user, wallet, issued, now, guesses, created, ahead>>
      /\ user \in UserType(Len(issued)) /\ guesses \in Nat /\ ahead \subseteq Calls
  BY DEF AInv, Typed, FindWallet, Dies
<1>2. CASE Ends(c)
  BY <1>1, <1>2, EndsKeep
<1>3. CASE ~Ends(c)
  <2>1. call[c].at = "find wallet"
        /\ call' = [call EXCEPT ![c] = [at |-> "insert wallet", seen |-> 0, then |-> "idle"]]
    BY <1>3 DEF FindWallet, Dies, At, Goes
  <2>2. "insert wallet" \in Place /\ ~SigningPlace("insert wallet")
    BY DEF Place, SigningPlace
  <2>3. user.status # "none"
    BY <2>1 DEF AInv, RowKnown
  <2> QED
    BY <1>1, <2>1, <2>2, <2>3, ReadsKeep
<1> QED
  BY <1>2, <1>3

(* What no call does: only the row, the clock and the count of guesses.    *)
LEMMA OthersKeep ==
    ASSUME AInv, UNCHANGED <<wallet, issued, call, created>>,
           guesses' \in Nat, ahead' \subseteq Calls, now' \in 0..MaxNow,
           user' \in UserType(Len(issued)),
           user'.status = "none" <=> user.status = "none",
           user.status = "none" => user' = user
    PROVE  AInv'
<1>1. Signing' = Signing
  BY DEF Signing
<1>2. Typed' /\ RoomKept'
  BY <1>1 DEF AInv, Typed, RoomKept
<1>3. RowKnown'
  <2>1. user.status = "none" <=> user = NoUser
    BY DEF AInv, RowKnown
  <2>2. user'.status = "none" <=> user' = NoUser
    BY <2>1, NoUserFacts
  <2>3. ASSUME NEW d \in Calls, call'[d].at \notin {"idle", "insert user"}
        PROVE  user'.status # "none"
    BY <2>3 DEF AInv, RowKnown
  <2> QED
    BY <2>2, <2>3 DEF RowKnown
<1>4. RowsCounted'
  BY DEF AInv, RowsCounted
<1> QED
  BY <1>2, <1>3, <1>4 DEF AInv

LEMMA AdministratorKeeps ==
    ASSUME AInv, SuspendUser \/ ActivateUser
    PROVE  AInv'
<1>1. /\ user.status # "none" /\ user \in UserType(Len(issued)) /\ Len(issued) \in Nat
      /\ guesses \in Nat /\ now \in 0..MaxNow /\ ahead \subseteq Calls
  BY IssuedFacts DEF AInv, Typed, RowKnown, SuspendUser, ActivateUser
<1>2. CASE SuspendUser
  <2> DEFINE v == Marked(user, "suspended")
  <2>1. v \in UserType(Len(issued)) /\ v.status = "suspended"
    BY <1>1, UserFacts
  <2>2. user' = v /\ UNCHANGED <<wallet, issued, call, now, guesses, created, ahead>>
    BY <1>2 DEF SuspendUser, Marked
  <2> HIDE DEF v
  <2> QED
    BY <1>1, <2>1, <2>2, OthersKeep
<1>3. CASE ActivateUser
  <2> DEFINE v == Marked(user, "active")
             w == Counted(v, 0, 0)
             u == [user EXCEPT !.status = "active", !.attempts = 0, !.lockedUntil = 0]
  <2>1. v \in UserType(Len(issued)) /\ v.status = "active"
    BY <1>1, UserFacts
  <2>2. u = w
    BY <1>1 DEF UserType, Counted, Marked
  <2>3. user' = u /\ UNCHANGED <<wallet, issued, call, now, created>> /\ guesses' = 0
        /\ ahead' = {}
    BY <1>3 DEF ActivateUser
  <2> HIDE DEF v, u
  <2>4. 0 \in Nat /\ 0 \in 0..(MaxNow + LockDuration)
    BY AccountsAssumption
  <2>5. w \in UserType(Len(issued)) /\ w.status = "active"
    BY <1>1, <2>1, <2>4, CountedFacts
  <2> HIDE DEF w
  <2> QED
    BY <1>1, <2>2, <2>3, <2>5, OthersKeep
<1> QED
  BY <1>2, <1>3

LEMMA TickKeeps ==
    ASSUME AInv, Tick
    PROVE  AInv'
<1>1. /\ user \in UserType(Len(issued)) /\ guesses \in Nat /\ now \in 0..MaxNow
      /\ UNCHANGED <<user, wallet, issued, call, created>>
      /\ now < MaxNow /\ now' = now + 1 /\ guesses' \in {0, guesses} /\ ahead' \in {{}, ahead}
      /\ ahead \subseteq Calls
  BY DEF AInv, Typed, Tick
<1>2. now' \in 0..MaxNow /\ guesses' \in Nat /\ ahead' \subseteq Calls
  BY <1>1, AccountsAssumption
<1> QED
  BY <1>1, <1>2, OthersKeep

LEMMA NextAInv == AInv /\ [Next]_vars => AInv'
<1> SUFFICES ASSUME AInv, [Next]_vars PROVE AInv'
  OBVIOUS
<1>1. CASE UNCHANGED vars
  <2>1. Signing' = Signing
    BY <1>1 DEF vars, Signing
  <2> QED
    BY <1>1, <2>1 DEF vars, AInv, Typed, RowKnown, RowsCounted, RoomKept
<1>2. CASE SuspendUser \/ ActivateUser
  BY <1>2, AdministratorKeeps
<1>3. CASE Tick
  BY <1>3, TickKeeps
<1>4. ASSUME NEW c \in Calls, CallStep(c)
      PROVE  AInv'
  <2>1. CASE FindEmail(c)
    BY <2>1, RegistrationKeeps
  <2>2. CASE InsertUser(c)
    BY <2>2, InsertUserKeeps
  <2>3. CASE LoginRight(c) \/ LoginWrong(c)
    BY <2>3, LoginKeeps
  <2>4. CASE RecordFailedAttempt(c)
    BY <2>4, RecordKeeps
  <2>5. CASE ClearFailedAttempts(c)
    BY <2>5, ClearKeeps
  <2>6. CASE Sign(c)
    BY <2>6, SignKeeps
  <2>7. CASE \E token \in DOMAIN issued : Refresh(c, token)
    BY <2>7, RefreshKeeps
  <2>8. CASE Guard(c, "logout") \/ Guard(c, "find wallet")
    BY <2>8, GuardKeeps
  <2>9. CASE ForgetHash(c)
    BY <2>9, ForgetKeeps
  <2>10. CASE FindWallet(c) \/ Dies(c)
    BY <2>10, WalletKeeps
  <2>11. CASE InsertWallet(c)
    BY <2>11, InsertWalletKeeps
  <2> QED
    BY <1>4, <2>1, <2>2, <2>3, <2>4, <2>5, <2>6, <2>7, <2>8, <2>9, <2>10, <2>11 DEF CallStep
<1> QED
  BY <1>1, <1>2, <1>3, <1>4 DEF Next

LEMMA AlwaysAInv == Spec => []AInv
BY InitAInv, NextAInv, PTL DEF Spec

-----------------------------------------------------------------------------
(* Every variable keeps its type, and no call finds more tokens issued than *)
(* there is room for.                                                      *)
THEOREM AccountsTyped == Spec => []TypeOK
<1>1. AInv => TypeOK
  BY TypesNamed DEF AInv
<1> QED
  BY <1>1, AlwaysAInv, PTL

(* However many registrations, and creations of a wallet, find nothing and *)
(* go on to insert, one row of each comes of them.                         *)
THEOREM OneRowEach == Spec => []CreatedOnce
<1>1. AInv => CreatedOnce
  BY DEF AInv, RowsCounted, CreatedOnce
<1> QED
  BY <1>1, AlwaysAInv, PTL

LEMMA LockFacts ==
    ASSUME Typed
    PROVE  now \in Nat /\ user.lockedUntil \in Nat
BY UserFacts, IssuedFacts DEF Typed

(* Of a call that moves, whether it is a login about to write.             *)
LEMMA EnteringMoves ==
    ASSUME Typed, NEW c \in Calls, NEW x, call' = [call EXCEPT ![c] = x],
           x.at \notin {"clear", "sign"} \/ (x.at = "sign" /\ x.seen # 0)
    PROVE  Entering' \subseteq Entering
<1>1. call'[c] = x /\ \A d \in Calls : d # c => call'[d] = call[d]
  BY DEF Typed
<1> QED
  BY <1>1 DEF Entering, At

(* Steps that neither lock the account nor let a login pass its password.  *)
LEMMA QuietStops ==
    ASSUME LockStopsLogins, Typed, NEW c \in Calls,
           Ends(c) \/ \E place, n : /\ Goes(c, place, n)
                                    /\ place \notin {"clear", "sign"} \/ (place = "sign" /\ n # 0),
           user'.lockedUntil = user.lockedUntil, UNCHANGED <<now, ahead>>
    PROVE  LockStopsLogins'
<1>1. \E x : /\ call' = [call EXCEPT ![c] = x]
             /\ x.at \notin {"clear", "sign"} \/ (x.at = "sign" /\ x.seen # 0)
  <2>1. CASE Ends(c)
    <3>1. call' = [call EXCEPT ![c] = Idle] /\ Idle.at \notin {"clear", "sign"}
      BY <2>1, CallFacts DEF Ends
    <3> QED
      BY <3>1
  <2>2. ASSUME NEW place, NEW n, Goes(c, place, n),
               place \notin {"clear", "sign"} \/ (place = "sign" /\ n # 0)
        PROVE  \E x : /\ call' = [call EXCEPT ![c] = x]
                      /\ x.at \notin {"clear", "sign"} \/ (x.at = "sign" /\ x.seen # 0)
    <3> DEFINE x == [at |-> place, seen |-> n, then |-> "idle"]
    <3>1. call' = [call EXCEPT ![c] = x] /\ x.at = place /\ x.seen = n
      BY <2>2 DEF Goes
    <3> HIDE DEF x
    <3> QED
      BY <2>2, <3>1
  <2> QED
    BY <2>1, <2>2
<1>2. Entering' \subseteq Entering
  BY <1>1, EnteringMoves
<1>3. IsLocked' <=> IsLocked
  BY DEF IsLocked
<1> QED
  BY <1>2, <1>3 DEF LockStopsLogins

LEMMA OpenStops == ~IsLocked' => LockStopsLogins'
BY DEF LockStopsLogins

LEMMA RecordStops ==
    ASSUME AInv, LockStopsLogins, NEW c \in Calls, RecordFailedAttempt(c)
    PROVE  LockStopsLogins'
<1>1. /\ user \in UserType(Len(issued)) /\ Typed /\ now' = now
      /\ call' = [call EXCEPT ![c] = Idle]
  BY DEF AInv, Typed, RecordFailedAttempt, Ends
<1>2. Entering' \subseteq Entering
  <2>1. Idle.at \notin {"clear", "sign"}
    BY CallFacts
  <2> QED
    BY <1>1, <2>1, EnteringMoves
<1>3. CASE IsLocked
  BY <1>2, <1>3 DEF RecordFailedAttempt, LockStopsLogins
<1>4. CASE ~IsLocked /\ call[c].seen + 1 >= MaxFailedAttempts
  BY <1>2, <1>4 DEF RecordFailedAttempt, LockStopsLogins
<1>5. CASE ~IsLocked /\ ~(call[c].seen + 1 >= MaxFailedAttempts)
  <2>1. user'.lockedUntil = user.lockedUntil
    BY <1>1, <1>5 DEF RecordFailedAttempt, UserType
  <2> QED
    BY <1>1, <1>5, <2>1, OpenStops DEF IsLocked
<1> QED
  BY <1>3, <1>4, <1>5

LEMMA CallStops ==
    ASSUME AInv, LockStopsLogins, NEW c \in Calls, CallStep(c)
    PROVE  LockStopsLogins'
<1>0. user \in UserType(Len(issued)) /\ Typed /\ now \in Nat
  BY LockFacts DEF AInv, Typed
<1>1. CASE RecordFailedAttempt(c)
  BY <1>1, RecordStops
<1>2. CASE ClearFailedAttempts(c)
  <2>1. user'.lockedUntil = 0 /\ now' = now
    BY <1>0, <1>2 DEF ClearFailedAttempts, UserType
  <2> QED
    BY <1>0, <2>1, OpenStops DEF IsLocked
<1>3. CASE LoginRight(c)
  BY <1>3, OpenStops DEF LoginRight, IsLocked
<1>4. CASE InsertUser(c) /\ user = NoUser
  <2>1. user'.lockedUntil = 0 /\ now' = now
    BY <1>4 DEF InsertUser, NoUser
  <2> QED
    BY <1>0, <2>1, OpenStops DEF IsLocked
<1>5. CASE InsertUser(c) /\ user # NoUser
  <2>1. Ends(c) /\ UNCHANGED <<user, now, ahead>>
    BY <1>5 DEF InsertUser
  <2> QED
    BY <1>0, <2>1, QuietStops
<1>6. CASE FindEmail(c) \/ LoginWrong(c) \/ Guard(c, "logout") \/ Guard(c, "find wallet")
           \/ FindWallet(c) \/ InsertWallet(c) \/ Dies(c)
  <2>1. UNCHANGED <<user, now, ahead>>
    BY <1>6 DEF FindEmail, LoginWrong, Guard, FindWallet, InsertWallet, Dies
  <2>2. \/ Ends(c)
        \/ \E place \in {"insert user", "record", "logout", "find wallet", "insert wallet"} : \E n :
              Goes(c, place, n)
    BY <1>6 DEF FindEmail, LoginWrong, Guard, FindWallet, InsertWallet, Dies
  <2> QED
    BY <1>0, <2>1, <2>2, QuietStops
<1>7. CASE Sign(c) \/ ForgetHash(c)
  <2>1. Ends(c) /\ UNCHANGED <<now, ahead>> /\ \E t : user' = [user EXCEPT !.hash = t]
    BY <1>7 DEF Sign, ForgetHash
  <2>2. user'.lockedUntil = user.lockedUntil
    BY <1>0, <2>1 DEF UserType
  <2> QED
    BY <1>0, <2>1, <2>2, QuietStops
<1>8. CASE \E token \in DOMAIN issued : Refresh(c, token)
  <2>1. PICK token \in DOMAIN issued : Refresh(c, token)
    BY <1>8
  <2>2. token # 0
    BY <1>0, IssuedFacts DEF Typed
  <2>3. UNCHANGED <<user, now, ahead>> /\ (Goes(c, "sign", token) \/ Goes(c, "reuse", token))
    BY <2>1 DEF Refresh
  <2> QED
    BY <1>0, <2>2, <2>3, QuietStops
<1> QED
  BY <1>1, <1>2, <1>3, <1>4, <1>5, <1>6, <1>7, <1>8 DEF CallStep

LEMMA OthersStop ==
    ASSUME AInv, LockStopsLogins, SuspendUser \/ ActivateUser \/ Tick
    PROVE  LockStopsLogins'
<1>0. user \in UserType(Len(issued)) /\ now \in Nat /\ user.lockedUntil \in Nat
  BY LockFacts DEF AInv, Typed
<1>1. CASE ActivateUser
  <2>1. user'.lockedUntil = 0 /\ now' = now
    BY <1>0, <1>1 DEF ActivateUser, UserType
  <2> QED
    BY <1>0, <2>1, OpenStops DEF IsLocked
<1>2. CASE SuspendUser
  <2>1. UNCHANGED <<call, now, ahead>> /\ user'.lockedUntil = user.lockedUntil
    BY <1>0, <1>2 DEF SuspendUser, UserType
  <2> QED
    BY <2>1 DEF LockStopsLogins, IsLocked, Entering, At
<1>3. CASE Tick /\ user.lockedUntil = now + 1
  <2>1. now' = now + 1 /\ user' = user
    BY <1>3 DEF Tick
  <2> QED
    BY <1>0, <1>3, <2>1, OpenStops DEF IsLocked
<1>4. CASE Tick /\ user.lockedUntil # now + 1
  <2>1. UNCHANGED <<user, call, ahead>> /\ now' = now + 1
    BY <1>4 DEF Tick
  <2>2. IsLocked' => IsLocked
    BY <1>0, <2>1 DEF IsLocked
  <2>3. Entering' = Entering
    BY <2>1 DEF Entering, At
  <2> QED
    BY <2>1, <2>2, <2>3 DEF LockStopsLogins
<1> QED
  BY <1>1, <1>2, <1>3, <1>4

(* However many calls are served at once: once an account is locked, a     *)
(* login that reads the row afterwards neither resets its counter nor is   *)
(* given tokens while the lock lasts; only those that have passed the      *)
(* password before it do.                                                  *)
THEOREM LocksHold == Spec => []LockStopsLogins
<1>1. Init => AInv /\ LockStopsLogins
  <2>1. Init => ~IsLocked
    BY DEF Init, IsLocked, NoUser
  <2> QED
    BY <2>1, InitAInv DEF LockStopsLogins
<1>2. (AInv /\ LockStopsLogins) /\ [Next]_vars => (AInv /\ LockStopsLogins)'
  <2> SUFFICES ASSUME AInv, LockStopsLogins, [Next]_vars PROVE LockStopsLogins'
    BY NextAInv
  <2>1. CASE UNCHANGED vars
    BY <2>1 DEF vars, LockStopsLogins, IsLocked, Entering, At
  <2>2. CASE \E c \in Calls : CallStep(c)
    BY <2>2, CallStops
  <2>3. CASE SuspendUser \/ ActivateUser \/ Tick
    BY <2>3, OthersStop
  <2> QED
    BY <2>1, <2>2, <2>3 DEF Next
<1> QED
  BY <1>1, <1>2, PTL DEF Spec

-----------------------------------------------------------------------------
(* A set of naturals has a least element.                                  *)
LEMMA LeastNatural ==
    ASSUME NEW S, S \subseteq Nat, S # {}
    PROVE  \E least \in S : \A n \in S : least <= n
<1> DEFINE R == {ss \in Nat \X Nat : ss[1] < ss[2]}
<1>1. IsWellFoundedOn(R, Nat)
  BY NatLessThanWellFounded DEF OpToRel
<1>2. \E least \in S : \A n \in S : ~(<<n, least>> \in R)
  <2> HIDE DEF R
  <2> QED
    BY <1>1, WFMin
<1>3. \A m, n \in Nat : m <= n \/ <<n, m>> \in R
  OBVIOUS
<1> QED
  <2> HIDE DEF R
  <2> QED
    BY <1>2, <1>3

(* f is the table, up to m, of what starts with c and goes on with          *)
(* f[n] = a[n] * f[n - 1] + b[n].                                          *)
Table(m, c, a, b, f) ==
    /\ f \in [0..m -> Nat] /\ f[0] = c
    /\ \A n \in 1..m : f[n] = a[n] * f[n - 1] + b[n]

LEMMA ProductIsNatural == \A i, j, l \in Nat : i * j + l \in Nat
OBVIOUS

LEMMA TableExists ==
    ASSUME NEW c \in Nat, NEW a \in [Nat -> Nat], NEW b \in [Nat -> Nat]
    PROVE  \A m \in Nat : \E f : Table(m, c, a, b, f)
<1> DEFINE S == {m \in Nat : ~ \E f : Table(m, c, a, b, f)}
<1> SUFFICES ASSUME S # {} PROVE FALSE
  OBVIOUS
<1>1. PICK m \in S : \A n \in S : m <= n
  <2>1. S \subseteq Nat
    OBVIOUS
  <2> HIDE DEF S
  <2> QED
    BY <2>1, LeastNatural
<1>2. m \in Nat /\ ~ \E f : Table(m, c, a, b, f)
  OBVIOUS
<1>3. m # 0
  <2>1. Table(0, c, a, b, [n \in 0..0 |-> c])
    BY DEF Table
  <2> QED
    BY <1>2, <2>1
<1>4. PICK f : Table(m - 1, c, a, b, f)
  <2>1. m - 1 \in Nat /\ ~(m <= m - 1)
    BY <1>2, <1>3
  <2>2. m - 1 \notin S
    <3> HIDE DEF S
    <3> QED
      BY <1>1, <2>1
  <2> QED
    BY <2>1, <2>2
<1> DEFINE last == a[m] * f[m - 1] + b[m]
           g == [n \in 0..m |-> IF n = m THEN last ELSE f[n]]
<1>5. /\ m - 1 \in Nat /\ \A n \in 0..(m - 1) : f[n] \in Nat
      /\ f[0] = c /\ \A n \in 1..(m - 1) : f[n] = a[n] * f[n - 1] + b[n]
  <2>1. m - 1 \in Nat
    BY <1>2, <1>3
  <2>2. /\ f \in [0..(m - 1) -> Nat] /\ f[0] = c
        /\ \A n \in 1..(m - 1) : f[n] = a[n] * f[n - 1] + b[n]
    BY <1>4 DEF Table
  <2> QED
    BY <2>1, <2>2
<1>6. last \in Nat
  <2>1. a[m] \in Nat /\ b[m] \in Nat /\ f[m - 1] \in Nat
    BY <1>2, <1>3, <1>5
  <2> QED
    BY <2>1, ProductIsNatural
<1>7. g[m] = last /\ \A n \in 0..(m - 1) : g[n] = f[n]
  <2> HIDE DEF last
  <2> QED
    BY <1>2, <1>3
<1>8. g \in [0..m -> Nat]
  <2> HIDE DEF last
  <2> QED
    BY <1>2, <1>3, <1>5, <1>6
<1> HIDE DEF g
<1>9. \A n \in 1..m : g[n] = a[n] * g[n - 1] + b[n]
  <2> SUFFICES ASSUME NEW n \in 1..m PROVE g[n] = a[n] * g[n - 1] + b[n]
    OBVIOUS
  <2>1. n - 1 \in 0..(m - 1) /\ g[n - 1] = f[n - 1]
    BY <1>2, <1>3, <1>7
  <2>2. CASE n = m
    BY <1>7, <2>1, <2>2
  <2>3. CASE n # m
    <3>1. n \in 1..(m - 1)
      BY <1>2, <2>3
    <3>2. g[n] = f[n]
      BY <1>2, <1>7, <3>1
    <3> QED
      BY <1>5, <2>1, <3>1, <3>2
  <2> QED
    BY <2>2, <2>3
<1>10. g[0] = c
  BY <1>2, <1>3, <1>5, <1>7
<1>11. Table(m, c, a, b, g)
  BY <1>8, <1>9, <1>10 DEF Table
<1> QED
  BY <1>2, <1>11

(* Two tables agree where both have an entry.                              *)
LEMMA TablesAgree ==
    ASSUME NEW c, NEW a, NEW b, NEW m \in Nat, NEW f, Table(m, c, a, b, f),
           NEW l \in Nat, NEW g, Table(l, c, a, b, g), NEW i \in 0..m, i <= l
    PROVE  f[i] = g[i]
<1> DEFINE S == {n \in Nat : n <= m /\ n <= l /\ f[n] # g[n]}
<1> SUFFICES ASSUME S # {} PROVE FALSE
  OBVIOUS
<1>1. PICK n \in S : \A j \in S : n <= j
  <2>1. S \subseteq Nat
    OBVIOUS
  <2> HIDE DEF S
  <2> QED
    BY <2>1, LeastNatural
<1>2. n \in Nat /\ n <= m /\ n <= l /\ f[n] # g[n]
  OBVIOUS
<1>3. n # 0
  BY <1>2 DEF Table
<1>4. n - 1 \in Nat /\ n - 1 <= m /\ n - 1 <= l /\ ~(n <= n - 1)
  BY <1>2, <1>3
<1>5. f[n - 1] = g[n - 1]
  <2>1. n - 1 \notin S
    <3> HIDE DEF S
    <3> QED
      BY <1>1, <1>4
  <2> QED
    BY <1>4, <2>1
<1>6. n \in 1..m /\ n \in 1..l
  BY <1>2, <1>3
<1>7. f[n] = a[n] * f[n - 1] + b[n] /\ g[n] = a[n] * g[n - 1] + b[n]
  BY <1>6 DEF Table
<1> QED
  BY <1>2, <1>5, <1>7

LEMMA ProductIsPositive == \A i, j \in Nat \ {0} : i * j \in Nat \ {0}
OBVIOUS

LEMMA FactorialFacts ==
    /\ \A n \in Nat : factorial[n] \in Nat \ {0}
    /\ factorial[0] = 1
    /\ \A n \in Nat \ {0} : factorial[n] = n * factorial[n - 1]
<1> DEFINE up == [n \in Nat |-> n]
           none == [n \in Nat |-> 0]
           Fact(n, f) == Table(n, 1, up, none, f)
           T(n) == CHOOSE f : Fact(n, f)
           F == [n \in Nat |-> T(n)[n]]
           Equation(f) == f = [n \in Nat |-> IF n = 0 THEN 1 ELSE n * f[n - 1]]
<1>1. \A n \in Nat : Fact(n, T(n))
  <2>1. up \in [Nat -> Nat] /\ none \in [Nat -> Nat]
    OBVIOUS
  <2> HIDE DEF up, none
  <2>2. \A n \in Nat : \E f : Fact(n, f)
    BY <2>1, TableExists
  <2> HIDE DEF Fact
  <2> QED
    BY <2>2
<1> HIDE DEF T
<1>2. \A n \in Nat : /\ T(n) \in [0..n -> Nat] /\ T(n)[0] = 1
                     /\ \A i \in 1..n : T(n)[i] = i * T(n)[i - 1]
  <2> SUFFICES ASSUME NEW n \in Nat
               PROVE  /\ T(n) \in [0..n -> Nat] /\ T(n)[0] = 1
                      /\ \A i \in 1..n : T(n)[i] = i * T(n)[i - 1]
    OBVIOUS
  <2>1. /\ T(n) \in [0..n -> Nat] /\ T(n)[0] = 1
        /\ \A i \in 1..n : T(n)[i] = up[i] * T(n)[i - 1] + none[i]
    BY <1>1 DEF Table
  <2>2. ASSUME NEW i \in 1..n PROVE T(n)[i] = i * T(n)[i - 1]
    <3>1. i \in Nat /\ up[i] = i /\ none[i] = 0 /\ T(n)[i - 1] \in Nat
      BY <2>1
    <3> HIDE DEF up, none
    <3>2. T(n)[i] = i * T(n)[i - 1] + 0 /\ i * T(n)[i - 1] + 0 \in Nat
      BY <2>1, <3>1, ProductIsNatural
    <3> QED
      BY <3>1, <3>2
  <2> QED
    BY <2>1, <2>2
<1>3. F[0] = 1
  BY <1>2
<1>4. ASSUME NEW n \in Nat \ {0} PROVE F[n] = n * F[n - 1]
  <2>1. n - 1 \in Nat /\ n \in Nat /\ n \in 1..n /\ n - 1 \in 0..(n - 1) /\ n - 1 <= n
    OBVIOUS
  <2>2. F[n] = T(n)[n] /\ F[n - 1] = T(n - 1)[n - 1]
    BY <2>1
  <2>3. T(n)[n] = n * T(n)[n - 1]
    BY <1>2, <2>1
  <2>4. T(n - 1)[n - 1] = T(n)[n - 1]
    <3> HIDE DEF up, none
    <3> QED
      BY <1>1, <2>1, TablesAgree
  <2> HIDE DEF F
  <2> QED
    BY <2>2, <2>3, <2>4
<1>5. Equation(F)
  <2>1. F = [n \in Nat |-> F[n]]
    OBVIOUS
  <2> HIDE DEF F
  <2>2. \A n \in Nat : F[n] = IF n = 0 THEN 1 ELSE n * F[n - 1]
    BY <1>3, <1>4
  <2> QED
    BY <2>1, <2>2
<1>6. Equation(factorial)
  <2>1. factorial = CHOOSE f : Equation(f)
    BY DEF factorial
  <2>2. \E f : Equation(f)
    BY <1>5
  <2> HIDE DEF Equation
  <2> QED
    BY <2>1, <2>2
<1>7. factorial[0] = 1 /\ \A n \in Nat \ {0} : factorial[n] = n * factorial[n - 1]
  BY <1>6
<1>8. \A n \in Nat : factorial[n] \in Nat \ {0}
  <2> DEFINE S == {n \in Nat : factorial[n] \notin Nat \ {0}}
  <2> SUFFICES ASSUME S # {} PROVE FALSE
    OBVIOUS
  <2>1. PICK n \in S : \A j \in S : n <= j
    <3>1. S \subseteq Nat
      OBVIOUS
    <3> HIDE DEF S
    <3> QED
      BY <3>1, LeastNatural
  <2>2. n \in Nat /\ factorial[n] \notin Nat \ {0}
    OBVIOUS
  <2>3. n # 0
    BY <1>7, <2>2
  <2>4. n - 1 \in Nat /\ ~(n <= n - 1)
    BY <2>2, <2>3
  <2>5. factorial[n - 1] \in Nat \ {0}
    <3>1. n - 1 \notin S
      <4> HIDE DEF S
      <4> QED
        BY <2>1, <2>4
    <3> QED
      BY <2>4, <3>1
  <2> QED
    BY <1>7, <2>2, <2>3, <2>5, ProductIsPositive
<1> QED
  BY <1>7, <1>8

-----------------------------------------------------------------------------
(* In how many ways r climbers can stand on m + 1 heights.                 *)
Ways(r, m) == choose(r + m, m)

LEMMA DivisionOfProduct ==
    ASSUME NEW q \in Nat, NEW d \in Nat \ {0}
    PROVE  (q * d) \div d = q
<1> DEFINE z == (q * d) \div d
<1>1. z \in Int /\ d * z <= q * d /\ q * d < d * (z + 1)
  OBVIOUS
<1> HIDE DEF z
<1>2. ~(z < q)
  <2> SUFFICES ASSUME z + 1 <= q PROVE FALSE
    BY <1>1
  <2>1. d * (z + 1) <= d * q
    BY <1>1
  <2> QED
    BY <1>1, <2>1
<1>3. ~(q < z)
  <2> SUFFICES ASSUME q + 1 <= z PROVE FALSE
    BY <1>1
  <2>1. d * (q + 1) <= d * z
    BY <1>1
  <2> QED
    BY <1>1, <2>1
<1> QED
  BY <1>1, <1>2, <1>3 DEF z

(* Ways is a quotient without a rest.                                      *)
Whole(r, m) ==
    /\ Ways(r, m) \in Nat \ {0}
    /\ factorial[r + m] = Ways(r, m) * (factorial[m] * factorial[r])

LEMMA WaysIsQuotient ==
    ASSUME NEW r \in Nat, NEW m \in Nat, NEW q \in Nat \ {0},
           factorial[r + m] = q * (factorial[m] * factorial[r])
    PROVE  Ways(r, m) = q /\ Whole(r, m)
<1> DEFINE d == factorial[m] * factorial[r]
<1>1. d \in Nat \ {0}
  BY FactorialFacts, ProductIsPositive
<1>2. Ways(r, m) = (q * d) \div d
  <2>1. (r + m) - m = r
    OBVIOUS
  <2> QED
    BY <2>1 DEF Ways, choose
<1> HIDE DEF d
<1>3. Ways(r, m) = q
  BY <1>1, <1>2, DivisionOfProduct
<1> QED
  BY <1>3 DEF Whole

LEMMA WaysAtZero ==
    ASSUME NEW n \in Nat
    PROVE  Ways(n, 0) = 1 /\ Whole(n, 0) /\ Ways(0, n) = 1 /\ Whole(0, n)
<1>1. factorial[n] \in Nat \ {0} /\ factorial[0] = 1
  BY FactorialFacts
<1>2. factorial[n + 0] = 1 * (factorial[0] * factorial[n])
  BY <1>1
<1>3. factorial[0 + n] = 1 * (factorial[n] * factorial[0])
  BY <1>1
<1> QED
  BY <1>2, <1>3, WaysIsQuotient

LEMMA SplitProduct ==
    ASSUME NEW a \in Nat, NEW b \in Nat, NEW x \in Nat, NEW y \in Nat,
           NEW p \in Nat, NEW q \in Nat, NEW f \in Nat,
           f = p * ((b * y) * x), f = q * (y * (a * x))
    PROVE  (a + b) * f = (p + q) * ((b * y) * (a * x))
<1>1. (a + b) * f = a * f + b * f
  OBVIOUS
<1>2. a * f = p * ((b * y) * (a * x))
  OBVIOUS
<1>3. b * f = q * ((b * y) * (a * x))
  OBVIOUS
<1> HIDE DEF Ways
<1>4. (b * y) * (a * x) \in Nat
  OBVIOUS
<1> QED
  BY <1>1, <1>2, <1>3, <1>4

(* Pascal's rule.                                                          *)
LEMMA PascalStep ==
    ASSUME NEW r \in Nat \ {0}, NEW m \in Nat \ {0}, Whole(r - 1, m), Whole(r, m - 1)
    PROVE  Whole(r, m) /\ Ways(r, m) = Ways(r - 1, m) + Ways(r, m - 1)
<1> DEFINE p == Ways(r - 1, m)
           q == Ways(r, m - 1)
           x == factorial[r - 1]
           y == factorial[m - 1]
           f == factorial[r + m - 1]
<1>1. /\ r - 1 \in Nat /\ m - 1 \in Nat /\ r + m \in Nat \ {0} /\ r + m - 1 \in Nat
      /\ (r - 1) + m = r + m - 1 /\ r + (m - 1) = r + m - 1
  OBVIOUS
<1>2. x \in Nat \ {0} /\ y \in Nat \ {0} /\ f \in Nat \ {0}
  BY <1>1, FactorialFacts
<1>3. /\ factorial[r] = r * x /\ factorial[m] = m * y
      /\ factorial[r + m] = (r + m) * f
  BY <1>1, FactorialFacts
<1>4. p \in Nat \ {0} /\ q \in Nat \ {0}
  BY DEF Whole
<1>5. f = p * ((m * y) * x)
  BY <1>1, <1>3 DEF Whole
<1>6. f = q * (y * (r * x))
  BY <1>1, <1>3 DEF Whole
<1> HIDE DEF p, q, x, y, f
<1>7. factorial[r + m] = (p + q) * ((m * y) * (r * x))
  BY <1>2, <1>3, <1>4, <1>5, <1>6, SplitProduct
<1>8. factorial[r + m] = (p + q) * (factorial[m] * factorial[r])
  BY <1>3, <1>7
<1>9. p + q \in Nat \ {0}
  BY <1>4
<1>10. Whole(r, m) /\ Ways(r, m) = p + q
  BY <1>8, <1>9, WaysIsQuotient
<1> QED
  BY <1>10 DEF p, q

LEMMA AllWhole == \A r, m \in Nat : Whole(r, m)
<1> DEFINE S == {s \in Nat : \E r, m \in Nat : r + m = s /\ ~Whole(r, m)}
<1>1. SUFFICES ASSUME S # {} PROVE FALSE
  <2> SUFFICES ASSUME NEW r \in Nat, NEW m \in Nat PROVE Whole(r, m)
    OBVIOUS
  <2>1. r + m \notin S
    BY <1>1
  <2> QED
    BY <2>1
<1>2. PICK s \in S : \A n \in S : s <= n
  <2>1. S \subseteq Nat
    OBVIOUS
  <2> HIDE DEF S
  <2> QED
    BY <1>1, <2>1, LeastNatural
<1>3. PICK r \in Nat, m \in Nat : r + m = s /\ ~Whole(r, m)
  OBVIOUS
<1>4. r # 0 /\ m # 0
  BY <1>3, WaysAtZero
<1>5. s \in Nat /\ r - 1 \in Nat /\ m - 1 \in Nat /\ s - 1 \in Nat /\ ~(s <= s - 1)
      /\ (r - 1) + m = s - 1 /\ r + (m - 1) = s - 1
  BY <1>3, <1>4
<1>6. s - 1 \notin S
  <2> HIDE DEF S
  <2> QED
    BY <1>2, <1>5
<1>7. Whole(r - 1, m) /\ Whole(r, m - 1)
  BY <1>5, <1>6
<1> QED
  BY <1>3, <1>4, <1>7, PascalStep

LEMMA WaysFacts ==
    /\ \A r, m \in Nat : Ways(r, m) \in Nat \ {0}
    /\ \A n \in Nat : Ways(n, 0) = 1 /\ Ways(0, n) = 1
    /\ \A r, m \in Nat \ {0} : Ways(r, m) = Ways(r - 1, m) + Ways(r, m - 1)
<1>1. \A r, m \in Nat : Ways(r, m) \in Nat \ {0}
  BY AllWhole DEF Whole
<1>2. \A r, m \in Nat \ {0} : r - 1 \in Nat /\ m - 1 \in Nat
  OBVIOUS
<1> QED
  BY <1>1, <1>2, AllWhole, WaysAtZero, PascalStep

(* More calls have more ways.                                              *)
LEMMA WaysGrow ==
    ASSUME NEW m \in Nat, NEW r \in Nat, NEW l \in Nat, r <= l
    PROVE  Ways(r, m) <= Ways(l, m)
<1> DEFINE S == {n \in Nat : r <= n /\ ~(Ways(r, m) <= Ways(n, m))}
<1>1. SUFFICES ASSUME S # {} PROVE FALSE
  BY <1>1
<1>2. PICK n \in S : \A j \in S : n <= j
  <2>1. S \subseteq Nat
    OBVIOUS
  <2> HIDE DEF S
  <2> QED
    BY <1>1, <2>1, LeastNatural
<1>3. n \in Nat /\ r <= n /\ ~(Ways(r, m) <= Ways(n, m))
  OBVIOUS
<1>4. n # r
  BY <1>3, WaysFacts
<1>5. n - 1 \in Nat /\ r <= n - 1 /\ ~(n <= n - 1) /\ n \in Nat \ {0}
  BY <1>3, <1>4
<1>6. n - 1 \notin S
  <2> HIDE DEF S
  <2> QED
    BY <1>2, <1>5
<1>7. Ways(r, m) <= Ways(n - 1, m)
  BY <1>5, <1>6
<1>8. Ways(n - 1, m) <= Ways(n, m)
  <2>1. CASE m = 0
    BY <1>3, <1>5, <2>1, WaysFacts
  <2>2. CASE m # 0
    <3>1. m \in Nat \ {0} /\ m - 1 \in Nat
      BY <2>2
    <3>2. /\ Ways(n, m) = Ways(n - 1, m) + Ways(n, m - 1)
          /\ Ways(n - 1, m) \in Nat /\ Ways(n, m - 1) \in Nat
      BY <1>5, <3>1, WaysFacts
    <3> QED
      BY <3>2
  <2> QED
    BY <2>1, <2>2
<1>9. Ways(r, m) \in Nat /\ Ways(n - 1, m) \in Nat /\ Ways(n, m) \in Nat
  BY <1>3, <1>5, WaysFacts
<1> QED
  BY <1>3, <1>7, <1>8, <1>9

(* How many multisets of m values there are among r.                       *)
Weight(r, m) == IF r = 0 THEN 0 ELSE Ways(r - 1, m)

LEMMA WeightFacts ==
    ASSUME NEW m \in Nat \ {0}
    PROVE  /\ \A r \in Nat : Weight(r, m) \in Nat
           /\ \A r \in Nat : Ways(r, m) = Ways(r, m - 1) + Weight(r, m)
           /\ \A r \in Nat : Weight(r + 1, m) = Ways(r, m)
           /\ \A r, l \in Nat : r <= l => Weight(r, m) <= Weight(l, m)
<1>1. \A r \in Nat \ {0} : r - 1 \in Nat
  OBVIOUS
<1>2. m \in Nat /\ m - 1 \in Nat
  OBVIOUS
<1>3. \A r \in Nat : Weight(r, m) \in Nat
  BY <1>1, <1>2, WaysFacts DEF Weight
<1>4. ASSUME NEW r \in Nat PROVE Ways(r, m) = Ways(r, m - 1) + Weight(r, m)
  <2>1. CASE r = 0
    BY <1>2, <2>1, WaysFacts DEF Weight
  <2>2. CASE r # 0
    <3>1. r \in Nat \ {0} /\ r - 1 \in Nat
      BY <2>2
    <3>2. /\ Ways(r, m) = Ways(r - 1, m) + Ways(r, m - 1) /\ Weight(r, m) = Ways(r - 1, m)
          /\ Ways(r - 1, m) \in Nat /\ Ways(r, m - 1) \in Nat
      BY <1>2, <3>1, WaysFacts DEF Weight
    <3> QED
      BY <3>2
  <2> QED
    BY <2>1, <2>2
<1>5. ASSUME NEW r \in Nat PROVE Weight(r + 1, m) = Ways(r, m)
  <2>1. r + 1 # 0 /\ (r + 1) - 1 = r
    OBVIOUS
  <2> QED
    BY <2>1 DEF Weight
<1>6. ASSUME NEW r \in Nat, NEW l \in Nat, r <= l PROVE Weight(r, m) <= Weight(l, m)
  <2>1. CASE r = 0
    <3>1. Weight(r, m) = 0 /\ Weight(l, m) \in Nat
      BY <1>3, <2>1 DEF Weight
    <3> QED
      BY <3>1
  <2>2. CASE r # 0
    <3>1. l # 0 /\ r - 1 \in Nat /\ l - 1 \in Nat /\ r - 1 <= l - 1
      BY <1>6, <2>2
    <3> QED
      BY <1>2, <2>2, <3>1, WaysGrow DEF Weight
  <2> QED
    BY <2>1, <2>2
<1> QED
  BY <1>3, <1>4, <1>5, <1>6

(* f[m] adds up the weights of R[1] .. R[m].                               *)
Sums(n, R, f) ==
    /\ f \in [0..n -> Nat] /\ f[0] = 0
    /\ \A m \in 1..n : f[m] = f[m - 1] + Weight(R[m], m)

LEMMA SumsExist ==
    ASSUME NEW n \in Nat, NEW R \in [Nat -> Nat]
    PROVE  \E f : Sums(n, R, f)
<1> DEFINE a == [m \in Nat |-> 1]
           b == [m \in Nat |-> IF m = 0 THEN 0 ELSE Weight(R[m], m)]
<1>1. a \in [Nat -> Nat] /\ b \in [Nat -> Nat]
  BY WeightFacts
<1>2. \E f : Table(n, 0, a, b, f)
  <2> HIDE DEF a, b
  <2> QED
    BY <1>1, TableExists
<1>3. ASSUME NEW f, Table(n, 0, a, b, f) PROVE Sums(n, R, f)
  <2>1. f \in [0..n -> Nat] /\ f[0] = 0 /\ \A m \in 1..n : f[m] = a[m] * f[m - 1] + b[m]
    BY <1>3 DEF Table
  <2>2. ASSUME NEW m \in 1..n PROVE f[m] = f[m - 1] + Weight(R[m], m)
    <3>1. m \in Nat /\ m # 0 /\ m - 1 \in 0..n
      OBVIOUS
    <3>2. a[m] = 1 /\ b[m] = Weight(R[m], m)
      BY <3>1
    <3> HIDE DEF a, b
    <3>3. f[m - 1] \in Nat
      BY <2>1, <3>1
    <3>4. f[m] = 1 * f[m - 1] + Weight(R[m], m)
      BY <2>1, <3>2
    <3> QED
      BY <3>3, <3>4
  <2> QED
    BY <2>1, <2>2 DEF Sums
<1> HIDE DEF a, b
<1> QED
  BY <1>2, <1>3

(* A sum is less than the ways of its last row.                            *)
LEMMA SumsAreBelow ==
    ASSUME NEW n \in Nat, NEW R \in [Nat -> Nat], NEW f, Sums(n, R, f),
           \A m \in Nat : R[m] <= R[m + 1], NEW i \in 0..n
    PROVE  f[i] < Ways(R[i], i)
<1> DEFINE S == {m \in 0..n : ~(f[m] < Ways(R[m], m))}
<1> SUFFICES ASSUME S # {} PROVE FALSE
  OBVIOUS
<1>1. PICK m \in S : \A j \in S : m <= j
  <2>1. S \subseteq Nat
    OBVIOUS
  <2> HIDE DEF S
  <2> QED
    BY <2>1, LeastNatural
<1>2. m \in 0..n /\ ~(f[m] < Ways(R[m], m))
  OBVIOUS
<1>3. m # 0
  <2>1. R[0] \in Nat /\ f[0] = 0
    BY DEF Sums
  <2>2. Ways(R[0], 0) = 1
    BY <2>1, WaysFacts
  <2> QED
    BY <1>2, <2>1, <2>2
<1>4. /\ m \in 1..n /\ m \in Nat \ {0} /\ m - 1 \in Nat /\ m - 1 \in 0..n /\ ~(m <= m - 1)
      /\ (m - 1) + 1 = m
  BY <1>2, <1>3
<1>5. f[m - 1] < Ways(R[m - 1], m - 1)
  <2>1. m - 1 \notin S
    <3> HIDE DEF S
    <3> QED
      BY <1>1, <1>4
  <2> QED
    BY <1>4, <2>1
<1>6. R[m - 1] \in Nat /\ R[m] \in Nat /\ R[m - 1] <= R[m]
  BY <1>4
<1>7. Ways(R[m - 1], m - 1) <= Ways(R[m], m - 1)
  BY <1>4, <1>6, WaysGrow
<1>8. Ways(R[m], m) = Ways(R[m], m - 1) + Weight(R[m], m) /\ Weight(R[m], m) \in Nat
  BY <1>4, <1>6, WeightFacts
<1>9. /\ f[m] = f[m - 1] + Weight(R[m], m) /\ f[m] \in Nat /\ f[m - 1] \in Nat
  BY <1>4 DEF Sums
<1>10. Ways(R[m - 1], m - 1) \in Nat /\ Ways(R[m], m - 1) \in Nat /\ Ways(R[m], m) \in Nat
  BY <1>4, <1>6, WaysFacts
<1> QED
  BY <1>2, <1>5, <1>7, <1>8, <1>9, <1>10

(* From row q on, a sum of rows none of which is less stays ahead.         *)
LEMMA SumsStayAhead ==
    ASSUME NEW n \in Nat, NEW q \in 0..n, NEW d \in Nat,
           NEW R \in [Nat -> Nat], NEW f, Sums(n, R, f),
           NEW T \in [Nat -> Nat], NEW g, Sums(n, T, g),
           \A m \in (q + 1)..n : R[m] <= T[m], f[q] + d <= g[q]
    PROVE  f[n] + d <= g[n]
<1> DEFINE S == {m \in q..n : ~(f[m] + d <= g[m])}
<1>1. SUFFICES ASSUME S # {} PROVE FALSE
  <2>1. n \in q..n /\ n \notin S
    BY <1>1
  <2> QED
    BY <2>1
<1>2. PICK m \in S : \A j \in S : m <= j
  <2>1. S \subseteq Nat
    OBVIOUS
  <2> HIDE DEF S
  <2> QED
    BY <1>1, <2>1, LeastNatural
<1>3. m \in q..n /\ ~(f[m] + d <= g[m])
  OBVIOUS
<1>4. m # q
  BY <1>3
<1>5. m \in (q + 1)..n /\ m \in 1..n /\ m \in Nat \ {0} /\ m - 1 \in q..n /\ ~(m <= m - 1)
      /\ m - 1 \in 0..n
  BY <1>3, <1>4
<1>6. f[m - 1] + d <= g[m - 1]
  <2>1. m - 1 \notin S
    <3> HIDE DEF S
    <3> QED
      BY <1>2, <1>5
  <2> QED
    BY <1>5, <2>1
<1>7. /\ f[m] = f[m - 1] + Weight(R[m], m) /\ g[m] = g[m - 1] + Weight(T[m], m)
      /\ f[m] \in Nat /\ g[m] \in Nat /\ f[m - 1] \in Nat /\ g[m - 1] \in Nat
  BY <1>5 DEF Sums
<1>8. Weight(R[m], m) \in Nat /\ Weight(T[m], m) \in Nat /\ Weight(R[m], m) <= Weight(T[m], m)
  <2>1. R[m] \in Nat /\ T[m] \in Nat /\ R[m] <= T[m]
    BY <1>5
  <2> QED
    BY <1>5, <2>1, WeightFacts
<1> QED
  BY <1>3, <1>6, <1>7, <1>8

(* One more in row q outweighs whatever the rows before it lose.           *)
LEMMA SumsGoUp ==
    ASSUME NEW n \in Nat, NEW q \in 1..n,
           NEW R \in [Nat -> Nat], NEW f, Sums(n, R, f), \A m \in Nat : R[m] <= R[m + 1],
           NEW T \in [Nat -> Nat], NEW g, Sums(n, T, g),
           \A m \in (q + 1)..n : R[m] <= T[m], R[q] + 1 <= T[q]
    PROVE  f[n] + 1 <= g[n]
<1>1. q \in Nat \ {0} /\ q \in 0..n /\ q - 1 \in 0..n /\ R[q] \in Nat /\ T[q] \in Nat
      /\ R[q] + 1 \in Nat
  OBVIOUS
<1>2. f[q] < Ways(R[q], q)
  BY <1>1, SumsAreBelow
<1>3. Ways(R[q], q) \in Nat /\ Ways(R[q], q) = Weight(R[q] + 1, q)
  BY <1>1, WaysFacts, WeightFacts
<1>4. Weight(R[q] + 1, q) <= Weight(T[q], q) /\ Weight(T[q], q) \in Nat
  BY <1>1, WeightFacts
<1>5. g[q] = g[q - 1] + Weight(T[q], q) /\ g[q - 1] \in Nat /\ f[q] \in Nat /\ g[q] \in Nat
  BY <1>1 DEF Sums
<1>6. f[q] + 1 <= g[q]
  BY <1>2, <1>3, <1>4, <1>5
<1> QED
  BY <1>1, <1>6, SumsStayAhead

-----------------------------------------------------------------------------
(* The attempts a wrong password recorded now would be counted after: what *)
(* the call has read, unless the row holds less by now.  Each call is a    *)
(* climber at that height; one that has not read yet stands where the row  *)
(* is.                                                                     *)
Value == [c \in Calls |-> IF call[c].at = "record" /\ call[c].seen < user.attempts
                          THEN call[c].seen ELSE user.attempts]

Recording == {c \in Calls : call[c].at = "record"}

(* Row m of a profile is the number of climbers m or less below the top.   *)
Reaching(V, v) == {c \in Calls : V[c] >= v}
Heights(V) == [m \in Nat |-> Cardinality(Reaching(V, MaxFailedAttempts - m))]

(* No more wrong passwords are recorded than there are profiles below that *)
(* of the moment; once locked, each call that has read may still write.    *)
Below(V, g) ==
    \E f : Sums(MaxFailedAttempts - 1, Heights(V), f) /\ g <= f[MaxFailedAttempts - 1]

Top == Ways(Cardinality(Calls), MaxFailedAttempts - 1)

Climbing ==
    IF IsLocked THEN guesses + Cardinality(Recording) <= Top + Cardinality(Calls) - 1
    ELSE Below(Value, guesses)

LEMMA CallsCounted ==
    /\ Cardinality(Calls) \in Nat /\ Top \in Nat
    /\ MaxFailedAttempts \in Nat \ {0} /\ MaxFailedAttempts - 1 \in Nat
    /\ \A S \in SUBSET Calls : /\ IsFiniteSet(S) /\ Cardinality(S) \in Nat
                               /\ Cardinality(S) <= Cardinality(Calls)
<1>1. IsFiniteSet(Calls) /\ MaxFailedAttempts \in Nat \ {0}
  BY AccountsAssumption
<1>2. Cardinality(Calls) \in Nat
  BY <1>1, FS_CardinalityType
<1>3. MaxFailedAttempts - 1 \in Nat
  BY <1>1
<1>4. Top \in Nat
  BY <1>2, <1>3, WaysFacts DEF Top
<1>5. ASSUME NEW S \in SUBSET Calls
      PROVE  IsFiniteSet(S) /\ Cardinality(S) \in Nat /\ Cardinality(S) <= Cardinality(Calls)
  <2>1. IsFiniteSet(S) /\ Cardinality(S) <= Cardinality(Calls)
    BY <1>1, FS_Subset
  <2> QED
    BY <2>1, FS_CardinalityType
<1> QED
  BY <1>1, <1>2, <1>3, <1>4, <1>5

(* A set of calls counts no more than one that holds it.                   *)
LEMMA CountsGrow ==
    ASSUME NEW S \in SUBSET Calls, NEW T \in SUBSET Calls, S \subseteq T
    PROVE  /\ Cardinality(S) <= Cardinality(T)
           /\ \A c \in T \ S : Cardinality(S) + 1 <= Cardinality(T)
<1>1. IsFiniteSet(T) /\ IsFiniteSet(S)
  BY CallsCounted
<1>2. Cardinality(S) <= Cardinality(T)
  BY <1>1, FS_Subset
<1>3. ASSUME NEW c \in T \ S PROVE Cardinality(S) + 1 <= Cardinality(T)
  <2>1. Cardinality(S \union {c}) = Cardinality(S) + 1
    BY <1>1, <1>3, FS_AddElement
  <2>2. S \union {c} \subseteq T
    BY <1>3
  <2>3. Cardinality(S \union {c}) <= Cardinality(T)
    BY <1>1, <2>2, FS_Subset
  <2> QED
    BY <2>1, <2>3
<1> QED
  BY <1>2, <1>3

LEMMA HeightsFacts ==
    ASSUME NEW V \in [Calls -> Nat]
    PROVE  /\ Heights(V) \in [Nat -> Nat]
           /\ \A m \in Nat : /\ Heights(V)[m] <= Cardinality(Calls)
                             /\ Heights(V)[m] <= Heights(V)[m + 1]
<1>1. \A v : Reaching(V, v) \in SUBSET Calls
  BY DEF Reaching
<1>2. Heights(V) \in [Nat -> Nat] /\ \A m \in Nat : Heights(V)[m] <= Cardinality(Calls)
  BY <1>1, CallsCounted DEF Heights
<1>3. ASSUME NEW m \in Nat PROVE Heights(V)[m] <= Heights(V)[m + 1]
  <2>1. Reaching(V, MaxFailedAttempts - m) \subseteq Reaching(V, MaxFailedAttempts - (m + 1))
    <3> SUFFICES ASSUME NEW c \in Calls, V[c] >= MaxFailedAttempts - m
                 PROVE  V[c] >= MaxFailedAttempts - (m + 1)
      BY DEF Reaching
    <3>1. V[c] \in Nat /\ MaxFailedAttempts \in Nat
      BY CallsCounted
    <3> QED
      BY <3>1
  <2>2. Cardinality(Reaching(V, MaxFailedAttempts - m))
          <= Cardinality(Reaching(V, MaxFailedAttempts - (m + 1)))
    BY <1>1, <2>1, CountsGrow
  <2> QED
    BY <2>2 DEF Heights
<1> QED
  BY <1>2, <1>3

(* A profile's rows are no more than those of one whose climbers have all  *)
(* gone as high.                                                           *)
LEMMA HeightsRise ==
    ASSUME NEW V \in [Calls -> Nat], NEW W \in [Calls -> Nat], NEW m \in Nat,
           \A d \in Calls : V[d] >= MaxFailedAttempts - m => W[d] >= MaxFailedAttempts - m
    PROVE  /\ Heights(V)[m] <= Heights(W)[m]
           /\ \A c \in Calls : W[c] >= MaxFailedAttempts - m /\ ~(V[c] >= MaxFailedAttempts - m)
                 => Heights(V)[m] + 1 <= Heights(W)[m]
<1> DEFINE v == MaxFailedAttempts - m
<1>1. /\ Reaching(V, v) \in SUBSET Calls /\ Reaching(W, v) \in SUBSET Calls
      /\ Reaching(V, v) \subseteq Reaching(W, v)
      /\ \A c \in Calls : W[c] >= v /\ ~(V[c] >= v) => c \in Reaching(W, v) \ Reaching(V, v)
  BY DEF Reaching
<1>2. /\ Heights(V)[m] = Cardinality(Reaching(V, v))
      /\ Heights(W)[m] = Cardinality(Reaching(W, v))
  BY DEF Heights
<1> HIDE DEF v
<1>3. /\ Cardinality(Reaching(V, v)) <= Cardinality(Reaching(W, v))
      /\ \A c \in Reaching(W, v) \ Reaching(V, v) :
            Cardinality(Reaching(V, v)) + 1 <= Cardinality(Reaching(W, v))
  BY <1>1, CountsGrow
<1> QED
  BY <1>1, <1>2, <1>3 DEF v

(* The profiles below one are fewer than all.                              *)
LEMMA BelowTop ==
    ASSUME NEW V \in [Calls -> Nat], NEW g \in Nat, Below(V, g)
    PROVE  g + 1 <= Top
<1> DEFINE n == MaxFailedAttempts - 1
           R == Heights(V)
<1>1. n \in Nat /\ R \in [Nat -> Nat] /\ R[n] <= Cardinality(Calls)
      /\ \A m \in Nat : R[m] <= R[m + 1]
  BY CallsCounted, HeightsFacts
<1>2. PICK f : Sums(n, R, f) /\ g <= f[n]
  BY DEF Below
<1>3. Top = Ways(Cardinality(Calls), n)
  BY DEF Top
<1> HIDE DEF n, R
<1>4. n \in 0..n /\ f[n] \in Nat /\ R[n] \in Nat
  <2>1. n \in 0..n /\ R[n] \in Nat
    BY <1>1
  <2> QED
    BY <1>2, <2>1 DEF Sums
<1>5. f[n] < Ways(R[n], n)
  BY <1>1, <1>2, <1>4, SumsAreBelow
<1>6. Ways(R[n], n) <= Ways(Cardinality(Calls), n)
  BY <1>1, <1>4, CallsCounted, WaysGrow
<1>7. Ways(R[n], n) \in Nat
  BY <1>1, <1>4, WaysFacts
<1> QED
  BY <1>2, <1>3, <1>4, <1>5, <1>6, <1>7, CallsCounted

(* Below the lowest profile there is at least none.                        *)
LEMMA NoneIsBelow ==
    ASSUME NEW V \in [Calls -> Nat]
    PROVE  Below(V, 0)
<1>1. Heights(V) \in [Nat -> Nat] /\ MaxFailedAttempts - 1 \in Nat
  BY HeightsFacts, CallsCounted
<1>2. PICK f : Sums(MaxFailedAttempts - 1, Heights(V), f)
  BY <1>1, SumsExist
<1>3. f[MaxFailedAttempts - 1] \in Nat
  BY <1>1, <1>2 DEF Sums
<1> QED
  BY <1>2, <1>3 DEF Below

(* As many profiles are below when no climber goes down.                   *)
LEMMA BelowStays ==
    ASSUME NEW V \in [Calls -> Nat], NEW W \in [Calls -> Nat], NEW g \in Nat, Below(V, g),
           \A d \in Calls : V[d] <= W[d]
    PROVE  Below(W, g)
<1> DEFINE n == MaxFailedAttempts - 1
<1>1. n \in Nat /\ MaxFailedAttempts \in Nat
      /\ Heights(V) \in [Nat -> Nat] /\ Heights(W) \in [Nat -> Nat]
  BY CallsCounted, HeightsFacts
<1>2. PICK f : Sums(n, Heights(V), f) /\ g <= f[n]
  BY DEF Below
<1>3. PICK h : Sums(n, Heights(W), h)
  <2> HIDE DEF n
  <2> QED
    BY <1>1, SumsExist
<1>4. ASSUME NEW m \in Nat PROVE Heights(V)[m] <= Heights(W)[m]
  <2>1. ASSUME NEW d \in Calls, V[d] >= MaxFailedAttempts - m
        PROVE  W[d] >= MaxFailedAttempts - m
    <3>1. V[d] \in Nat /\ W[d] \in Nat /\ V[d] <= W[d]
      OBVIOUS
    <3> QED
      BY <1>1, <2>1, <3>1
  <2> QED
    BY <2>1, HeightsRise
<1> HIDE DEF n
<1>5. f[n] \in Nat /\ h[n] \in Nat /\ f[0] = 0 /\ h[0] = 0
  BY <1>1, <1>2, <1>3 DEF Sums
<1>6. f[n] + 0 <= h[n]
  <2>1. 0 \in 0..n /\ 0 \in Nat /\ f[0] + 0 <= h[0]
    BY <1>1, <1>5
  <2>2. \A m \in (0 + 1)..n : Heights(V)[m] <= Heights(W)[m]
    BY <1>1, <1>4
  <2> QED
    BY <1>1, <1>2, <1>3, <2>1, <2>2, SumsStayAhead
<1>7. g <= h[n]
  BY <1>2, <1>5, <1>6
<1> QED
  BY <1>3, <1>7 DEF Below, n

(* One more is below when a climber reaches p from under it, and whoever   *)
(* falls does not fall under p.                                            *)
LEMMA BelowGrows ==
    ASSUME NEW V \in [Calls -> Nat], NEW W \in [Calls -> Nat], NEW g \in Nat, Below(V, g),
           NEW p \in 1..(MaxFailedAttempts - 1),
           \A v \in 1..p : \A d \in Calls : V[d] >= v => W[d] >= v,
           NEW c \in Calls, V[c] < p, W[c] >= p
    PROVE  Below(W, g + 1)
<1> DEFINE n == MaxFailedAttempts - 1
           q == MaxFailedAttempts - p
<1>1. n \in Nat /\ MaxFailedAttempts \in Nat \ {0} /\ p \in Nat
      /\ Heights(V) \in [Nat -> Nat] /\ Heights(W) \in [Nat -> Nat]
      /\ \A m \in Nat : Heights(V)[m] <= Heights(V)[m + 1]
  BY CallsCounted, HeightsFacts
<1>2. PICK f : Sums(n, Heights(V), f) /\ g <= f[n]
  BY DEF Below
<1>3. PICK h : Sums(n, Heights(W), h)
  <2> HIDE DEF n
  <2> QED
    BY <1>1, SumsExist
<1>4. q \in 1..n /\ q \in Nat /\ MaxFailedAttempts - q = p
      /\ \A m \in (q + 1)..n : m \in Nat /\ MaxFailedAttempts - m \in 1..p
  BY <1>1
<1>5. \A m \in (q + 1)..n : Heights(V)[m] <= Heights(W)[m]
  BY <1>4, HeightsRise
<1>6. Heights(V)[q] + 1 <= Heights(W)[q]
  <2>1. p \in 1..p /\ V[c] \in Nat /\ ~(V[c] >= p)
    BY <1>1
  <2>2. \A d \in Calls : V[d] >= p => W[d] >= p
    BY <2>1
  <2> HIDE DEF q
  <2> QED
    BY <1>4, <2>1, <2>2, HeightsRise
<1> HIDE DEF n, q
<1>7. f[n] + 1 <= h[n]
  BY <1>1, <1>2, <1>3, <1>4, <1>5, <1>6, SumsGoUp
<1>8. f[n] \in Nat /\ h[n] \in Nat
  BY <1>1, <1>2, <1>3 DEF Sums
<1>9. g + 1 <= h[n]
  BY <1>2, <1>7, <1>8
<1> QED
  BY <1>3, <1>9 DEF Below, n

-----------------------------------------------------------------------------
LEMMA ValueFacts ==
    ASSUME Typed
    PROVE  /\ Value \in [Calls -> Nat] /\ user.attempts \in Nat
           /\ user.lockedUntil \in Nat /\ guesses \in Nat /\ now \in Nat
           /\ \A c \in Calls : call[c].seen \in Nat
<1>1. user.attempts \in Nat /\ user.lockedUntil \in Nat
  BY UserFacts, IssuedFacts DEF Typed
<1>2. \A c \in Calls : call[c].seen \in Nat
  BY CallFacts DEF Typed
<1>3. guesses \in Nat /\ now \in Nat
  BY DEF Typed
<1> QED
  BY <1>1, <1>2, <1>3 DEF Value

LEMMA ValueTyped == Typed' => Value' \in [Calls -> Nat]
<1> SUFFICES ASSUME Typed' PROVE Value' \in [Calls -> Nat]
  OBVIOUS
<1>1. Len(issued') \in Nat /\ user' \in UserType(Len(issued'))
  BY IssuedFacts DEF Typed
<1>2. user'.attempts \in Nat
  BY <1>1, UserFacts
<1>3. \A c \in Calls : call'[c].seen \in Nat
  BY CallFacts DEF Typed
<1> QED
  BY <1>2, <1>3 DEF Value

(* Nobody goes down before the lock, and nobody reads behind it.           *)
LEMMA QuietKeeps ==
    ASSUME Climbing, Typed, Value' \in [Calls -> Nat], guesses' = guesses,
           IsLocked' <=> IsLocked,
           IsLocked => Recording' \subseteq Recording,
           ~IsLocked => \A c \in Calls : Value[c] <= Value'[c]
    PROVE  Climbing'
<1>0. Value \in [Calls -> Nat] /\ guesses \in Nat
  BY ValueFacts
<1>1. CASE IsLocked
  <2>1. Recording \in SUBSET Calls /\ Recording' \in SUBSET Calls
    BY DEF Recording
  <2>2. /\ Cardinality(Recording') <= Cardinality(Recording)
        /\ Cardinality(Recording') \in Nat /\ Cardinality(Recording) \in Nat
    BY <1>1, <2>1, CountsGrow, CallsCounted
  <2>3. guesses + Cardinality(Recording) <= Top + Cardinality(Calls) - 1
    BY <1>1 DEF Climbing
  <2>4. guesses' + Cardinality(Recording') <= Top + Cardinality(Calls) - 1
    BY <1>0, <2>2, <2>3, CallsCounted
  <2> QED
    BY <1>1, <2>4 DEF Climbing, Top
<1>2. CASE ~IsLocked
  <2>1. Below(Value, guesses)
    BY <1>2 DEF Climbing
  <2>2. Below(Value', guesses)
    BY <1>0, <1>2, <2>1, BelowStays
  <2> QED
    BY <1>2, <2>2 DEF Climbing, Below, Heights, Reaching
<1> QED
  BY <1>1, <1>2

(* A lock that is lifted, or runs out, starts the count again.             *)
LEMMA ResetKeeps ==
    ASSUME Value' \in [Calls -> Nat], guesses' = 0, ~IsLocked'
    PROVE  Climbing'
<1>1. Below(Value', 0)
  BY NoneIsBelow
<1> QED
  BY <1>1 DEF Climbing, Below, Heights, Reaching

(* A call that moves, and leaves the counter and the lock alone.           *)
LEMMA CallMoves ==
    ASSUME Climbing, Typed, Typed', NEW c \in Calls, NEW x, call' = [call EXCEPT ![c] = x],
           user'.attempts = user.attempts, user'.lockedUntil = user.lockedUntil,
           UNCHANGED <<now, guesses>>,
           x.at = "record" => ~IsLocked /\ x.seen = user.attempts
    PROVE  Climbing'
<1>1. call'[c] = x /\ \A d \in Calls : d # c => call'[d] = call[d]
  BY DEF Typed
<1>2. Value' \in [Calls -> Nat] /\ Value \in [Calls -> Nat] /\ user.attempts \in Nat
      /\ \A d \in Calls : call[d].seen \in Nat
  <2>1. Value' \in [Calls -> Nat]
    BY ValueTyped
  <2> QED
    BY <2>1, ValueFacts
<1>3. IsLocked' <=> IsLocked
  BY DEF IsLocked
<1>4. IsLocked => Recording' \subseteq Recording
  BY <1>1 DEF Recording
<1>5. ASSUME NEW d \in Calls PROVE Value[d] <= Value'[d]
  <2>1. CASE d = c
    <3>1. Value'[c] = user.attempts
      BY <1>1 DEF Value
    <3>2. Value[c] <= user.attempts
      BY <1>2 DEF Value
    <3> QED
      BY <2>1, <3>1, <3>2
  <2>2. CASE d # c
    <3>1. Value'[d] = Value[d]
      BY <1>1, <2>2 DEF Value
    <3> QED
      BY <1>2, <3>1
  <2> QED
    BY <2>1, <2>2
<1> QED
  BY <1>2, <1>3, <1>4, <1>5, QuietKeeps

LEMMA RecordClimbs ==
    ASSUME Climbing, Typed, Typed', NEW c \in Calls, RecordFailedAttempt(c)
    PROVE  Climbing'
<1> DEFINE h == call[c].seen
           a == user.attempts
           n == MaxFailedAttempts
           k == Cardinality(Calls)
<1>1. /\ call[c].at = "record" /\ now' = now /\ guesses' = guesses + 1
      /\ call' = [call EXCEPT ![c] = Idle]
      /\ user'.attempts = h + 1
      /\ user'.lockedUntil = IF h + 1 >= n THEN now + LockDuration ELSE user.lockedUntil
  <2>1. /\ call[c].at = "record" /\ UNCHANGED now /\ guesses' = guesses + 1 /\ Ends(c)
        /\ user' = [user EXCEPT !.attempts = h + 1,
                                !.lockedUntil = IF h + 1 >= n THEN now + LockDuration ELSE @]
    BY DEF RecordFailedAttempt, At
  <2>2. user \in UserType(Len(issued))
    BY DEF Typed
  <2> HIDE DEF h, n
  <2>3. user'.attempts = h + 1
        /\ user'.lockedUntil = IF h + 1 >= n THEN now + LockDuration ELSE user.lockedUntil
    BY <2>1, <2>2 DEF UserType
  <2> QED
    BY <2>1, <2>3 DEF Ends
<1>2. call'[c] = Idle /\ \A d \in Calls : d # c => call'[d] = call[d]
  BY <1>1 DEF Typed
<1>3. /\ Value \in [Calls -> Nat] /\ Value' \in [Calls -> Nat]
      /\ a \in Nat /\ h \in Nat /\ guesses \in Nat /\ now \in Nat
      /\ \A d \in Calls : call[d].seen \in Nat
  BY ValueFacts, ValueTyped
<1>4. /\ n \in Nat \ {0} /\ k \in Nat /\ Top \in Nat /\ LockDuration \in Nat \ {0}
  BY CallsCounted, AccountsAssumption
<1>5. /\ Cardinality(Recording') + 1 <= Cardinality(Recording)
      /\ Cardinality(Recording) <= k
      /\ Cardinality(Recording) \in Nat /\ Cardinality(Recording') \in Nat
  <2>1. Recording \in SUBSET Calls /\ Recording' \in SUBSET Calls
        /\ Recording' \subseteq Recording /\ c \in Recording \ Recording'
    BY <1>1, <1>2, CallFacts DEF Recording
  <2> QED
    BY <2>1, CountsGrow, CallsCounted
<1>6. CASE IsLocked
  <2>1. IsLocked'
    BY <1>1, <1>3, <1>4, <1>6 DEF IsLocked
  <2>2. guesses + Cardinality(Recording) <= Top + k - 1
    BY <1>6 DEF Climbing
  <2> HIDE DEF h, a, n, k
  <2>3. guesses' + Cardinality(Recording') <= Top + k - 1
    BY <1>1, <1>3, <1>4, <1>5, <2>2
  <2> QED
    BY <2>1, <2>3 DEF Climbing, Top, k
<1>7. CASE ~IsLocked /\ h + 1 >= n
  <2>1. IsLocked'
    BY <1>1, <1>3, <1>4, <1>7 DEF IsLocked
  <2>2. guesses + 1 <= Top
    BY <1>3, <1>7, BelowTop DEF Climbing
  <2> HIDE DEF h, a, n, k
  <2>3. guesses' + Cardinality(Recording') <= Top + k - 1
    BY <1>1, <1>3, <1>4, <1>5, <2>2
  <2> QED
    BY <2>1, <2>3 DEF Climbing, Top, k
<1>8. CASE ~IsLocked /\ ~(h + 1 >= n)
  <2> DEFINE p == IF h < a THEN h + 1 ELSE a + 1
  <2>1. ~IsLocked'
    BY <1>1, <1>8 DEF IsLocked
  <2>2. p \in 1..(n - 1) /\ p <= h + 1
    BY <1>3, <1>4, <1>8
  <2>3. Value[c] < p
    BY <1>1, <1>3 DEF Value
  <2>4. Value'[c] >= p
    <3>1. Value'[c] = h + 1
      BY <1>1, <1>2, CallFacts DEF Value
    <3> QED
      BY <1>3, <2>2, <3>1
  <2>5. ASSUME NEW v \in 1..p, NEW d \in Calls, Value[d] >= v
        PROVE  Value'[d] >= v
    <3>1. v <= h + 1 /\ v \in Nat
      BY <1>3, <1>4, <2>2
    <3>2. Value[d] = IF call[d].at = "record" /\ call[d].seen < a THEN call[d].seen ELSE a
      BY DEF Value
    <3>3. Value'[d] = IF call'[d].at = "record" /\ call'[d].seen < h + 1
                      THEN call'[d].seen ELSE h + 1
      BY <1>1 DEF Value
    <3>4. CASE d = c
      BY <1>2, <1>3, <3>1, <3>3, <3>4, CallFacts
    <3>5. CASE d # c
      <4>1. call'[d] = call[d]
        BY <1>2, <3>5
      <4> HIDE DEF h, a, p
      <4> QED
        BY <1>3, <2>5, <3>1, <3>2, <3>3, <4>1
    <3> QED
      BY <3>4, <3>5
  <2>6. Below(Value, guesses)
    BY <1>8 DEF Climbing
  <2> HIDE DEF h, a, k, p
  <2>7. Below(Value', guesses + 1)
    BY <1>3, <2>2, <2>3, <2>4, <2>5, <2>6, BelowGrows
  <2> QED
    BY <1>1, <2>1, <2>7 DEF Climbing, Below, Heights, Reaching
<1> QED
  BY <1>6, <1>7, <1>8

LEMMA MovesElsewhere ==
    ASSUME NEW c \in Calls
    PROVE  /\ Ends(c) => \E x : call' = [call EXCEPT ![c] = x] /\ x.at # "record"
           /\ \A place, n : place # "record" /\ Goes(c, place, n)
                 => \E x : call' = [call EXCEPT ![c] = x] /\ x.at # "record"
<1>1. Idle.at # "record"
  BY CallFacts
<1>2. ASSUME NEW place, NEW n, place # "record", Goes(c, place, n)
      PROVE  \E x : call' = [call EXCEPT ![c] = x] /\ x.at # "record"
  <2> DEFINE x == [at |-> place, seen |-> n, then |-> "idle"]
  <2>1. call' = [call EXCEPT ![c] = x] /\ x.at # "record"
    BY <1>2 DEF Goes
  <2> HIDE DEF x
  <2> QED
    BY <2>1
<1> QED
  BY <1>1, <1>2 DEF Ends

LEMMA CallClimbs ==
    ASSUME Climbing, Typed, Typed', RowKnown, NEW c \in Calls, CallStep(c)
    PROVE  Climbing'
<1>0. user \in UserType(Len(issued)) /\ Typed
  BY DEF Typed
<1>1. CASE RecordFailedAttempt(c)
  BY <1>1, RecordClimbs
<1>2. CASE ClearFailedAttempts(c)
  <2>1. guesses' = 0 /\ user' = [user EXCEPT !.attempts = 0, !.lockedUntil = 0] /\ now' = now
    BY <1>2 DEF ClearFailedAttempts
  <2>2. user'.lockedUntil = 0 /\ now \in Nat
    BY <1>0, <2>1, ValueFacts DEF UserType
  <2>3. ~IsLocked'
    BY <2>1, <2>2 DEF IsLocked
  <2> QED
    BY <2>1, <2>3, ValueTyped, ResetKeeps
<1>3. CASE LoginWrong(c)
  <2> DEFINE x == [at |-> "record", seen |-> user.attempts, then |-> "idle"]
  <2>1. /\ call' = [call EXCEPT ![c] = x] /\ UNCHANGED <<user, now, guesses>> /\ ~IsLocked
    BY <1>3 DEF LoginWrong, Goes
  <2>2. x.at = "record" /\ x.seen = user.attempts
    OBVIOUS
  <2> HIDE DEF x
  <2> QED
    BY <2>1, <2>2, CallMoves
<1>4. CASE /\ \E x : call' = [call EXCEPT ![c] = x] /\ x.at # "record"
           /\ user'.attempts = user.attempts /\ user'.lockedUntil = user.lockedUntil
           /\ UNCHANGED <<now, guesses>>
  BY <1>4, CallMoves
<1>5. CASE FindEmail(c) \/ FindWallet(c) \/ InsertWallet(c) \/ Dies(c)
           \/ Guard(c, "logout") \/ Guard(c, "find wallet")
  <2>1. UNCHANGED <<user, now, guesses>>
    BY <1>5 DEF FindEmail, FindWallet, InsertWallet, Dies, Guard
  <2>2. \E x : call' = [call EXCEPT ![c] = x] /\ x.at # "record"
    <3>1. \/ Ends(c)
          \/ \E place \in {"insert user", "logout", "find wallet", "insert wallet"} : Goes(c, place, 0)
      BY <1>5 DEF FindEmail, FindWallet, InsertWallet, Dies, Guard
    <3> QED
      BY <3>1, MovesElsewhere
  <2> QED
    BY <1>4, <2>1, <2>2
<1>6. CASE LoginRight(c)
  <2>1. UNCHANGED <<user, now, guesses>>
    BY <1>6 DEF LoginRight
  <2> DEFINE then == IF user.status = "suspended" THEN "idle" ELSE "sign"
             x == IF user.attempts > 0
                  THEN [at |-> "clear", seen |-> 0, then |-> then]
                  ELSE [at |-> then, seen |-> 0, then |-> "idle"]
  <2>2. call' = [call EXCEPT ![c] = x] /\ x.at # "record"
    BY <1>6 DEF LoginRight
  <2> HIDE DEF then, x
  <2> QED
    BY <1>4, <2>1, <2>2
<1>7. CASE \E token \in DOMAIN issued : Refresh(c, token)
  <2>1. UNCHANGED <<user, now, guesses>>
    BY <1>7 DEF Refresh
  <2>2. \E x : call' = [call EXCEPT ![c] = x] /\ x.at # "record"
    <3>1. \E place \in {"sign", "reuse"}, token \in DOMAIN issued : Goes(c, place, token)
      BY <1>7 DEF Refresh
    <3> QED
      BY <3>1, MovesElsewhere
  <2> QED
    BY <1>4, <2>1, <2>2
<1>8. CASE Sign(c) \/ ForgetHash(c)
  <2>1. UNCHANGED <<now, guesses>> /\ Ends(c)
        /\ \E t : user' = [user EXCEPT !.hash = t]
    BY <1>8 DEF Sign, ForgetHash
  <2>2. user'.attempts = user.attempts /\ user'.lockedUntil = user.lockedUntil
    BY <1>0, <2>1 DEF UserType
  <2>3. \E x : call' = [call EXCEPT ![c] = x] /\ x.at # "record"
    BY <2>1, MovesElsewhere
  <2> QED
    BY <1>4, <2>1, <2>2, <2>3
<1>9. CASE InsertUser(c)
  <2>1. UNCHANGED <<now, guesses>>
    BY <1>9 DEF InsertUser
  <2>2. user'.attempts = user.attempts /\ user'.lockedUntil = user.lockedUntil
    <3>1. CASE user = NoUser
      <4>1. user' = [NoUser EXCEPT !.status = "active"]
        BY <1>9, <3>1 DEF InsertUser
      <4> QED
        BY <3>1, <4>1 DEF NoUser
    <3>2. CASE user # NoUser
      BY <1>9, <3>2 DEF InsertUser
    <3> QED
      BY <3>1, <3>2
  <2>3. \E x : call' = [call EXCEPT ![c] = x] /\ x.at # "record"
    <3>1. Ends(c) \/ Goes(c, "sign", 0)
      BY <1>9 DEF InsertUser
    <3> QED
      BY <3>1, MovesElsewhere
  <2> QED
    BY <1>4, <2>1, <2>2, <2>3
<1> QED
  BY <1>1, <1>2, <1>3, <1>5, <1>6, <1>7, <1>8, <1>9 DEF CallStep

LEMMA OthersClimb ==
    ASSUME Climbing, Typed, Typed', SuspendUser \/ ActivateUser \/ Tick
    PROVE  Climbing'
<1>0. user \in UserType(Len(issued)) /\ Value \in [Calls -> Nat] /\ Value' \in [Calls -> Nat]
      /\ now \in Nat /\ user.lockedUntil \in Nat
  BY ValueFacts, ValueTyped DEF Typed
<1>1. CASE ActivateUser
  <2>1. guesses' = 0 /\ user'.lockedUntil = 0 /\ now' = now
    BY <1>0, <1>1 DEF ActivateUser, UserType
  <2> QED
    BY <1>0, <2>1, ResetKeeps DEF IsLocked
<1>2. CASE SuspendUser
  <2>1. UNCHANGED <<call, now, guesses>> /\ user'.attempts = user.attempts
        /\ user'.lockedUntil = user.lockedUntil
    BY <1>0, <1>2 DEF SuspendUser, UserType
  <2>2. Value' = Value /\ Recording' = Recording /\ (IsLocked' <=> IsLocked)
    BY <2>1 DEF Value, Recording, IsLocked
  <2> QED
    BY <1>0, <2>1, <2>2, QuietKeeps
<1>3. CASE Tick /\ user.lockedUntil = now + 1
  <2>1. guesses' = 0 /\ now' = now + 1 /\ user' = user
    BY <1>3 DEF Tick
  <2>2. ~IsLocked'
    BY <1>0, <1>3, <2>1 DEF IsLocked
  <2> QED
    BY <1>0, <2>1, <2>2, ResetKeeps
<1>4. CASE Tick /\ user.lockedUntil # now + 1
  <2>1. guesses' = guesses /\ now' = now + 1 /\ user' = user /\ call' = call
    BY <1>4 DEF Tick
  <2>2. Value' = Value /\ Recording' = Recording
    BY <2>1 DEF Value, Recording
  <2>3. IsLocked' <=> IsLocked
    BY <1>0, <1>4, <2>1 DEF IsLocked
  <2> QED
    BY <1>0, <2>1, <2>2, <2>3, QuietKeeps
<1> QED
  BY <1>1, <1>2, <1>3, <1>4

LEMMA InitClimbing == Init => Climbing
<1> SUFFICES ASSUME Init PROVE Climbing
  OBVIOUS
<1>1. Value \in [Calls -> Nat] /\ guesses = 0
  <2>1. Typed
    BY InitAInv DEF AInv
  <2> QED
    BY <2>1, ValueFacts DEF Init
<1>2. ~IsLocked
  BY DEF Init, IsLocked, NoUser
<1> QED
  BY <1>1, <1>2, NoneIsBelow DEF Climbing

LEMMA NextClimbing == AInv /\ Climbing /\ [Next]_vars => Climbing'
<1> SUFFICES ASSUME AInv, Climbing, [Next]_vars PROVE Climbing'
  OBVIOUS
<1>1. Typed /\ RowKnown /\ Typed'
  BY NextAInv DEF AInv
<1>2. CASE UNCHANGED vars
  <2>1. /\ Value' = Value /\ Recording' = Recording /\ (IsLocked' <=> IsLocked)
        /\ guesses' = guesses
    BY <1>2 DEF vars, Value, Recording, IsLocked
  <2> QED
    BY <1>1, <2>1, ValueFacts, QuietKeeps
<1>3. CASE \E c \in Calls : CallStep(c)
  BY <1>1, <1>3, CallClimbs
<1>4. CASE SuspendUser \/ ActivateUser \/ Tick
  BY <1>1, <1>4, OthersClimb
<1> QED
  BY <1>2, <1>3, <1>4 DEF Next

(* choose counts a choice and what it leaves out alike.                    *)
LEMMA WaysMirrored ==
    ASSUME NEW r \in Nat, NEW m \in Nat
    PROVE  Ways(r, m) = choose(m + r, r)
<1> DEFINE w == Ways(r, m)
           x == factorial[r]
           y == factorial[m]
<1>1. w \in Nat \ {0} /\ factorial[r + m] = w * (y * x)
  BY AllWhole DEF Whole
<1>2. x \in Nat /\ y \in Nat
  BY FactorialFacts
<1> HIDE DEF w
<1>3. factorial[m + r] = w * (x * y)
  <2>1. m + r = r + m /\ x * y = y * x
    <3> HIDE DEF x, y
    <3> QED
      BY <1>2
  <2> QED
    BY <1>1, <2>1
<1>4. Ways(m, r) = w
  BY <1>1, <1>3, WaysIsQuotient
<1> QED
  BY <1>4 DEF Ways, w

(* However many calls are served at once and however they interleave, no   *)
(* more wrong passwords are recorded between two locks than the number of  *)
(* ways up says: the lockout of RecordFailedAttempt is worth that much     *)
(* although the counter is read by one statement and written by another.   *)
THEOREM LockoutIsWorthThat == Spec => []GuessesBounded
<1>1. ASSUME AInv, Climbing PROVE GuessesBounded
  <2> DEFINE k == Cardinality(Calls)
             n == MaxFailedAttempts
  <2>1. k \in Nat /\ n \in Nat \ {0} /\ n - 1 \in Nat /\ Top \in Nat
    BY CallsCounted
  <2>2. Top = choose(n + k - 1, k)
    <3>1. Ways(k, n - 1) = choose((n - 1) + k, k) /\ (n - 1) + k = n + k - 1
      BY <2>1, WaysMirrored
    <3> QED
      BY <3>1 DEF Top
  <2>3. guesses \in Nat /\ Value \in [Calls -> Nat]
    BY <1>1, ValueFacts DEF AInv
  <2>4. guesses <= (k - 1) + Top
    <3>1. CASE IsLocked
      <4>1. guesses + Cardinality(Recording) <= Top + k - 1
        BY <1>1, <3>1 DEF Climbing
      <4>2. Cardinality(Recording) \in Nat
        BY CallsCounted DEF Recording
      <4> HIDE DEF k
      <4> QED
        BY <2>1, <2>3, <4>1, <4>2
    <3>2. CASE ~IsLocked
      <4>1. guesses + 1 <= Top
        BY <1>1, <2>3, <3>2, BelowTop DEF Climbing
      <4> HIDE DEF k
      <4> QED
        BY <2>1, <2>3, <4>1
    <3> QED
      BY <3>1, <3>2
  <2> QED
    BY <2>2, <2>4 DEF GuessesBounded
<1>2. Init => AInv /\ Climbing
  BY InitAInv, InitClimbing
<1>3. (AInv /\ Climbing) /\ [Next]_vars => (AInv /\ Climbing)'
  BY NextAInv, NextClimbing
<1>4. AInv /\ Climbing => GuessesBounded
  BY <1>1
<1> QED
  BY <1>2, <1>3, <1>4, PTL DEF Spec
=============================================================================
