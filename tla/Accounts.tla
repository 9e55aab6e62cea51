------------------------------ MODULE Accounts ------------------------------
(***************************************************************************)
(* AuthService on the row of one user: registration, login with its        *)
(* lockout, refresh, logout; the creation of a wallet, which like a        *)
(* registration looks first and inserts later; the guard in front of       *)
(* both; and the administrator who suspends and activates.  Every call is  *)
(* an HTTP request of its own: what it reads in one statement it writes    *)
(* back in another, and no statement locks the row for the next.           *)
(*                                                                         *)
(* A call that is refused without having written anything is no step.      *)
(***************************************************************************)
EXTENDS Naturals, Sequences, FiniteSets, Combinatorics

CONSTANTS
    Calls,               \* the requests that may be served at once
    MaxFailedAttempts,   \* MAX_FAILED_ATTEMPTS
    LockDuration,        \* LOCK_DURATION_MINUTES, in ticks of the clock
    AccessLife,          \* JWT_EXPIRES_IN
    RefreshLife,         \* JWT_REFRESH_EXPIRES_IN
    ComparedWhole,       \* FALSE: bcrypt reads 72 bytes, and a user's tokens agree on them
    MaxTokens,           \* bound: token pairs that are issued
    MaxNow               \* bound: ticks of the clock

ASSUME AccountsAssumption ==
    /\ IsFiniteSet(Calls)
    /\ MaxFailedAttempts \in Nat \ {0} /\ LockDuration \in Nat \ {0}
    /\ AccessLife \in Nat /\ RefreshLife \in Nat
    /\ ComparedWhole \in BOOLEAN
    /\ MaxTokens \in Nat /\ MaxNow \in Nat

VARIABLES
    user,      \* the row of users; a hash names the token it was made from, 0 is null
    wallet,    \* whether the user's wallet of one currency has a row
    issued,    \* issued[k]: when the k-th pair of tokens was signed
    call,      \* call[c]: the statement it is about to execute, and what it has read
    now,       \* the clock
    guesses,   \* history: wrong passwords recorded since the last reset or lock
    created,   \* history: rows inserted for the e-mail, and for the wallet
    ahead      \* history: the logins past the password when the lock in force was set

vars == <<user, wallet, issued, call, now, guesses, created, ahead>>

NoUser == [status |-> "none", attempts |-> 0, lockedUntil |-> 0, hash |-> 0]
Idle == [at |-> "idle", seen |-> 0, then |-> "idle"]

Init ==
    /\ user = NoUser
    /\ wallet = FALSE
    /\ issued = <<>>
    /\ call = [c \in Calls |-> Idle]
    /\ now = 0
    /\ guesses = 0
    /\ created = [email |-> 0, wallet |-> 0]
    /\ ahead = {}

At(c, place) == call[c].at = place
Goes(c, place, seen) ==
    call' = [call EXCEPT ![c] = [at |-> place, seen |-> seen, then |-> "idle"]]
Ends(c) == call' = [call EXCEPT ![c] = Idle]

(* Calls on their way to a pair of tokens.                                 *)
Signing == {c \in Calls : call[c].at \in {"insert user", "clear", "sign"}}
Room == Len(issued) + Cardinality(Signing) < MaxTokens

-----------------------------------------------------------------------------
FindEmail(c) ==
    /\ At(c, "idle") /\ Room
    /\ user = NoUser
    /\ Goes(c, "insert user", 0)
    /\ UNCHANGED <<user, wallet, issued, now, guesses, created, ahead>>

(* Fault: no unique index on users.email.                                  *)
InsertUserAnyway(c) ==
    /\ At(c, "insert user")
    /\ user' = [NoUser EXCEPT !.status = "active"]
    /\ created' = [created EXCEPT !.email = @ + 1]
    /\ Goes(c, "sign", 0)
    /\ UNCHANGED <<wallet, issued, now, guesses, ahead>>

(* The unique index refuses a second row.                                  *)
InsertUser(c) ==
    /\ At(c, "insert user")
    /\ IF user = NoUser
       THEN /\ user' = [NoUser EXCEPT !.status = "active"]
            /\ created' = [created EXCEPT !.email = @ + 1]
            /\ Goes(c, "sign", 0)
       ELSE /\ Ends(c)
            /\ UNCHANGED <<user, created>>
    /\ UNCHANGED <<wallet, issued, now, guesses, ahead>>

IsLocked == now < user.lockedUntil

(* Logins that have found the account open and the password right.         *)
Entering == {c \in Calls : At(c, "clear") \/ (At(c, "sign") /\ call[c].seen = 0)}

(* Fault: only a wrong password is told of the lock.                       *)
LoginThroughLock(c) ==
    LET then == IF user.status = "suspended" THEN "idle" ELSE "sign"
    IN  /\ At(c, "idle") /\ Room
        /\ user # NoUser
        /\ call' = [call EXCEPT ![c] =
                      IF user.attempts > 0
                      THEN [at |-> "clear", seen |-> 0, then |-> then]
                      ELSE [at |-> then, seen |-> 0, then |-> "idle"]]
        /\ UNCHANGED <<user, wallet, issued, now, guesses, created, ahead>>

(* login reads the row, then compares the password with the hash it read.  *)
(* A suspended account is told so only after its counter has been reset.   *)
LoginRight(c) ==
    LET then == IF user.status = "suspended" THEN "idle" ELSE "sign"
    IN  /\ At(c, "idle") /\ Room
        /\ user # NoUser /\ ~IsLocked
        /\ call' = [call EXCEPT ![c] =
                      IF user.attempts > 0
                      THEN [at |-> "clear", seen |-> 0, then |-> then]
                      ELSE [at |-> then, seen |-> 0, then |-> "idle"]]
        /\ UNCHANGED <<user, wallet, issued, now, guesses, created, ahead>>

LoginWrong(c) ==
    /\ At(c, "idle")
    /\ user # NoUser /\ ~IsLocked
    /\ Goes(c, "record", user.attempts)
    /\ UNCHANGED <<user, wallet, issued, now, guesses, created, ahead>>

(* Fault: the attempt after the last allowed one locks the account.        *)
RecordOneLate(c) ==
    LET attempts == call[c].seen + 1
    IN  /\ At(c, "record")
        /\ user' = [user EXCEPT !.attempts = attempts,
                                !.lockedUntil = IF attempts > MaxFailedAttempts
                                                THEN now + LockDuration ELSE @]
        /\ guesses' = guesses + 1
        /\ Ends(c)
        /\ UNCHANGED <<wallet, issued, now, created, ahead>>

(* The counter is computed from the row that login has read.               *)
RecordFailedAttempt(c) ==
    LET attempts == call[c].seen + 1
    IN  /\ At(c, "record")
        /\ user' = [user EXCEPT !.attempts = attempts,
                                !.lockedUntil = IF attempts >= MaxFailedAttempts
                                                THEN now + LockDuration ELSE @]
        /\ guesses' = guesses + 1
        /\ ahead' = IF attempts >= MaxFailedAttempts /\ ~IsLocked THEN Entering ELSE ahead
        /\ Ends(c)
        /\ UNCHANGED <<wallet, issued, now, created>>

(* It also lifts a lock that was set since login read the row.             *)
ClearFailedAttempts(c) ==
    /\ At(c, "clear")
    /\ user' = [user EXCEPT !.attempts = 0, !.lockedUntil = 0]
    /\ guesses' = 0 /\ ahead' = {}
    /\ Goes(c, call[c].then, 0)
    /\ UNCHANGED <<wallet, issued, now, created>>

(* Fault: the hash is kept although the token is never handed out.         *)
SignLosesToken(c) ==
    /\ At(c, "sign")
    /\ user' = [user EXCEPT !.hash = Len(issued) + 1]
    /\ Ends(c)
    /\ UNCHANGED <<wallet, issued, now, guesses, created, ahead>>

(* generateTokenResponse: the hash of the token signed last is kept,       *)
(* whatever the row holds by now.                                          *)
Sign(c) ==
    /\ At(c, "sign")
    /\ issued' = Append(issued, now)
    /\ user' = [user EXCEPT !.hash = Len(issued) + 1]
    /\ Ends(c)
    /\ UNCHANGED <<wallet, now, guesses, created, ahead>>

-----------------------------------------------------------------------------
(* External: bcrypt.compare.                                               *)
Matches(token, hash) == hash # 0 /\ (ComparedWhole => token = hash)

(* The strategy has found the token authentic and unexpired.  refreshTokens *)
(* reads the row and compares; it does not look at the status.             *)
Refresh(c, token) ==
    /\ At(c, "idle") /\ Room
    /\ now < issued[token] + RefreshLife
    /\ user.hash # 0
    /\ IF Matches(token, user.hash) THEN Goes(c, "sign", token) ELSE Goes(c, "reuse", token)
    /\ UNCHANGED <<user, wallet, issued, now, guesses, created, ahead>>

(* JwtStrategy: an unexpired access token of an account that is, now, not  *)
(* suspended.                                                              *)
Guard(c, place) ==
    /\ At(c, "idle")
    /\ \E k \in DOMAIN issued : now < issued[k] + AccessLife
    /\ user.status = "active"
    /\ Goes(c, place, 0)
    /\ UNCHANGED <<user, wallet, issued, now, guesses, created, ahead>>

(* A logout, or the refresh of a token that did not match, ends the session. *)
ForgetHash(c) ==
    /\ call[c].at \in {"logout", "reuse"}
    /\ user' = [user EXCEPT !.hash = 0]
    /\ Ends(c)
    /\ UNCHANGED <<wallet, issued, now, guesses, created, ahead>>

FindWallet(c) ==
    /\ At(c, "find wallet")
    /\ IF wallet THEN Ends(c) ELSE Goes(c, "insert wallet", 0)
    /\ UNCHANGED <<user, wallet, issued, now, guesses, created, ahead>>

InsertWallet(c) ==
    /\ At(c, "insert wallet")
    /\ wallet' = TRUE
    /\ created' = IF wallet THEN created ELSE [created EXCEPT !.wallet = @ + 1]
    /\ Ends(c)
    /\ UNCHANGED <<user, issued, now, guesses, ahead>>

(* A statement fails or the process dies: the rest is not executed.        *)
Dies(c) ==
    /\ ~At(c, "idle")
    /\ Ends(c)
    /\ UNCHANGED <<user, wallet, issued, now, guesses, created, ahead>>

SuspendUser ==
    /\ user # NoUser
    /\ user' = [user EXCEPT !.status = "suspended"]
    /\ UNCHANGED <<wallet, issued, call, now, guesses, created, ahead>>

ActivateUser ==
    /\ user # NoUser
    /\ user' = [user EXCEPT !.status = "active", !.attempts = 0, !.lockedUntil = 0]
    /\ guesses' = 0 /\ ahead' = {}
    /\ UNCHANGED <<wallet, issued, call, now, created>>

(* The counter stays as it is when a lock runs out.                        *)
Tick ==
    /\ now < MaxNow
    /\ now' = now + 1
    /\ IF user.lockedUntil = now + 1
       THEN guesses' = 0 /\ ahead' = {}
       ELSE UNCHANGED <<guesses, ahead>>
    /\ UNCHANGED <<user, wallet, issued, call, created>>

CallStep(c) ==
    \/ FindEmail(c) \/ InsertUser(c)
    \/ LoginRight(c) \/ LoginWrong(c) \/ RecordFailedAttempt(c) \/ ClearFailedAttempts(c)
    \/ Sign(c)
    \/ \E token \in DOMAIN issued : Refresh(c, token)
    \/ Guard(c, "logout") \/ ForgetHash(c)
    \/ Guard(c, "find wallet") \/ FindWallet(c) \/ InsertWallet(c)
    \/ Dies(c)

Next == (\E c \in Calls : CallStep(c)) \/ SuspendUser \/ ActivateUser \/ Tick

Spec == Init /\ [][Next]_vars

-----------------------------------------------------------------------------
(* Every variable has its type.                                            *)
TypeOK ==
    /\ user \in [status : {"none", "active", "suspended"}, attempts : Nat,
                 lockedUntil : 0..MaxNow + LockDuration, hash : 0..Len(issued)]
    /\ wallet \in BOOLEAN
    /\ issued \in Seq(0..MaxNow) /\ Len(issued) <= MaxTokens
    /\ call \in [Calls -> [at : {"idle", "insert user", "record", "clear", "sign", "logout",
                                 "reuse", "find wallet", "insert wallet"},
                           seen : Nat, then : {"idle", "sign"}]]
    /\ now \in 0..MaxNow
    /\ guesses \in Nat
    /\ created \in [email : Nat, wallet : Nat]
    /\ ahead \subseteq Calls

(* What the lockout is worth with a counter that is read, incremented and  *)
(* written back.  One client at a time records MaxFailedAttempts wrong     *)
(* passwords before a lock.  Of k clients at a time k - 1 can hold a stale *)
(* value back and then write it, over and over from every height of the    *)
(* counter: the bound is the number of ways up, and it is reached.         *)
GuessesBounded ==
    LET k == Cardinality(Calls)
    IN  guesses <= (k - 1) + choose(MaxFailedAttempts + k - 1, k)

(* Concurrent registrations and concurrent creations of a wallet all find  *)
(* nothing; one row of each comes of them.                                 *)
CreatedOnce == created.email <= 1 /\ created.wallet <= 1

(* A lock stops every login but those that were past the password when it  *)
(* was set: whatever is written back late, renewed or lifted meanwhile, no *)
(* other login is about to reset the counter or to be given tokens while   *)
(* the account is locked.                                                  *)
LockStopsLogins == IsLocked => Entering \subseteq ahead

-----------------------------------------------------------------------------
(* README.md:143: "old token immediately invalidated".  A refresh that is  *)
(* accepted presents the token whose hash is kept.                         *)
RotatedTokensRefused ==
    [][\A c \in Calls : At(c, "idle") /\ call'[c].at = "sign" /\ call'[c].seen # 0
          => call'[c].seen = user.hash]_vars

(* README.md:144: "if an old token is presented, **all sessions are        *)
(* invalidated**"; auth.service.ts:112: "Invalidate ALL sessions as a      *)
(* security measure."  A refresh with a token other than the one whose     *)
(* hash is kept ends the session.                                          *)
ReuseIsDetected ==
    [][\A token \in DOMAIN issued, c \in Calls :
          Refresh(c, token) /\ token # user.hash => call'[c].at = "reuse"]_vars

(* auth.controller.ts:61: logout "Invalidates the current refresh token."  *)
(* A refresh does not open a session that has been ended.                  *)
LogoutSticks ==
    [][\A c \in Calls : At(c, "sign") /\ call[c].seen # 0 /\ issued' # issued
                        /\ call'[c] = Idle
          => user.hash # 0]_vars

(* admin.module.ts:109: suspension "Blocks login and all transactions."    *)
(* No refresh that begins while the account is suspended is accepted.      *)
SuspendedGetNoTokens ==
    [][\A c \in Calls : At(c, "idle") /\ call'[c].at = "sign" => user.status # "suspended"]_vars

(* README.md:145: "30-minute lock".  A lock in force is lifted by an       *)
(* administrator only.                                                     *)
LocksLast == [][IsLocked /\ user'.lockedUntil = 0 => call' = call]_vars
=============================================================================
