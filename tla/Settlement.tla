----------------------------- MODULE Settlement -----------------------------
(***************************************************************************)
(* What the payments promise, without queue, retries, webhooks or ledger:  *)
(* a withdrawal is debited once and before the provider is asked for it; a *)
(* transfer is done only once the provider has settled it, a withdrawal    *)
(* without a further posting and a deposit together with its credit.       *)
(* Being done may be taken back, and nothing else may.                     *)
(***************************************************************************)
EXTENDS Naturals

CONSTANTS
    Transfers,    \* identifiers of transfers
    Withdrawals   \* those that pay out; the others are deposits

VARIABLES
    moved,     \* moved[t]: how often the transfer's posting is in the ledger
    asked,     \* the transfers the provider was asked to charge
    settled,   \* those with a charge that succeeded
    done       \* those that read COMPLETED

settlementVars == <<moved, asked, settled, done>>

Init ==
    /\ moved = [t \in Transfers |-> 0]
    /\ asked = {} /\ settled = {} /\ done = {}

Posts(t) == moved' = [moved EXCEPT ![t] = @ + 1]

Debit(t) ==
    /\ t \in Withdrawals /\ moved[t] = 0
    /\ Posts(t)
    /\ UNCHANGED <<asked, settled, done>>

(* The provider may succeed at once, later, or never.                      *)
Ask(t) ==
    /\ t \in Withdrawals => moved[t] = 1
    /\ asked' = asked \union {t}
    /\ settled' \in {settled, settled \union {t}}
    /\ UNCHANGED <<moved, done>>

Settle(t) ==
    /\ t \in asked
    /\ settled' = settled \union {t}
    /\ UNCHANGED <<moved, asked, done>>

(* A deposit may be credited again: nothing in the code excludes it.       *)
Complete(t) ==
    /\ t \in settled
    /\ IF t \in Withdrawals THEN UNCHANGED moved ELSE Posts(t)
    /\ done' = done \union {t}
    /\ UNCHANGED <<asked, settled>>

Revoke(t) ==
    /\ done' = done \ {t}
    /\ UNCHANGED <<moved, asked, settled>>

Next ==
    \E t \in Transfers : Debit(t) \/ Ask(t) \/ Settle(t) \/ Complete(t) \/ Revoke(t)

Spec == Init /\ [][Next]_settlementVars

-----------------------------------------------------------------------------
(* Each variable has its type.                                             *)
Types ==
    /\ moved \in [Transfers -> Nat]
    /\ asked \subseteq Transfers
    /\ settled \subseteq asked
    /\ done \subseteq settled

(* The provider is asked to pay out only what has been debited, once.      *)
PaidOutOnceDebited ==
    \A t \in Transfers : t \in Withdrawals =>
        moved[t] <= 1 /\ (t \in asked => moved[t] = 1)

(* What reads COMPLETED is settled (Types) and has its posting.            *)
CompletedIsBacked == \A t \in done : moved[t] > 0

=============================================================================
