---------------------------- MODULE MCKycReview ----------------------------
(***************************************************************************)
(* Small instances of KycReview: two submissions for tier 2 and one for    *)
(* tier 3.                                                                 *)
(***************************************************************************)
EXTENDS KycReview, TLC

CONSTANTS second, again, third

MCTarget == [r \in Submissions |-> IF r = third THEN 3 ELSE 2]
=============================================================================
