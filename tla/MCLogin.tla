------------------------------- MODULE MCLogin -------------------------------
(***************************************************************************)
(* Two phones: one with two SendSMS requests and two logins, the other     *)
(* with one of each.                                                       *)
(***************************************************************************)
EXTENDS Login

MCPhone == {"p", "q"}
MCSender == {"s1", "s2", "s3"}
MCAttempt == {"l1", "l2", "l3"}
MCPhoneOf == [r \in MCSender \cup MCAttempt |-> IF r \in {"s3", "l3"} THEN "q" ELSE "p"]
=============================================================================
