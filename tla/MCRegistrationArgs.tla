-------------------------- MODULE MCRegistrationArgs --------------------------
(***************************************************************************)
(* Instances of convert_registration_args for TLC.                         *)
(***************************************************************************)
EXTENDS RegistrationArgs

\* Any portions of up to three contributors, and four around a quarter each.
AllArgs == UNION {[1..n -> 0..UINT64_MAX] : n \in 1..3}
             \cup [1..4 -> {0, 4, 5, 6, 7, 8, 12}]
==============================================================================
