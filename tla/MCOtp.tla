------------------------------- MODULE MCOtp -------------------------------
(***************************************************************************)
(* TLC instance of Otp: the requests of the number are interchangeable.    *)
(***************************************************************************)
EXTENDS Otp, TLC

\* At most one accident: a code that lapses, or a request that dies.
OneAccident == Cardinality(lapsed) + deaths <= 1

\* At most two registration codes; the third code resets a password.
TwoRegistrations == issued = MaxCodes => latest["register"] # issued

Symmetry == Permutations(Requests)
=============================================================================
