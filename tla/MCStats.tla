------------------------------ MODULE MCStats ------------------------------
(* Stats for TLC: a negative number, zero and a positive number.           *)
EXTENDS Stats

MCFinite == {-1, 0, 2}

=============================================================================
