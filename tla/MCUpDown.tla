------------------------------ MODULE MCUpDown ------------------------------
(* UpDown with two `axx up` and one `axx down`. *)
EXTENDS UpDown

MCUps == {1, 2}
MCDowns == {3}
=============================================================================
