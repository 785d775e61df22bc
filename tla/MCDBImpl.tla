------------------------------ MODULE MCDBImpl ------------------------------
(* Instances of DBImpl for TLC; the bounds are given by the .cfg files. *)
EXTENDS DBImpl
=============================================================================
