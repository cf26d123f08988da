----------------------------- MODULE MCDoctorBatch -----------------------------
(***************************************************************************)
(* Instances of DoctorBatch for TLC: the .cfg files give N and Concurrency *)
(* their values.                                                           *)
(***************************************************************************)
EXTENDS DoctorBatch
===============================================================================
