-------------------------------- MODULE MCPool --------------------------------
(***************************************************************************)
(* A small instance of ParallelIngest: two workers, a queue of one, an     *)
(* ingestion in two chunks, and another client whose job throws.           *)
(***************************************************************************)
EXTENDS ParallelIngest

MCJobs     == {1, 2, 3}
MCThrowing == {3}
===============================================================================
