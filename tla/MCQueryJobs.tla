---------------------------- MODULE MCQueryJobs ----------------------------
(* Small instances of QueryJobs. *)
EXTENDS QueryJobs, TLC

\* Job ids are interchangeable, and so are users and readers.
MCSymmetry == Permutations(Job) \cup Permutations(Owner) \cup Permutations(Poller)
=============================================================================
