-------------------------- MODULE MCQuerySessions --------------------------
(* Small instances of QuerySessions: request r3 is another user's. *)
EXTENDS QuerySessions, TLC

CONSTANTS r1, r2, r3, ada, bob

MCOwnerOf == [r \in Request |-> IF r = r3 THEN bob ELSE ada]

\* Request tasks of one user are interchangeable, and so are session ids.
MCSymmetry == Permutations({r1, r2}) \cup Permutations(Session)
=============================================================================
