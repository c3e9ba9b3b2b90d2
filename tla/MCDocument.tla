------------------------------ MODULE MCDocument ------------------------------
(* A component of one control whose stylesheet a person writes: a rule with *)
(* a mark that markup escapes, as the one of a child has.                   *)
EXTENDS ComponentDocument

Box == [tag |-> "input", attrs |-> [name |-> [stem |-> "a", n |-> 0], type |-> "text"], text |-> <<>>, kids |-> <<>>]
OneFile == {[tag |-> "div", attrs |-> [gridlet |-> 2], text |-> <<>>, kids |-> <<Box>>]}
MarkedSheet == {<<[is |-> "rule", of |-> [stem |-> "a", n |-> 0], marked |-> TRUE, level |-> 0]>>}
NoProps == [type \in {} |-> {}]
=============================================================================
