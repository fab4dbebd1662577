------------------------- MODULE MCSharedExecutions -------------------------
(* Small instances of SharedExecutions for TLC. *)
EXTENDS SharedExecutions, TLC

Symmetry == Permutations(Servers) \cup Permutations(Contents)

\* No statement reads the log, and the properties only ask how often the execution was
\* created: states whose logs agree on that are the same.
CreatedOnly ==
  LET isCreated(type) == type = "created" IN
  <<[row EXCEPT !.events = SelectSeq(@, isCreated)],
    up, todo, own, attempt, child, signalled, submitVars>>
=============================================================================
