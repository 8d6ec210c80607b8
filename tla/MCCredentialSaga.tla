-------------------------- MODULE MCCredentialSaga --------------------------
(* Model-checking instances of CredentialSaga.                             *)
EXTENDS CredentialSagaInvariant, TLC

\* Workers, connections and identifiers are interchangeable.
Symmetry == Permutations(Workers) \cup Permutations(Connections) \cup Permutations(Ids)
=============================================================================
