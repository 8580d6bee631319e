--------------------------- MODULE MCProjectStore ---------------------------
(***************************************************************************)
(* Instances of ProjectStore for TLC.                                      *)
(***************************************************************************)
EXTENDS ProjectStore, TLC

CONSTANTS p1, d1, d2, r1, s1, f1, f2, b1

\* Both documents in one project.
OneProject == [d \in {d1, d2} |-> p1]

OneDocument == d1 :> p1

\* r1 may answer anything for d1 and always answers for d2.
AnyAnswer == {{}, {b1}, Unavailable}
Answers == [r \in {r1} |-> (d1 :> AnyAnswer) @@ (d2 :> {{b1}})]

\* One recognizer that finds the one span of the one document.
Finds == r1 :> (d1 :> {{b1}})

\* A resolver that may also know no location, or name a feature that the
\* installed gazetteer does not have.
Places == s1 :> {f1, f2, Unavailable}

\* A resolver that always knows a location.
SurePlaces == s1 :> {f1, f2}

ClientSymmetry == Permutations(Clients)
=============================================================================
