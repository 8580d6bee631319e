------------------------------ MODULE MCPilot -------------------------------
(***************************************************************************)
(* Instance of Pilot, and of the parses beside it, for TLC.                *)
(***************************************************************************)
EXTENDS Pilot, TLC

CONSTANTS c1, p1, p2, d1, d2, d3, r1, s1, f1, f2, b1, b2, x1, x2

\* The two cases of the pilot are in one project.
Homes == (d1 :> p1) @@ (d2 :> p1) @@ (d3 :> p2)

\* The recognizer finds one span or two in d1 and the first of them in d2 too;
\* it finds nothing in d3 or gives no answer for it.
Answers == r1 :> ((d1 :> {{b1}, {b1, b2}}) @@ (d2 :> {{b1}})
                  @@ (d3 :> {{}, Unavailable}))

\* The resolver may know either location or none.
Places == s1 :> {f1, f2, Unavailable}

\* Two points half the largest distance apart.
Points == (f1 :> x1) @@ (f2 :> x2)
Distances == [x \in {x1, x2} |-> [y \in {x1, x2} |-> IF x = y THEN 0 ELSE 2]]
Logarithm == (0 :> 0) @@ (1 :> 3) @@ (2 :> 5) @@ (3 :> 6) @@ (4 :> 7)

Annotated(d, span, place) == [document |-> d, span |-> span, place |-> place]
GoldStandard == {Annotated(d1, b1, f1), Annotated(d1, b2, f2), Annotated(d2, b2, f1)}
=============================================================================
