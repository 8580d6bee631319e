------------------------ MODULE MCProjectAnnotations ------------------------
(***************************************************************************)
(* Instance of ProjectAnnotations for TLC.                                 *)
(***************************************************************************)
EXTENDS ProjectAnnotations, TLC

CONSTANTS c1, c2, p1, p2, d1, d2, t1, t2, r2, rm, rx, sm, f1, f2, b1, b2, e1, e2, e3, gold

Homes == (d1 :> p1) @@ (d2 :> p1)
DocTexts == (d1 :> t1) @@ (d2 :> t2)

\* The second text as a file from Windows has it.
LineEnds == (t1 :> t1) @@ (t2 :> t2) @@ (r2 :> t2)

\* One file with one text, a later export that also has the other text and links
\* the span differently, and the same with the text's carriage returns.
Toponym(span, place) == [span |-> span, place |-> place]
FileEntries ==
  (e1 :> <<[text |-> t1, toponyms |-> <<Toponym(b1, f1), Toponym(b2, Unavailable)>>]>>)
  @@ (e2 :> <<[text |-> t2, toponyms |-> <<Toponym(b1, f1)>>],
              [text |-> t1, toponyms |-> <<Toponym(b1, f2)>>]>>)
  @@ (e3 :> <<[text |-> r2, toponyms |-> <<Toponym(b1, f1)>>],
              [text |-> t1, toponyms |-> <<Toponym(b1, f2)>>]>>)

LabelRecognizer == gold :> rm
LabelResolver == gold :> sm

\* The other recognizer finds something in every text.
Answers == [r \in {rm, rx} |-> [d \in {d1, d2} |-> {{b1}}]]
NoPlaces == sm :> {}

Load(file, create) ==
  [kind |-> "load", file |-> file, tag |-> gold, create |-> create]
Viewing == [kind |-> "view", tag |-> gold]
AllScripts == (c1 :> {Load(e2, TRUE), Load(e3, TRUE)})
              @@ (c2 :> {Load(e1, FALSE), [kind |-> "run", module |-> rx, tag |-> gold],
                         Viewing})
=============================================================================
