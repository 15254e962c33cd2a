--------------------------- MODULE MCExpertIngest ---------------------------
EXTENDS ExpertIngest

CONSTANTS e1, e2, m1, m2

Shape(lines, text, usage, mined, old) ==
  [lines |-> lines, text |-> text, usage |-> usage, mined |-> mined, old |-> old]

\* A WebSocket of which both extractions read the first message, with usage, and
\* an old one whose later frame only the replay reads; or a body stored as base64 and more
\* failures than mining accepts, and an event that holds nothing.
MCCaptures ==
  {(e1 :> Shape(<<"other", m1, m2>>, TRUE, TRUE, "none", FALSE)
      @@ e2 :> Shape(<<"empty", m1>>, TRUE, FALSE, "none", TRUE)),
   (e1 :> Shape(<<m1>>, FALSE, FALSE, "toomany", FALSE)
      @@ e2 :> Shape(<<>>, TRUE, FALSE, "some", FALSE))}

Plain == [since |-> FALSE, limit |-> 0, dry |-> FALSE, continue |-> FALSE,
          transport |-> FALSE, file |-> TRUE, fromStart |-> FALSE]

MCOptions ==
  {[Plain EXCEPT !.since = TRUE, !.continue = TRUE, !.fromStart = TRUE],
   [Plain EXCEPT !.transport = TRUE, !.limit = 1],
   [Plain EXCEPT !.dry = TRUE, !.file = FALSE]}

Symmetry == Permutations(Runners)
=============================================================================
