----------------------------- MODULE MCExtraction -----------------------------
EXTENDS Extraction, TLC

\* Page 1 has two chunks, page 2 one, which holds the highest index.
MCChunks == (0 :> 1) @@ (1 :> 1) @@ (2 :> 2)

\* Fields and no text; text of fewer, as many or more pieces than page 1.
MCOutcomes == {<<TRUE, 0>>, <<FALSE, 1>>, <<TRUE, 2>>, <<TRUE, 3>>}
=============================================================================
