------------------------------ MODULE MCDatasets ------------------------------
EXTENDS Datasets, TLC

MCContents == {<<"json">>, <<"json", "text">>, <<"json", "broken">>}

\* Two spellings of one question, and two near neighbours of the first that are
\* not near each other.
MCOutputs == {<<"q1", "q", "q2", "Q">>}
MCNorm == [k \in {"q", "Q", "q1", "q2"} |-> IF k = "Q" THEN "q" ELSE k]
MCNear == {{"q", "q1"}, {"q", "q2"}}
=============================================================================
