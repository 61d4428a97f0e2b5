----------------------------- MODULE MCRetrieval -----------------------------
(* Four chunks of two files of the same name: a lexeme in all of them is a  *)
(* stopword, one in two or three is not.                                    *)
EXTENDS Retrieval

CONSTANTS f1, f2, t1, t2, t3

MCFileOf == <<f1, f1, f2, f2>>
MCKey == <<1, 2, 1, 3>>
MCTerms == <<{t1, t2}, {t1}, {t1, t3}, {t1, t2}>>
MCTokens == <<2, 3, 4, 1>>
MCIdf == <<<<288>>, <<693, 182>>, <<981, 470, 134>>, <<1204, 693, 357, 105>>>>

MCQueries == {[sim |-> <<3, 0, 2, 2>>, terms |-> {t1}],
              [sim |-> <<1, 0, 0, 3>>, terms |-> {t2, t3}],
              [sim |-> <<1, 2, 1, 0>>, terms |-> {t1, t2}]}
MCFilters == {[files |-> fs, sql |-> s] : fs \in {{}, {f2}}, s \in BOOLEAN}

MCSettings == {[rerank |-> FALSE, min |-> 0], [rerank |-> FALSE, min |-> 2],
               [rerank |-> TRUE, min |-> 2]}

\* A negative limit, none, one under the reserve, one over the cap.
MCLimits == {-1, 0, 1, 9}

\* No image, a small one, a large one, too many, one that does not decode.
Image(w, h) == [width |-> w, height |-> h, usable |-> TRUE]
MCImages == {<<>>, <<Image(56, 56)>>, <<Image(57, 112)>>,
             <<Image(1, 1), Image(1, 1)>>, <<[Image(1, 1) EXCEPT !.usable = FALSE]>>}

=============================================================================
