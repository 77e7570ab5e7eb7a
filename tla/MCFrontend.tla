----------------------------- MODULE MCFrontend -----------------------------
EXTENDS Frontend
\* One ASCII letter and one kana: the buffers cut 511 and 1023 bytes of text, that
\* is one more than whole kana and a whole number of kana; 4 and 6 do the same.
MCBytes == "a" :> 1 @@ "k" :> 3
\* A reading with more entries than are kept, and out of order.
MCIndex ==
  <<"k">> :> <<[surface |-> <<"k">>, cost |-> 2], [surface |-> <<"a">>, cost |-> 1],
               [surface |-> <<"a", "a">>, cost |-> 2]>>
\* Tokens that can be split and joined.
MCSurfaces == {<<"a">>, <<"b">>, <<"a", "b">>}
\* Hundredths: a loss, nothing, and both sides of both thresholds.
MCDeltas == {-10, 0, 19, 20, 29, 30, 90}
MCTokens == <<[start |-> 0, end |-> 2], [start |-> 2, end |-> 3]>>
\* Tenths: below, at both ends of, inside and above the scale.
MCConfidences == {-1, 5, 12}
=============================================================================
