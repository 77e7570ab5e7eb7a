----------------------------- MODULE MCLattice -----------------------------
EXTENDS Lattice

CONSTANTS MaxReading, MaxEntries   \* bounds: characters of a reading, words of a dictionary

Entry(r, s, p, c) == [reading |-> r, surface |-> s, pos |-> p, cost |-> c]

\* "k" is a kana, "a" a letter; the first two words differ in cost and class.
Lexicon ==
  {Entry(<<"k">>, "ga", "Particle", 0), Entry(<<"k">>, "GA", "Noun", 5),
   Entry(<<"k", "k">>, "kk", "Verb", 1), Entry(<<"a">>, "A", "Noun", 2),
   Entry(<<"k", "a">>, "ka", "Adjective", 1), Entry(<<"a", "k", "k">>, "akk", "Verb", 3)}

MCTexts == Chars \cup {e.surface : e \in Lexicon}
MCReadings == UNION {[1 .. n -> Chars] : n \in 0 .. MaxReading}
MCDictionaries ==
  {d \in UNION {[1 .. n -> Lexicon] : n \in 0 .. MaxEntries} :
     \A i, j \in DOMAIN d : i # j => d[i] # d[j]}

\* Prefers short paths, and the verb.
MCLm(surfaces) ==
  (IF \E k \in DOMAIN surfaces : surfaces[k] = "kk" THEN 1 ELSE 0) - 2 * Len(surfaces)
=============================================================================
