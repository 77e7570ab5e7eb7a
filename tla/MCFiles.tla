------------------------------ MODULE MCFiles ------------------------------
EXTENDS Files, TLC
\* One word recorded in two contexts, another reading and another surface.
MCKeys ==
  {[reading |-> "r", surface |-> "s", prev |-> "a"],
   [reading |-> "r", surface |-> "s", prev |-> "b"],
   [reading |-> "q", surface |-> "s", prev |-> "a"],
   [reading |-> "r", surface |-> "t", prev |-> "a"]}
\* A smaller model with a less preferred name.
MCOtherModel == [preference |-> PreferenceScore("gemma"), size |-> 1]
\* Nothing depends on which process, application or download it is.
MCSymmetry == Permutations(Downloads) \cup Permutations(Processes)
                \cup Permutations(Savers) \cup Permutations(Parties)
=============================================================================
