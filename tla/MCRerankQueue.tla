---------------------------- MODULE MCRerankQueue ----------------------------
(* A small instance of RerankQueue for TLC: two neighbouring edits that       *)
(* together exceed the window, one elsewhere in the text, one on a line of    *)
(* its own, and one with nothing to rerank.                                   *)
EXTENDS RerankQueue

Low(s)  == [start |-> s, end |-> s + 1, low |-> TRUE]
High(s) == [start |-> s, end |-> s + 1, low |-> FALSE]

MCCalls == {"near", "next", "far", "other", "sure"}

MCEvent ==
  [c \in MCCalls |->
     CASE c = "near"  -> [recent |-> <<Low(0), Low(1)>>,          buffer |-> <<1, 2>>]
       [] c = "next"  -> [recent |-> <<High(1), Low(2), Low(3)>>, buffer |-> <<1, 2, 3, 4>>]
       [] c = "far"   -> [recent |-> <<Low(1), High(8), Low(9)>>, buffer |-> <<1, 2, 3>>]
       [] c = "other" -> [recent |-> <<Low(0)>>,                  buffer |-> <<5>>]
       [] c = "sure"  -> [recent |-> <<Low(0), High(1), High(2), High(3)>>,
                          buffer |-> <<1, 2, 3, 4>>]]
=============================================================================
