------------------------------ MODULE MCRecall ------------------------------
(* An instance of Recall: texts whose excerpt ends for each of its reasons.*)
EXTENDS Recall

S(n) == [words |-> n, gap |-> "space"]
L(n) == [words |-> n, gap |-> "line"]

MCText == {
  <<>>,                            \* a stream that yields nothing
  <<S(90), S(10)>>,                \* enough words in the first sentence
  <<S(40), S(20), S(20)>>,         \* in the second
  <<S(10), S(10), S(10), S(10)>>,  \* enough sentences
  <<S(20), S(20), L(10)>>}         \* all of them, and white space

MCCorpora == {0, 2, 3, 4, 6}
MCTotals == {2, 5, 6}
=============================================================================
