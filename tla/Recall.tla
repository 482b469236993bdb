------------------------------- MODULE Recall -------------------------------
(***************************************************************************)
(* The question box of the page (static/index.html) and recall.recall,     *)
(* which answers with the event that comes nearest: an excerpt of its      *)
(* first sentences, and the full text behind a toggle.  The events are     *)
(* those of Persistent.tla, written while visitors ask; what is nearest is *)
(* the vector search's business, and may be any of them.                   *)
(*                                                                         *)
(* A text is a sequence of sentences, of which the number of words counts  *)
(* and whether a line break comes after it (at the end: any white space):  *)
(* the excerpt is put together again with plain spaces.                    *)
(***************************************************************************)
EXTENDS Persistent, SequencesExt

CONSTANTS
  Text,         \* the texts that a model may write
  TargetWords,  \* target_words of _lead_excerpt
  MaxSentences  \* max_sentences

ASSUME TextAssumption ==
  /\ Text \subseteq Seq([words : Nat \ {0}, gap : {"space", "line"}])
  /\ TargetWords \in Nat /\ MaxSentences \in Nat \ {0}

VARIABLES
  shows,        \* "nothing", "thinking", "error", "excerpt" or "full"
  answer,       \* answerFull
  lead,         \* answerExcerpt, by the number of its sentences
  toggle        \* the toggle is displayed

pageVars == <<shows, answer, lead, toggle>>
vars == <<workVars, pageVars>>

NoEpisodes == <<[words |-> 7, gap |-> "space"]>>  \* "no episodes yet - kill me first"

TypeOK ==
  /\ WorkTypeOK
  /\ shows \in {"nothing", "thinking", "error", "excerpt", "full"}
  /\ answer \in Text \cup {<<>>, NoEpisodes}
  /\ lead \in 0 .. Len(answer)
  /\ toggle \in BOOLEAN

Init ==
  /\ WorkInit
  /\ shows = "nothing"
  /\ answer = <<>>
  /\ lead = 0
  /\ toggle = FALSE

-----------------------------------------------------------------------------
(***************************************************************************)
(* _lead_excerpt.                                                          *)
(***************************************************************************)
Words(s) == FoldLeft(LAMBDA n, sentence : n + sentence.words, 0, s)

(* The break of the loop.                                                  *)
Enough(t, n) == n >= MaxSentences \/ Words(SubSeq(t, 1, n)) >= TargetWords

(* Mutant of LeadExcerpt: a sentence that reaches the target is left out.  *)
LeadExcerptShort(t) ==
  LET from[n \in 1 .. Len(t)] ==
        IF n = Len(t) \/ Enough(t, n + 1) THEN n ELSE from[n + 1]
  IN  IF t = <<>> THEN 0 ELSE from[1]

(* The first sentence, and one after the other until there are enough.     *)
LeadExcerpt(t) ==
  LET from[n \in 1 .. Len(t)] ==
        IF n = Len(t) \/ Enough(t, n) THEN n ELSE from[n + 1]
  IN  IF t = <<>> THEN 0 ELSE from[1]

(* The excerpt is the text: no sentence is left out, no line break has     *)
(* become a space, no white space was stripped off the end.                *)
SameText(t, n) == n = Len(t) /\ \A i \in 1 .. n : t[i].gap = "space"

-----------------------------------------------------------------------------
(* Mutant of Ask: the toggle of the answer before is left.                 *)
AskKeepsToggle ==
  /\ shows # "thinking"
  /\ shows' = "thinking"
  /\ UNCHANGED <<workVars, answer, lead, toggle>>

(* The form is submitted; while the button is disabled it cannot be again. *)
Ask ==
  /\ shows # "thinking"
  /\ shows' = "thinking"
  /\ toggle' = FALSE
  /\ UNCHANGED <<workVars, answer, lead>>

(* renderAnswer, with showingFull = false.                                 *)
Render(t, n) ==
  /\ answer' = t
  /\ lead' = n
  /\ shows' = "excerpt"
  /\ toggle' = ~SameText(t, n)

Answered ==
  /\ shows = "thinking"
  /\ IF \E n \in Steps : memory[n] > 0
     THEN \E t \in Text : Render(t, LeadExcerpt(t))
     ELSE Render(NoEpisodes, Len(NoEpisodes))
  /\ UNCHANGED workVars

AskFails ==
  /\ shows = "thinking"
  /\ shows' = "error"
  /\ UNCHANGED <<workVars, answer, lead, toggle>>

Toggle ==
  /\ toggle
  /\ shows' = IF shows = "full" THEN "excerpt" ELSE "full"
  /\ UNCHANGED <<workVars, answer, lead, toggle>>

Next ==
  \/ WorkNext /\ UNCHANGED pageVars
  \/ Ask \/ Answered \/ AskFails \/ Toggle

(* The processes of the job run and dead ones are replaced.                *)
Spec ==
  /\ Init /\ [][Next]_vars
  /\ \A w \in Worker : WF_vars(Work(w) /\ UNCHANGED pageVars)

-----------------------------------------------------------------------------
Prefix(n) == SubSeq(answer, 1, n)

(* "First 2-3 sentences, capped near target_words": the least number of    *)
(* sentences that has enough of them or of words, or all there are; never  *)
(* none of a text.                                                         *)
ExcerptIsLead ==
  shows = "excerpt" /\ answer # <<>> =>
    /\ lead \in 1 .. MaxSentences
    /\ lead < Len(answer) => lead = MaxSentences \/ Words(Prefix(lead)) >= TargetWords
    /\ \A n \in 1 .. lead - 1 : n < MaxSentences /\ ~ (Words(Prefix(n)) >= TargetWords)

(* "The full text stays reachable": what the page shows is all of it, or   *)
(* there is the toggle; and the toggle never turns up next to anything but *)
(* the answer it belongs to.                                               *)
FullTextReachable ==
  /\ shows = "excerpt" /\ lead < Len(answer) => toggle
  /\ toggle => shows \in {"excerpt", "full"}
=============================================================================
