---------------------------- MODULE SearchCorpus ----------------------------
(***************************************************************************)
(* What the index promises to search: a query finds an article by the      *)
(* vector of the text the article has now, or not at all.  Editing a page  *)
(* takes its article out of the results until it is published again.       *)
(***************************************************************************)
CONSTANTS
    Articles,
    Texts,
    NoText

VARIABLES
    text,   \* the text of each article
    found   \* the text whose vector a query finds it by, or NoText

corpusVars == <<text, found>>

CorpusInit ==
    /\ text = [a \in Articles |-> NoText]
    /\ found = [a \in Articles |-> NoText]

\* A new text: the article leaves the results with the same step.
Edit(a) ==
    /\ \E t \in Texts : text' = [text EXCEPT ![a] = t]
    /\ text'[a] # text[a]
    /\ found' = [found EXCEPT ![a] = NoText]

\* Any articles enter or leave the results; those in it have their own text.
Reveal ==
    /\ text' = text
    /\ found' \in [Articles -> Texts \cup {NoText}]
    /\ \A a \in Articles : found'[a] \in {text[a], NoText}

CorpusNext == Reveal \/ \E a \in Articles : Edit(a)

CorpusSpec == CorpusInit /\ [][CorpusNext]_corpusVars
=============================================================================
