----------------------------- MODULE NaiveBayes -----------------------------
(* The words, counts and predictions of doc-summarizer/main.py.            *)
(*                                                                         *)
(* Words are as they stand in a file; a line is a sequence of words.  A    *)
(* sum of logarithms is the product of its factors, kept as a fraction     *)
(* <<numerator, denominator>>.  Where the products of two labels are equal *)
(* but their factors are not, rounding decides, and either may come out    *)
(* above the other; the same factors give the same sum.                    *)
EXTENDS Integers, SequencesExt

CONSTANTS
  Lower,       \* str.lower, as a function on words
  Lemma,       \* WordNetLemmatizer, as a function on words in lower case
  STOP_WORDS,
  OneLetter    \* the words of one character

ASSUME ConversionsAssumption ==
  \A w \in DOMAIN Lower : Lower[w] \in DOMAIN Lemma

tokenize_words(words) == [i \in DOMAIN words |-> Lower[words[i]]]

eliminate_stopwords(words) ==
  FoldLeft(LAMBDA kept, w : IF w \notin OneLetter \cup STOP_WORDS
                            THEN Append(kept, w) ELSE kept,
           <<>>, words)

lemmatize(words) == [i \in DOMAIN words |-> Lemma[words[i]]]

(* The words of a text as one of the tests takes them.                     *)
Prepared(text, test) ==
  LET all == tokenize_words(text)
      kept == IF test.elim_stopwords THEN eliminate_stopwords(all) ELSE all
  IN  IF test.lemmatization THEN lemmatize(kept) ELSE kept

(* What is counted: words, or pairs of adjacent words.                     *)
Terms(text, test) ==
  LET words == Prepared(text, test)
  IN  IF test.bigrams
      THEN [i \in 1..Len(words) - 1 |-> <<words[i], words[i + 1]>>]
      ELSE words

-----------------------------------------------------------------------------
(* Training.  labels is the sequence of the labels, in the order of the    *)
(* dictionaries that the code writes out.                                  *)

NoCounts(labels) == [label \in ToSet(labels) |-> 0]

Untrained(labels) == [vocabulary |-> <<>>, word_cnt |-> NoCounts(labels)]

Vocabulary(model) == DOMAIN model.vocabulary

CountTerm(model, labels, label, term) ==
  LET known == model.vocabulary
      counts == IF term \in DOMAIN known THEN known[term] ELSE NoCounts(labels)
  IN  [vocabulary |->
         [t \in DOMAIN known \cup {term} |->
            IF t = term THEN [counts EXCEPT ![label] = @ + 1] ELSE known[t]],
       word_cnt |-> [model.word_cnt EXCEPT ![label] = @ + 1]]

Count(model, labels, label, terms) ==
  FoldLeft(LAMBDA m, term : CountTerm(m, labels, label, term), model, terms)

-----------------------------------------------------------------------------
(* Prediction, with alpha = 1.                                             *)

FactorWithoutVocabulary(model, term, label) ==
  << 1 + IF term \in Vocabulary(model)
         THEN model.vocabulary[term][label]
         ELSE 0,
     model.word_cnt[label] + 1 >>

Factor(model, term, label) ==
  << 1 + IF term \in Vocabulary(model)
         THEN model.vocabulary[term][label]
         ELSE 0,
     model.word_cnt[label] + Cardinality(Vocabulary(model)) >>

Factors(model, terms, label) ==
  [i \in DOMAIN terms |-> Factor(model, terms[i], label)]

(* log(... / 0): nothing was learnt and there is a term to look up.        *)
DividesByZero(model, terms) == Vocabulary(model) = {} /\ terms # <<>>

Product(fractions) ==
  FoldLeft(LAMBDA p, f : <<p[1] * f[1], p[2] * f[2]>>, <<1, 1>>, fractions)

Above(p, q) == p[1] * q[2] > q[1] * p[2]

(* The classes that may come out: those that nothing is above, but of      *)
(* classes with the same factors the first.                                *)
predict_class(model, terms, labels) ==
  LET factors == [k \in DOMAIN labels |-> Factors(model, terms, labels[k])]
      product == [k \in DOMAIN labels |-> Product(factors[k])]
  IN  { labels[k] : k \in
          {k \in DOMAIN labels :
             \A j \in DOMAIN labels :
               /\ ~Above(product[j], product[k])
               /\ j < k => factors[j] # factors[k]} }

(* The answers that may come out, for the labels "yes" and "no".           *)
predict_sentence_in_sum(model, terms) ==
  LET yes == Factors(model, terms, "yes")
      no == Factors(model, terms, "no")
  IN  { answer \in {"yes", "no"} :
          IF answer = "yes"
          THEN yes # no /\ ~Above(Product(no), Product(yes))
          ELSE ~Above(Product(yes), Product(no)) }
=============================================================================
