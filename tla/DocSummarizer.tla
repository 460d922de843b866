---------------------------- MODULE DocSummarizer ----------------------------
(* doc-summarizer/main.py: nine tests, one after the other, each of which  *)
(* lists the directories of articles, trains on three quarters of each     *)
(* and predicts the rest: the class of an article, or the sentences of its *)
(* summary.                                                                *)
(*                                                                         *)
(* An article is a sequence of sentences, as the tokenizer takes it apart; *)
(* a sentence is a sequence of lines and a line a sequence of words.  A    *)
(* title without a full stop is the first line of the first sentence.  A   *)
(* summary is written as lines, one per sentence, with nothing between     *)
(* them.  A word carries what stands between it and the next, as a stop or *)
(* a space; the last word of a line has no space.  An exception ends the   *)
(* program ("failed").                                                     *)
EXTENDS NaiveBayes

CONSTANTS
  Classes,     \* the classes, in the order of the dictionaries
  Corpora,     \* the contents the two directories may have
  Capitals,    \* the words whose first character is one of A to Z
  Spaced,      \* the words that end in a stop: the same with a space after it
  NoSummary

ASSUME ClassesAssumption == Classes \in Seq(STRING)

ASSUME SpacedAssumption ==
  /\ DOMAIN Spaced \subseteq DOMAIN Lower
  /\ \A w \in DOMAIN Spaced : Spaced[w] \in DOMAIN Lower

(* Directories are finite, every sentence has a line, and every line of a  *)
(* summary a word.                                                         *)
ASSUME CorporaAssumption ==
  \A c \in Corpora :
    /\ \A files \in {c.articles, c.summaries} :
         /\ IsFiniteSet(DOMAIN files)
         /\ \A d \in DOMAIN files : IsFiniteSet(DOMAIN files[d])
    /\ \A d \in DOMAIN c.articles : \A f \in DOMAIN c.articles[d] :
         c.articles[d][f] \in Seq(Seq(Seq(DOMAIN Lower)) \ {<<>>})
    /\ \A d \in DOMAIN c.summaries : \A f \in DOMAIN c.summaries[d] :
         c.summaries[d][f] \in Seq(Seq(DOMAIN Lower) \ {<<>>})

VARIABLES
  corpus,      \* the files, which do not change
  variant,     \* the test that runs, an index into Tests
  step,        \* how far it is
  articles,    \* the listing of the articles
  summaries,   \* the listing of the summaries
  todo,        \* what the loop that runs has left
  model,       \* vocabulary and word_cnt
  trained,     \* history: what train_classifier or train_summarizer took
  results,     \* the predictions: my_summaries, or history of the classes
  conf_matrix, tp, fp,
  scored       \* history: the pairs that were compared

listings == <<articles, summaries>>
learnt == <<model, trained>>
outcome == <<results, conf_matrix, tp, fp, scored>>
vars == <<corpus, variant, step, listings, todo, learnt, outcome>>

ClassSet == ToSet(Classes)

test_classifier(elim, lemma) ==
  [summarize |-> FALSE, elim_stopwords |-> elim,
   lemmatization |-> lemma, bigrams |-> FALSE]

test_summarizer(elim, lemma, bigrams) ==
  [summarize |-> TRUE, elim_stopwords |-> elim,
   lemmatization |-> lemma, bigrams |-> bigrams]

Tests ==
  << test_classifier(FALSE, FALSE), test_classifier(TRUE, FALSE),
     test_classifier(TRUE, TRUE),
     test_summarizer(FALSE, FALSE, FALSE), test_summarizer(TRUE, FALSE, FALSE),
     test_summarizer(TRUE, TRUE, FALSE),
     test_summarizer(FALSE, FALSE, TRUE), test_summarizer(TRUE, FALSE, TRUE),
     test_summarizer(TRUE, TRUE, TRUE) >>

test == Tests[variant]
Labels == IF test.summarize THEN <<"yes", "no">> ELSE Classes

-----------------------------------------------------------------------------
(* Reading.                                                                *)

(* Any order in which listdir may return directories and their files.      *)
ListingsOf(files) ==
  [dirs : SetToSeqs(DOMAIN files),
   files : {f \in [DOMAIN files ->
                     UNION {SetToSeqs(DOMAIN files[d]) : d \in DOMAIN files}] :
              \A d \in DOMAIN files : ToSet(f[d]) = DOMAIN files[d]}]

NotListed == [dirs |-> <<>>, files |-> <<>>]

(* All words of a sentence, whatever lines they are on.                    *)
WordsOf(sentence) == FlattenSeq(sentence)

(* The sentences of an article: of the first only the last line is kept.   *)
Sentences(dir, file) ==
  [corpus.articles[dir][file] EXCEPT ![1] = <<Last(@)>>]

PartedNever(before, after) == FALSE

(* Where re.sub puts a space: between a stop and a capital next to it.     *)
Parted(before, after) == before \in DOMAIN Spaced /\ after \in Capitals

Respaced(line) ==
  [k \in DOMAIN line |->
     IF k < Len(line) /\ Parted(line[k], line[k + 1]) THEN Spaced[line[k]]
     ELSE line[k]]

(* The sentences of a summary.  The tokenizer cuts between two lines where *)
(* a space was put, and leaves them glued together where none was.         *)
SummarySentences(dir, file) ==
  FoldLeft(LAMBDA out, line :
             IF out # <<>> /\ ~Parted(Last(Last(out)[1]), line[1])
             THEN Append(Front(out), <<Last(out)[1] \o Respaced(line)>>)
             ELSE Append(out, <<Respaced(line)>>),
           <<>>, corpus.summaries[dir][file])

CutRoundedUp(n) == (3 * n + 3) \div 4

Cut(n) == (3 * n) \div 4

FirstPart(files) == SubSeq(files, 1, Cut(Len(files)))

SecondPartOverlapping(files) ==
  SubSeq(files, IF Cut(Len(files)) = 0 THEN 1 ELSE Cut(Len(files)), Len(files))

SecondPart(files) == SubSeq(files, Cut(Len(files)) + 1, Len(files))

(* What a loop over the directories and their files goes through.          *)
Dirs == ToSet(articles.dirs)

InEachDir(part) ==
  FlattenSeq([i \in DOMAIN articles.dirs |-> part[articles.dirs[i]]])

Item(dir, file, ref) == [dir |-> dir, file |-> file, ref |-> ref]

Alone(dir, files) == [i \in DOMAIN files |-> Item(dir, files[i], NoSummary)]

Paired(dir, files, refs) ==
  LET pairs == Zip(files, refs)
  IN  [i \in DOMAIN pairs |-> Item(dir, pairs[i][1], pairs[i][2])]

ToTrain ==
  InEachDir([d \in Dirs |->
    LET files == FirstPart(articles.files[d])
    IN  IF test.summarize
        THEN Paired(d, files, summaries.files[d])
        ELSE Alone(d, files)])

ToTest == InEachDir([d \in Dirs |-> Alone(d, SecondPart(articles.files[d]))])

-----------------------------------------------------------------------------
(* Training.                                                               *)

(* The words of a whole article, or of a sentence.                         *)
ArticleTerms(dir, file) ==
  Terms(FlattenSeq([i \in DOMAIN corpus.articles[dir][file] |->
                      WordsOf(corpus.articles[dir][file][i])]), test)

SentenceTerms(sentence) == Terms(WordsOf(sentence), test)

LearnArticle(item) ==
  Count(model, Labels, item.dir, ArticleTerms(item.dir, item.file))

LearnSentences(item) ==
  LET chosen == ToSet(SummarySentences(item.dir, item.ref))
  IN  FoldLeft(LAMBDA m, sentence :
                 Count(m, Labels, IF sentence \in chosen THEN "yes" ELSE "no",
                       SentenceTerms(sentence)),
               model, Sentences(item.dir, item.file))

(* A key that the dictionaries do not have.                                *)
UnknownClass(dir) == dir \notin ClassSet

-----------------------------------------------------------------------------
NoMatrix == [c \in ClassSet |-> NoCounts(Classes)]

Init ==
  /\ corpus \in Corpora
  /\ variant = 1
  /\ step = "articles"
  /\ articles = NotListed
  /\ summaries = NotListed
  /\ todo = <<>>
  /\ model = Untrained(<<>>)
  /\ trained = {}
  /\ results = <<>>
  /\ conf_matrix = NoMatrix
  /\ tp = 0
  /\ fp = 0
  /\ scored = <<>>

Fail ==
  /\ step' = "failed"
  /\ UNCHANGED <<corpus, variant, listings, todo, learnt, outcome>>

(* The loop over the articles; the title is removed by the summarizer only,*)
(* and an article without a sentence has none to remove it from.           *)
list_articles ==
  /\ step = "articles"
  /\ articles' \in ListingsOf(corpus.articles)
  /\ step' =
       IF ~test.summarize THEN "split"
       ELSE IF \E d \in DOMAIN corpus.articles :
                 \E f \in DOMAIN corpus.articles[d] : corpus.articles[d][f] = <<>>
            THEN "failed"
            ELSE "summaries"
  /\ UNCHANGED <<corpus, variant, summaries, todo, learnt, outcome>>

list_summaries ==
  /\ step = "summaries"
  /\ summaries' \in ListingsOf(corpus.summaries)
  /\ step' = "split"
  /\ UNCHANGED <<corpus, variant, articles, todo, learnt, outcome>>

(* summaries[key] raises KeyError if the directory has no summaries.       *)
split_dataset ==
  /\ step = "split"
  /\ \/ /\ test.summarize /\ ~(Dirs \subseteq ToSet(summaries.dirs))
        /\ Fail
     \/ /\ test.summarize => Dirs \subseteq ToSet(summaries.dirs)
        /\ todo' = ToTrain
        /\ model' = Untrained(Labels)
        /\ step' = "train"
        /\ UNCHANGED <<corpus, variant, listings, trained, outcome>>

train_classifier ==
  /\ step = "train" /\ ~test.summarize /\ todo # <<>>
  /\ LET item == Head(todo)
         fails == UnknownClass(item.dir) /\ ArticleTerms(item.dir, item.file) # <<>>
     IN  \/ fails /\ Fail
         \/ /\ ~fails
            /\ model' = LearnArticle(item)
            /\ trained' = trained \cup {item}
            /\ todo' = Tail(todo)
            /\ UNCHANGED <<corpus, variant, step, listings, outcome>>

train_summarizer ==
  /\ step = "train" /\ test.summarize /\ todo # <<>>
  /\ model' = LearnSentences(Head(todo))
  /\ trained' = trained \cup {Head(todo)}
  /\ todo' = Tail(todo)
  /\ UNCHANGED <<corpus, variant, step, listings, outcome>>

end_training ==
  /\ step = "train" /\ todo = <<>>
  /\ todo' = ToTest
  /\ step' = "test"
  /\ UNCHANGED <<corpus, variant, listings, learnt, outcome>>

EnteredTransposed(matrix, dir, class) == [matrix EXCEPT ![class][dir] = @ + 1]

Entered(matrix, dir, class) == [matrix EXCEPT ![dir][class] = @ + 1]

(* evaluate_classification, one article.                                   *)
classify ==
  /\ step = "test" /\ ~test.summarize /\ todo # <<>>
  /\ LET item == Head(todo)
         terms == ArticleTerms(item.dir, item.file)
         fails == DividesByZero(model, terms) \/ UnknownClass(item.dir)
     IN  \/ fails /\ Fail
         \/ /\ ~fails
            /\ \E c \in predict_class(model, terms, Classes) :
                 /\ conf_matrix' = Entered(conf_matrix, item.dir, c)
                 /\ results' = Append(results, [item |-> item, answer |-> c])
                 /\ IF c = item.dir
                    THEN tp' = tp + 1 /\ UNCHANGED fp
                    ELSE fp' = fp + 1 /\ UNCHANGED tp
            /\ todo' = Tail(todo)
            /\ UNCHANGED <<corpus, variant, step, listings, learnt, scored>>

(* evaluate_summarization, one article: an answer for each sentence.       *)
summarize ==
  /\ step = "test" /\ test.summarize /\ todo # <<>>
  /\ LET item == Head(todo)
         terms == [i \in DOMAIN Sentences(item.dir, item.file) |->
                     SentenceTerms(Sentences(item.dir, item.file)[i])]
         fails == \E i \in DOMAIN terms : DividesByZero(model, terms[i])
     IN  \/ fails /\ Fail
         \/ /\ ~fails
            /\ \E answers \in [DOMAIN terms -> {"yes", "no"}] :
                 /\ \A i \in DOMAIN terms :
                      answers[i] \in predict_sentence_in_sum(model, terms[i])
                 /\ results' = Append(results, [item |-> item, answer |-> answers])
            /\ todo' = Tail(todo)
            /\ UNCHANGED <<corpus, variant, step, listings, learnt,
                           conf_matrix, tp, fp, scored>>

(* Precision over the tested articles, recall over those of each class.    *)
report_classifier ==
  /\ step = "test" /\ ~test.summarize /\ todo = <<>>
  /\ LET fails == \/ tp + fp = 0
                  \/ \E d \in Dirs :
                       UnknownClass(d) \/ \A c \in ClassSet : conf_matrix[d][c] = 0
     IN  \/ fails /\ Fail
         \/ /\ ~fails
            /\ step' = "report"
            /\ UNCHANGED <<corpus, variant, listings, todo, learnt, outcome>>

(* my_summaries[dir], as the files that the summaries are of.              *)
MySummaries(dir) ==
  FoldLeft(LAMBDA mine, r : IF r.item.dir = dir THEN Append(mine, r.item.file)
                            ELSE mine,
           <<>>, results)

TestSummariesUncut(dir) == summaries.files[dir]

TestSummaries(dir) == SecondPart(summaries.files[dir])

(* The scores are averaged over the pairs: there has to be one.            *)
report_summarizer ==
  /\ step = "test" /\ test.summarize /\ todo = <<>>
  /\ LET pairs == InEachDir([d \in Dirs |-> Paired(d, MySummaries(d), TestSummaries(d))])
     IN  \/ pairs = <<>> /\ Fail
         \/ /\ pairs # <<>>
            /\ scored' = pairs
            /\ step' = "report"
            /\ UNCHANGED <<corpus, variant, listings, todo, learnt, results,
                           conf_matrix, tp, fp>>

LastTestPlusOne == Len(Tests) + 1

LastTest == Len(Tests)

(* The test returns, and what it kept in its variables is gone.            *)
next_test ==
  /\ step = "report"
  /\ IF variant = LastTest
     THEN step' = "done" /\ UNCHANGED variant
     ELSE step' = "articles" /\ variant' = variant + 1
  /\ articles' = NotListed /\ summaries' = NotListed
  /\ model' = Untrained(<<>>) /\ trained' = {}
  /\ results' = <<>> /\ scored' = <<>>
  /\ conf_matrix' = NoMatrix /\ tp' = 0 /\ fp' = 0
  /\ UNCHANGED <<corpus, todo>>

(* main has returned or an exception has ended it.                         *)
finished == step \in {"done", "failed"} /\ UNCHANGED vars

Next ==
  \/ list_articles \/ list_summaries \/ split_dataset
  \/ train_classifier \/ train_summarizer \/ end_training
  \/ classify \/ summarize
  \/ report_classifier \/ report_summarizer \/ next_test
  \/ finished

Spec == Init /\ [][Next]_vars

-----------------------------------------------------------------------------
(* Properties.                                                             *)

Items ==
  [dir : DOMAIN corpus.articles,
   file : UNION {DOMAIN corpus.articles[d] : d \in DOMAIN corpus.articles},
   ref : {NoSummary}
           \cup UNION {DOMAIN corpus.summaries[d] : d \in DOMAIN corpus.summaries}]

(* The nine tests run in turn, each with the tables its kind has.          *)
TypeOK ==
  /\ corpus \in Corpora
  /\ variant \in 1..9
  /\ step \in {"articles", "summaries", "split", "train", "test", "report",
               "failed", "done"}
  /\ ToSet(todo) \subseteq Items
  /\ trained \subseteq Items
  /\ ToSet(scored) \subseteq Items
  /\ \A t \in Vocabulary(model) :
       model.vocabulary[t] \in [ToSet(Labels) -> Nat]
  /\ DOMAIN conf_matrix = ClassSet
  /\ \A i \in DOMAIN results : results[i].item \in Items
  /\ tp \in 0..Len(results) /\ fp \in 0..Len(results)

Predicting == step \in {"test", "report"}

(* The label that a text trained on is counted under.                      *)
Belongs(item, i) ==
  IF ~test.summarize THEN item.dir
  ELSE IF Sentences(item.dir, item.file)[i]
            \in ToSet(SummarySentences(item.dir, item.ref))
       THEN "yes" ELSE "no"

(* The label that it should have, by the files: a sentence is in a summary *)
(* when one of its lines is that sentence.                                 *)
RightLabel(item, i) ==
  IF ~test.summarize THEN item.dir
  ELSE IF \E line \in ToSet(corpus.summaries[item.dir][item.ref]) :
            Sentences(item.dir, item.file)[i] = <<line>>
       THEN "yes" ELSE "no"

(* A summary as the comment in test_summarizer has it in mind: every line  *)
(* begins with a capital and ends in a stop, and has no other stop that no *)
(* space follows.                                                          *)
Standard(lines) ==
  \A line \in ToSet(lines) :
    /\ line[1] \in Capitals
    /\ \A k \in DOMAIN line : line[k] \in DOMAIN Spaced <=> k = Len(line)

Sure == {item \in trained : test.summarize =>
                              Standard(corpus.summaries[item.dir][item.ref])}

TextsOf(item) ==
  IF test.summarize
  THEN [i \in DOMAIN Sentences(item.dir, item.file) |->
          SentenceTerms(Sentences(item.dir, item.file)[i])]
  ELSE <<ArticleTerms(item.dir, item.file)>>

(* All places where a term was read: where it is, what it is, its label.   *)
CountedText(item, i, terms, label) ==
  {<<item, i, j, terms[j], label>> : j \in DOMAIN terms}

CountedOf(item) ==
  UNION {CountedText(item, i, TextsOf(item)[i], Belongs(item, i)) :
           i \in DOMAIN TextsOf(item)}

Counted == UNION {CountedOf(item) : item \in trained}

(* Those of which the label that they should have is known.                *)
LabelledOf(item) ==
  UNION {CountedText(item, i, TextsOf(item)[i], RightLabel(item, i)) :
           i \in DOMAIN TextsOf(item)}

Labelled == UNION {LabelledOf(item) : item \in Sure}

TermsIn(counted) == {p[4] : p \in counted}

Occurrences(counted, term, label) ==
  Cardinality({p \in counted : p[4] = term /\ p[5] = label})

(* Once training is over, the vocabulary is that of the texts trained on,  *)
(* the counts of every word, or pair of adjacent words, add up to the      *)
(* places where it was read there, no pair across two sentences, and those *)
(* of a class, or of one side of the summary, are no fewer than the places *)
(* that should be there: of a whole article its class, of a sentence what  *)
(* the lines of the summary say, unless lines of it are glued together.    *)
CountsTrainingOnly ==
  Predicting =>
    LET places == Counted
        sure == Labelled
        labels == ToSet(Labels)
    IN  /\ Vocabulary(model) = TermsIn(places)
        /\ \A t \in Vocabulary(model) :
             /\ MapThenSumSet(LAMBDA l : model.vocabulary[t][l], labels)
                  = Cardinality({p \in places : p[4] = t})
             /\ \A l \in labels :
                  model.vocabulary[t][l] >= Occurrences(sure, t, l)
        /\ MapThenSumSet(LAMBDA l : model.word_cnt[l], labels) = Cardinality(places)
        /\ \A l \in labels :
             model.word_cnt[l] >= Cardinality({p \in sure : p[5] = l})

(* The probability of a text under a label, up to a common factor, as the  *)
(* textbook has it: one is added to the occurrences of every known word,   *)
(* and what is added up over the words is what each is divided by.         *)
Posterior(counted, terms, label) ==
  LET all == MapThenSumSet(LAMBDA t : Occurrences(counted, t, label) + 1,
                           TermsIn(counted))
  IN  Product([i \in DOMAIN terms |->
                 <<Occurrences(counted, terms[i], label) + 1, all>>])

Best(counted, terms, answer) ==
  LET chosen == Posterior(counted, terms, answer)
  IN  \A label \in ToSet(Labels) : ~Above(Posterior(counted, terms, label), chosen)

(* Every prediction is one that no other label is more probable than.      *)
PredictsTheMostProbable ==
  LET counted == Counted
  IN  \A i \in DOMAIN results :
        LET texts == TextsOf(results[i].item)
        IN  IF test.summarize
            THEN \A j \in DOMAIN texts :
                   Best(counted, texts[j], results[i].answer[j])
            ELSE Best(counted, texts[1], results[i].answer)

FilesOf(items) == {<<item.dir, item.file>> : item \in items}
Tested == {results[i].item : i \in DOMAIN results}
AllFiles ==
  UNION {{<<d, f>> : f \in DOMAIN corpus.articles[d]} : d \in DOMAIN corpus.articles}

(* The split is a split: no article is both trained on and predicted, and  *)
(* none predicted twice; and by the time of the report none was left out   *)
(* where each has a summary.                                               *)
NothingTestedWasTrainedOn ==
  /\ FilesOf(trained) \cap FilesOf(Tested) = {}
  /\ Cardinality(FilesOf(Tested)) = Len(results)
  /\ step = "report" /\ (\A d \in DOMAIN corpus.articles : test.summarize =>
                           DOMAIN corpus.summaries[d] = DOMAIN corpus.articles[d])
       => FilesOf(trained) \cup FilesOf(Tested) = AllFiles

(* Articles and summaries are paired by their places in two listings.      *)
(* Where the listings agree, every article is trained on, and compared,    *)
(* with its own summary, and none that was summarised goes uncompared.     *)
ComparedWithOwnSummary ==
  test.summarize /\ step \in {"train", "test", "report"} =>
    \A d \in Dirs : articles.files[d] = summaries.files[d] =>
      /\ \A item \in trained \cup ToSet(scored) :
           item.dir = d => item.ref = item.file
      /\ step = "report" =>
           \A item \in Tested : item.dir = d =>
             \E k \in DOMAIN scored :
               scored[k].dir = d /\ scored[k].file = item.file

(* Each row of the confusion matrix adds up to the articles of that class  *)
(* seen so far, its diagonal to tp, and tp and fp to all of them.          *)
MatrixAddsUp ==
  ~test.summarize =>
    /\ \A c \in ClassSet :
         MapThenSumSet(LAMBDA k : conf_matrix[c][k], ClassSet)
           = Cardinality({i \in DOMAIN results : results[i].item.dir = c})
    /\ tp = MapThenSumSet(LAMBDA c : conf_matrix[c][c], ClassSet)
    /\ tp + fp = Len(results)

Content(word) == Lower[word] \notin OneLetter \cup STOP_WORDS

(* A corpus that gives no reason to fail: known classes, every article     *)
(* with its summary, two in each directory so that there is one to learn   *)
(* from and one to predict, and two words of content in a sentence.        *)
Sound ==
  /\ DOMAIN corpus.articles # {}
  /\ \A d \in DOMAIN corpus.articles :
       /\ d \in ClassSet \cap DOMAIN corpus.summaries
       /\ DOMAIN corpus.summaries[d] = DOMAIN corpus.articles[d]
       /\ Cardinality(DOMAIN corpus.articles[d]) >= 2
       /\ \A f \in DOMAIN corpus.articles[d] :
            corpus.articles[d][f] # <<>> /\
            \E s \in ToSet(Sentences(d, f)) :
              \E i, j \in DOMAIN WordsOf(s) :
                i # j /\ Content(WordsOf(s)[i]) /\ Content(WordsOf(s)[j])

(* Whatever order the directories are listed in, and however rounding goes,*)
(* no test of main raises an exception on a sound corpus: no division by   *)
(* zero in the probabilities, the precision, the recall or the averages,   *)
(* no missing key.  (No other state is a deadlock: all nine tests report.) *)
SoundNeverFails == Sound => step # "failed"
=============================================================================
