-------------------------- MODULE MC_DocSummarizer --------------------------
(* Constants for model-checking the summarizer: small directories.         *)
EXTENDS DocSummarizer

(* Words as they stand in a file, and as they are in lower case.           *)
MCLower ==
  "shares" :> "shares" @@ "share" :> "share" @@ "rose" :> "rose"
  @@ "Shares" :> "shares" @@ "Film" :> "film" @@ "The" :> "the"
  @@ "Rose" :> "rose" @@ "x" :> "x" @@ "a" :> "a" @@ "S. " :> "s"
  @@ "rose." :> "rose" @@ "film." :> "film" @@ "won." :> "won"
  @@ "film?" :> "film" @@ "U." :> "u"
  @@ "rose. " :> "rose" @@ "film. " :> "film" @@ "won. " :> "won" @@ "U. " :> "u"

MCCapitals == {"Shares", "Film", "The", "Rose", "U.", "U. ", "S. "}
MCSpaced == "rose." :> "rose. " @@ "film." :> "film. " @@ "won." :> "won. "
            @@ "U." :> "U. "

LowerCase == {MCLower[w] : w \in DOMAIN MCLower}
MCLemma == [w \in LowerCase |-> IF w = "shares" THEN "share" ELSE w]
MCStopWords == {"the", "a"}
MCOneLetter == {"a", "x", "s", "u"}
MCClasses == <<"business", "sport", "tech">>

(* Lines and articles to choose from.                                      *)
Title == <<"Shares">>
SharesRose == <<"Shares", "rose.">>
TheFilm == <<"The", "film?">>      \* ends in no stop
FilmWon == <<"Film", "won.">>
RoseWon == <<"Rose", "won.">>
xRose == <<"x", "rose.">>          \* begins with no capital
USRose == <<"U.", "S. ", "rose.">> \* has a stop next to a capital
A == <<"a">>

Article(title, first, second) == << <<title, first>>, <<second>> >>

(* Two classes, every article with its summary; of b3 and t2 the summaries *)
(* are glued together.                                                     *)
MCSound ==
  [articles |->
     "business" :> [b1 |-> Article(Title, SharesRose, FilmWon),
                    b2 |-> Article(A, RoseWon, SharesRose),
                    b3 |-> Article(Title, SharesRose, xRose)]
     @@ "tech" :> [t1 |-> Article(A, FilmWon, RoseWon),
                   t2 |-> Article(A, TheFilm, SharesRose)],
   summaries |->
     "business" :> [b1 |-> <<SharesRose>>,
                    b2 |-> <<RoseWon, SharesRose>>,
                    b3 |-> <<SharesRose, xRose>>]
     @@ "tech" :> [t1 |-> <<FilmWon>>, t2 |-> <<TheFilm, SharesRose>>]]

(* Four articles of one class; titles that are sentences of their own, and *)
(* a summary that re.sub changes within a line.                            *)
MCFour ==
  [articles |->
     "tech" :> [t1 |-> << <<FilmWon>>, <<RoseWon>> >>,
                t2 |-> << <<RoseWon>>, <<FilmWon>> >>,
                t3 |-> << <<A, FilmWon>> >>,
                t4 |-> << <<SharesRose>>, <<USRose>> >>],
   summaries |->
     "tech" :> [t1 |-> <<RoseWon>>, t2 |-> <<FilmWon>>,
                t3 |-> <<FilmWon>>, t4 |-> <<USRose>>]]

Two(d) == d :> [f1 |-> Article(A, SharesRose, FilmWon),
                f2 |-> Article(A, RoseWon, SharesRose)]
TwoSummaries(d) == d :> [f1 |-> <<FilmWon>>, f2 |-> <<SharesRose>>]

(* What may be wrong with a corpus.                                        *)
NoSuchClass == [articles |-> Two("music"), summaries |-> TwoSummaries("music")]
SummariesMissing == [articles |-> Two("tech"), summaries |-> <<>>]
NoSummaries == [articles |-> Two("tech"), summaries |-> "tech" :> <<>>]
NoWords ==
  [articles |-> "tech" :> [f1 |-> << <<<<>>>> >>, f2 |-> << <<<<>>>> >>],
   summaries |-> "tech" :> <<>>]
OneSummaryMissing ==
  [articles |-> Two("tech"), summaries |-> "tech" :> [f1 |-> <<FilmWon>>]]
EmptyDirectory ==
  [articles |-> Two("tech") @@ "sport" :> <<>>,
   summaries |-> TwoSummaries("tech") @@ "sport" :> <<>>]
OneArticle ==
  [articles |-> "tech" :> [f1 |-> Article(A, SharesRose, FilmWon)],
   summaries |-> "tech" :> [f1 |-> <<FilmWon>>]]
EmptyArticle ==
  [articles |-> "tech" :> [f1 |-> <<>>, f2 |-> Article(A, SharesRose, FilmWon)],
   summaries |-> TwoSummaries("tech")]
StopWordsOnly ==
  [articles |-> "tech" :> [f1 |-> << <<A>> >>, f2 |-> << <<A>> >>],
   summaries |-> TwoSummaries("tech")]

MCCorpora ==
  {MCSound, MCFour, NoSuchClass, SummariesMissing, NoSummaries, NoWords,
   OneSummaryMissing, EmptyDirectory, OneArticle, EmptyArticle, StopWordsOnly}
=============================================================================
