------------------------- MODULE DocSummarizerProofs -------------------------
(* What holds of the summarizer for every corpus, whatever the order its   *)
(* directories are listed in: the split and the pairing of articles with   *)
(* summaries; the sums of the confusion matrix; what is counted, and what  *)
(* is predicted from it; the types; and that nothing fails without reason. *)
EXTENDS DocSummarizer, LibraryLemmas

(* Reading the directories.                                                *)
LEMMA ListingTyped ==
  ASSUME NEW c \in Corpora, NEW files \in {c.articles, c.summaries},
         NEW l \in ListingsOf(files)
  PROVE  /\ Enumerates(l.dirs, DOMAIN files)
         /\ ToSet(l.dirs) = DOMAIN files
         /\ \A d \in DOMAIN files : Enumerates(l.files[d], DOMAIN files[d])
<1>1. IsFiniteSet(DOMAIN files) /\ \A d \in DOMAIN files : IsFiniteSet(DOMAIN files[d])
  BY CorporaAssumption
<1>2. l.dirs \in SetToSeqs(DOMAIN files)
  BY DEF ListingsOf
<1>3. Enumerates(l.dirs, DOMAIN files)
  BY <1>1, <1>2, SeqsOfSet
<1>4. ToSet(l.dirs) = DOMAIN files
  <2>1. PICK s : s = l.dirs
    OBVIOUS
  <2>2. \A i \in DOMAIN s : s[i] \in DOMAIN files
    BY <1>3, <2>1 DEF Enumerates
  <2>3. \A x \in DOMAIN files : \E i \in DOMAIN s : s[i] = x
    BY <1>3, <2>1 DEF Enumerates
  <2>4. {s[i] : i \in DOMAIN s} = DOMAIN files
    BY <2>2, <2>3
  <2> QED BY <2>1, <2>4 DEF ToSet
<1>5. ASSUME NEW d \in DOMAIN files
      PROVE  Enumerates(l.files[d], DOMAIN files[d])
  <2>1. /\ l.files[d] \in UNION {SetToSeqs(DOMAIN files[e]) : e \in DOMAIN files}
        /\ ToSet(l.files[d]) = DOMAIN files[d]
    BY DEF ListingsOf
  <2>2. PICK e \in DOMAIN files : l.files[d] \in SetToSeqs(DOMAIN files[e])
    BY <2>1
  <2>3. Enumerates(l.files[d], DOMAIN files[e])
    BY <1>1, <2>2, SeqsOfSet
  <2>4. PICK s : s = l.files[d]
    OBVIOUS
  <2>5. s \in Seq(DOMAIN files[e]) /\ \A i, j \in DOMAIN s : s[i] = s[j] => i = j
    BY <2>3, <2>4 DEF Enumerates
  <2>6. {s[i] : i \in DOMAIN s} = DOMAIN files[d]
    BY <2>1, <2>4 DEF ToSet
  <2>7. s \in Seq(DOMAIN files[d])
    <3>1. \A i \in DOMAIN s : s[i] \in DOMAIN files[d]
      BY <2>6
    <3>2. Len(s) \in Nat /\ DOMAIN s = 1..Len(s) /\ s = [i \in 1..Len(s) |-> s[i]]
      BY <2>5
    <3> QED BY <3>1, <3>2
  <2>8. \A x \in DOMAIN files[d] : \E i \in DOMAIN s : s[i] = x
    BY <2>6
  <2> QED BY <2>4, <2>5, <2>7, <2>8 DEF Enumerates
<1> QED BY <1>3, <1>4, <1>5

(* A loop over the directories takes each part as a whole: at[d] is where  *)
(* that of the directory d begins.                                         *)
Placed(s, part, at, D) ==
  /\ \A d \in D : at[d] \in Nat /\ at[d] + Len(part[d]) <= Len(s)
  /\ \A d \in D : \A k \in DOMAIN part[d] :
       at[d] + k \in DOMAIN s /\ s[at[d] + k] = part[d][k]
  /\ \A m \in DOMAIN s : \E d \in D : \E k \in DOMAIN part[d] : m = at[d] + k

LEMMA EachDirPlaced ==
  ASSUME NEW T, NEW part \in [Dirs -> Seq(T)], Enumerates(articles.dirs, Dirs)
  PROVE  /\ InEachDir(part) \in Seq(T)
         /\ \E at : Placed(InEachDir(part), part, at, Dirs)
<1> DEFINE dirs == articles.dirs
           ss == [i \in DOMAIN dirs |-> part[dirs[i]]]
<1>1. /\ Len(dirs) \in Nat /\ DOMAIN dirs = 1..Len(dirs)
      /\ \A i \in DOMAIN dirs : dirs[i] \in Dirs
  BY DEF Enumerates
<1>2. ss \in Seq(Seq(T)) /\ Len(ss) = Len(dirs)
  BY <1>1
<1>3. InEachDir(part) = FlattenSeq(ss)
  BY DEF InEachDir
<1>4. \A i \in DOMAIN dirs : ss[i] = part[dirs[i]]
  OBVIOUS
<1>5. \A d \in Dirs : \E i \in DOMAIN dirs : dirs[i] = d
  BY DEF Enumerates
<1> DEFINE place == [d \in Dirs |-> CHOOSE i \in DOMAIN dirs : dirs[i] = d]
<1>6. \A d \in Dirs : place[d] \in DOMAIN dirs /\ dirs[place[d]] = d
  BY <1>5
<1>7. \A i \in DOMAIN dirs : place[dirs[i]] = i
  BY <1>1, <1>6 DEF Enumerates
<1> HIDE DEF ss, dirs, place
<1>8. PICK s : s = FlattenSeq(ss)
  OBVIOUS
<1>9. s \in Seq(T)
  BY <1>2, <1>8, Flattened
<1>10. PICK from : Concatenates(s, ss, from, Len(ss))
  BY <1>2, <1>8, Flattened
<1> DEFINE at == [d \in Dirs |-> from[place[d]]]
<1>11. Placed(s, part, at, Dirs)
  <2>1. \A d \in Dirs : place[d] \in 1..Len(ss) /\ ss[place[d]] = part[d]
    BY <1>1, <1>2, <1>4, <1>6
  <2>2. \A d \in Dirs : at[d] \in Nat /\ at[d] + Len(part[d]) <= Len(s)
    BY <1>10, <2>1 DEF Concatenates
  <2>3. \A d \in Dirs : \A k \in DOMAIN part[d] :
          at[d] + k \in DOMAIN s /\ s[at[d] + k] = part[d][k]
    BY <1>10, <2>1 DEF Concatenates
  <2>4. ASSUME NEW m \in DOMAIN s
        PROVE  \E d \in Dirs : \E k \in DOMAIN part[d] : m = at[d] + k
    <3>1. PICK i \in 1..Len(ss) : \E k \in DOMAIN ss[i] : m = from[i] + k
      BY <1>10 DEF Concatenates
    <3>2. i \in DOMAIN dirs
      BY <1>1, <1>2
    <3>3. dirs[i] \in Dirs /\ part[dirs[i]] = ss[i] /\ at[dirs[i]] = from[i]
      BY <1>1, <1>4, <1>7, <3>2
    <3> HIDE DEF at
    <3> QED BY <3>1, <3>3
  <2> HIDE DEF at
  <2> QED BY <2>2, <2>3, <2>4 DEF Placed
<1> HIDE DEF at
<1> QED BY <1>3, <1>8, <1>9, <1>11

LEMMA Parts ==
  ASSUME NEW T, NEW s \in Seq(T)
  PROVE  /\ Cut(Len(s)) \in 0..Len(s)
         /\ FirstPart(s) \in Seq(T) /\ Len(FirstPart(s)) = Cut(Len(s))
         /\ \A k \in 1..Cut(Len(s)) : FirstPart(s)[k] = s[k]
         /\ SecondPart(s) \in Seq(T) /\ Len(SecondPart(s)) = Len(s) - Cut(Len(s))
         /\ \A k \in 1..(Len(s) - Cut(Len(s))) :
              SecondPart(s)[k] = s[Cut(Len(s)) + k]
<1>1. Len(s) \in Nat /\ DOMAIN s = 1..Len(s)
  OBVIOUS
<1>2. Cut(Len(s)) \in 0..Len(s)
  BY <1>1 DEF Cut
<1>3. PICK c \in 0..Len(s) : c = Cut(Len(s))
  BY <1>2
<1>4. /\ SubSeq(s, 1, c) \in Seq(T) /\ Len(SubSeq(s, 1, c)) = c
      /\ \A k \in 1..c : SubSeq(s, 1, c)[k] = s[k]
  BY <1>1
<1>5. /\ SubSeq(s, c + 1, Len(s)) \in Seq(T)
      /\ Len(SubSeq(s, c + 1, Len(s))) = Len(s) - c
      /\ \A k \in 1..(Len(s) - c) : SubSeq(s, c + 1, Len(s))[k] = s[c + k]
  <2>1. c + 1 \in 1..(Len(s) + 1) /\ Len(s) \in ((c + 1) - 1)..Len(s)
    BY <1>1
  <2>2. /\ SubSeq(s, c + 1, Len(s)) \in Seq(T)
        /\ Len(SubSeq(s, c + 1, Len(s))) = Len(s) - (c + 1) + 1
        /\ \A i \in 1..(Len(s) - (c + 1) + 1) :
             SubSeq(s, c + 1, Len(s))[i] = s[(c + 1) + i - 1]
    BY <2>1, SubSeqProperties
  <2>3. \A k \in 1..(Len(s) - c) : (c + 1) + k - 1 = c + k
    OBVIOUS
  <2>4. Len(s) - (c + 1) + 1 = Len(s) - c
    BY <1>1
  <2> QED BY <2>2, <2>3, <2>4
<1> QED BY <1>2, <1>3, <1>4, <1>5 DEF FirstPart, SecondPart

(* While a test trains and predicts both listings stand.                   *)
Listed ==
  /\ corpus \in Corpora
  /\ articles \in ListingsOf(corpus.articles)
  /\ test.summarize => /\ summaries \in ListingsOf(corpus.summaries)
                       /\ Dirs \subseteq ToSet(summaries.dirs)

LEMMA ListedFiles ==
  ASSUME Listed
  PROVE  /\ Dirs = DOMAIN corpus.articles
         /\ Enumerates(articles.dirs, Dirs)
         /\ \A d \in Dirs : Enumerates(articles.files[d], DOMAIN corpus.articles[d])
         /\ test.summarize =>
              \A d \in Dirs :
                /\ d \in DOMAIN corpus.summaries
                /\ Enumerates(summaries.files[d], DOMAIN corpus.summaries[d])
<1>1. /\ ToSet(articles.dirs) = DOMAIN corpus.articles
      /\ Enumerates(articles.dirs, DOMAIN corpus.articles)
      /\ \A d \in DOMAIN corpus.articles :
           Enumerates(articles.files[d], DOMAIN corpus.articles[d])
  BY ListingTyped DEF Listed
<1>2. Dirs = DOMAIN corpus.articles
  BY <1>1 DEF Dirs
<1>3. ASSUME test.summarize, NEW d \in Dirs
      PROVE  /\ d \in DOMAIN corpus.summaries
             /\ Enumerates(summaries.files[d], DOMAIN corpus.summaries[d])
  <2>1. /\ ToSet(summaries.dirs) = DOMAIN corpus.summaries
        /\ \A e \in DOMAIN corpus.summaries :
             Enumerates(summaries.files[e], DOMAIN corpus.summaries[e])
    BY <1>3, ListingTyped DEF Listed
  <2> QED BY <1>3, <2>1 DEF Listed
<1> QED BY <1>1, <1>2, <1>3

TrainPart ==
  [d \in Dirs |->
     LET files == FirstPart(articles.files[d])
     IN  IF test.summarize
         THEN Paired(d, files, summaries.files[d])
         ELSE Alone(d, files)]

TestPart == [d \in Dirs |-> Alone(d, SecondPart(articles.files[d]))]

Shorter(m, n) == IF m <= n THEN m ELSE n

LEMMA PairedTyped ==
  ASSUME Listed, test.summarize, NEW d \in Dirs,
         NEW s \in Seq(DOMAIN corpus.articles[d]),
         NEW t \in Seq(DOMAIN corpus.summaries[d])
  PROVE  /\ Paired(d, s, t) \in Seq(Items)
         /\ Len(Paired(d, s, t)) = Shorter(Len(s), Len(t))
         /\ \A k \in 1..Shorter(Len(s), Len(t)) :
              Paired(d, s, t)[k] = [dir |-> d, file |-> s[k], ref |-> t[k]]
<1>1. d \in DOMAIN corpus.articles /\ d \in DOMAIN corpus.summaries
  BY ListedFiles
<1>2. PICK n : n = Shorter(Len(s), Len(t))
  OBVIOUS
<1>3. n \in Nat /\ n <= Len(s) /\ n <= Len(t)
  BY <1>2 DEF Shorter
<1>4. \A k \in 1..n : s[k] \in DOMAIN corpus.articles[d] /\ t[k] \in DOMAIN corpus.summaries[d]
  BY <1>3
<1>5. Zip(s, t) = [i \in 1..n |-> <<s[i], t[i]>>]
  BY <1>2 DEF Zip, Shorter
<1>6. Paired(d, s, t) = [k \in 1..n |-> [dir |-> d, file |-> s[k], ref |-> t[k]]]
  BY <1>5 DEF Paired, Item
<1>7. ASSUME NEW k \in 1..n
      PROVE  [dir |-> d, file |-> s[k], ref |-> t[k]] \in Items
  BY <1>1, <1>4 DEF Items
<1>8. Paired(d, s, t) \in Seq(Items) /\ Len(Paired(d, s, t)) = n
  BY <1>3, <1>6, <1>7
<1> QED BY <1>2, <1>6, <1>8

LEMMA AloneTyped ==
  ASSUME Listed, NEW d \in Dirs, NEW s \in Seq(DOMAIN corpus.articles[d])
  PROVE  /\ Alone(d, s) \in Seq(Items) /\ Len(Alone(d, s)) = Len(s)
         /\ \A k \in 1..Len(s) :
              Alone(d, s)[k] = [dir |-> d, file |-> s[k], ref |-> NoSummary]
<1>1. d \in DOMAIN corpus.articles
  BY ListedFiles
<1>2. Len(s) \in Nat /\ DOMAIN s = 1..Len(s)
  OBVIOUS
<1>3. Alone(d, s) = [k \in 1..Len(s) |-> [dir |-> d, file |-> s[k], ref |-> NoSummary]]
  BY <1>2 DEF Alone, Item
<1>4. ASSUME NEW k \in 1..Len(s)
      PROVE  [dir |-> d, file |-> s[k], ref |-> NoSummary] \in Items
  <2>1. s[k] \in DOMAIN corpus.articles[d]
    BY <1>2
  <2>2. s[k] \in UNION {DOMAIN corpus.articles[e] : e \in DOMAIN corpus.articles}
    BY <1>1, <2>1
  <2> QED BY <1>1, <2>2 DEF Items
<1> QED BY <1>2, <1>3, <1>4

(* What is trained on: of the first part of each directory, as many as     *)
(* there are summaries for.                                                *)
TrainedOn(d, k, item) ==
  /\ k \in 1..Cut(Len(articles.files[d]))
  /\ item = [dir |-> d, file |-> articles.files[d][k],
             ref |-> IF test.summarize THEN summaries.files[d][k] ELSE NoSummary]
  /\ test.summarize => k <= Len(summaries.files[d])

LEMMA TrainPartIs ==
  ASSUME Listed, NEW d \in Dirs
  PROVE  /\ TrainPart[d] \in Seq(Items)
         /\ \A k, item : TrainedOn(d, k, item) <=>
              k \in DOMAIN TrainPart[d] /\ item = TrainPart[d][k]
<1>1. PICK f : f = articles.files[d]
  OBVIOUS
<1>2. f \in Seq(DOMAIN corpus.articles[d])
  BY <1>1, ListedFiles DEF Enumerates
<1>3. /\ Cut(Len(f)) \in 0..Len(f) /\ FirstPart(f) \in Seq(DOMAIN corpus.articles[d])
      /\ Len(FirstPart(f)) = Cut(Len(f))
      /\ \A k \in 1..Cut(Len(f)) : FirstPart(f)[k] = f[k]
  BY <1>2, Parts
<1>4. CASE test.summarize
  <2>1. PICK g : g = summaries.files[d]
    OBVIOUS
  <2>2. g \in Seq(DOMAIN corpus.summaries[d]) /\ Len(g) \in Nat
    BY <1>4, <2>1, ListedFiles DEF Enumerates
  <2>3. TrainPart[d] = Paired(d, FirstPart(f), g)
    BY <1>1, <1>4, <2>1 DEF TrainPart
  <2>4. PICK p : p = FirstPart(f)
    OBVIOUS
  <2>5. /\ Paired(d, p, g) \in Seq(Items)
        /\ Len(Paired(d, p, g)) = Shorter(Len(p), Len(g))
        /\ \A k \in 1..Shorter(Len(p), Len(g)) :
             Paired(d, p, g)[k] = [dir |-> d, file |-> p[k], ref |-> g[k]]
    BY <1>3, <1>4, <2>2, <2>4, PairedTyped
  <2>6. \A k : k \in 1..Shorter(Len(p), Len(g)) <=> k \in 1..Cut(Len(f)) /\ k <= Len(g)
    BY <1>2, <1>3, <2>2, <2>4 DEF Shorter
  <2>7. DOMAIN Paired(d, p, g) = 1..Shorter(Len(p), Len(g))
    BY <2>5
  <2>8. \A k, item : TrainedOn(d, k, item) <=>
          /\ k \in 1..Cut(Len(f)) /\ k <= Len(g)
          /\ item = [dir |-> d, file |-> f[k], ref |-> g[k]]
    BY <1>1, <1>4, <2>1 DEF TrainedOn
  <2> QED BY <1>3, <2>3, <2>4, <2>5, <2>6, <2>7, <2>8
<1>5. CASE ~test.summarize
  <2>1. PICK p : p = FirstPart(f)
    OBVIOUS
  <2>2. TrainPart[d] = Alone(d, p)
    BY <1>1, <1>5, <2>1 DEF TrainPart
  <2>3. /\ Alone(d, p) \in Seq(Items) /\ Len(Alone(d, p)) = Len(p)
        /\ \A k \in 1..Len(p) :
             Alone(d, p)[k] = [dir |-> d, file |-> p[k], ref |-> NoSummary]
    BY <1>3, <2>1, AloneTyped
  <2>4. DOMAIN Alone(d, p) = 1..Cut(Len(f))
    BY <1>3, <2>1, <2>3
  <2>5. \A k, item : TrainedOn(d, k, item) <=>
          /\ k \in 1..Cut(Len(f))
          /\ item = [dir |-> d, file |-> f[k], ref |-> NoSummary]
    BY <1>1, <1>5 DEF TrainedOn
  <2>6. \A k \in 1..Cut(Len(f)) :
          Alone(d, p)[k] = [dir |-> d, file |-> f[k], ref |-> NoSummary]
    BY <1>3, <2>1, <2>3
  <2> QED BY <2>2, <2>3, <2>4, <2>5, <2>6
<1> QED BY <1>4, <1>5

LEMMA ToTrainIs ==
  ASSUME Listed
  PROVE  /\ ToTrain \in Seq(Items)
         /\ \A item : item \in ToSet(ToTrain) <=>
              \E d \in Dirs : \E k : TrainedOn(d, k, item)
<1>1. TrainPart \in [Dirs -> Seq(Items)]
  <2>1. \A d \in Dirs : TrainPart[d] \in Seq(Items)
    BY TrainPartIs
  <2> QED BY <2>1 DEF TrainPart
<1>2. ToTrain = InEachDir(TrainPart)
  BY DEF ToTrain, TrainPart
<1>3. PICK s : s = ToTrain
  OBVIOUS
<1>4. s \in Seq(Items) /\ \E at : Placed(s, TrainPart, at, Dirs)
  BY <1>1, <1>2, <1>3, ListedFiles, EachDirPlaced
<1>5. PICK at : Placed(s, TrainPart, at, Dirs)
  BY <1>4
<1>6. \A item : (\E m \in DOMAIN s : s[m] = item)
        <=> \E d \in Dirs : \E k \in DOMAIN TrainPart[d] : item = TrainPart[d][k]
  BY <1>5 DEF Placed
<1>7. \A item : item \in ToSet(s) <=> \E m \in DOMAIN s : s[m] = item
  BY DEF ToSet
<1>8. \A d \in Dirs : \A item :
        (\E k \in DOMAIN TrainPart[d] : item = TrainPart[d][k])
          <=> \E k : TrainedOn(d, k, item)
  BY TrainPartIs
<1>9. \A item : item \in ToSet(s) <=> \E d \in Dirs : \E k : TrainedOn(d, k, item)
  <2> SUFFICES ASSUME NEW item
               PROVE  item \in ToSet(s) <=> \E d \in Dirs : \E k : TrainedOn(d, k, item)
    OBVIOUS
  <2>1. item \in ToSet(s)
          <=> \E d \in Dirs : \E k \in DOMAIN TrainPart[d] : item = TrainPart[d][k]
    BY <1>6, <1>7
  <2>2. \A d \in Dirs : (\E k \in DOMAIN TrainPart[d] : item = TrainPart[d][k])
          <=> \E k : TrainedOn(d, k, item)
    BY <1>8
  <2> QED BY <2>1, <2>2, Zenon
<1> QED BY <1>3, <1>4, <1>9

LEMMA TestPartIs ==
  ASSUME Listed, NEW d \in Dirs
  PROVE  /\ TestPart[d] \in Seq(Items)
         /\ Len(articles.files[d]) \in Nat
         /\ Cut(Len(articles.files[d])) \in 0..Len(articles.files[d])
         /\ DOMAIN TestPart[d]
              = 1..(Len(articles.files[d]) - Cut(Len(articles.files[d])))
         /\ \A k \in DOMAIN TestPart[d] :
              TestPart[d][k] = [dir |-> d, ref |-> NoSummary,
                file |-> articles.files[d][Cut(Len(articles.files[d])) + k]]
<1>1. PICK f : f = articles.files[d]
  OBVIOUS
<1>2. f \in Seq(DOMAIN corpus.articles[d])
  BY <1>1, ListedFiles DEF Enumerates
<1>3. PICK p : p = SecondPart(f)
  OBVIOUS
<1>4. /\ Cut(Len(f)) \in 0..Len(f) /\ p \in Seq(DOMAIN corpus.articles[d])
      /\ Len(p) = Len(f) - Cut(Len(f))
      /\ \A k \in 1..(Len(f) - Cut(Len(f))) : p[k] = f[Cut(Len(f)) + k]
  BY <1>2, <1>3, Parts
<1>5. /\ Alone(d, p) \in Seq(Items) /\ Len(Alone(d, p)) = Len(p)
      /\ \A k \in 1..Len(p) :
           Alone(d, p)[k] = [dir |-> d, file |-> p[k], ref |-> NoSummary]
  BY <1>4, AloneTyped
<1>6. TestPart[d] = Alone(d, p)
  BY <1>1, <1>3 DEF TestPart
<1>7. DOMAIN Alone(d, p) = 1..(Len(f) - Cut(Len(f)))
  BY <1>4, <1>5
<1> QED BY <1>1, <1>2, <1>4, <1>5, <1>6, <1>7

LEMMA ToTestIs ==
  ASSUME Listed
  PROVE  /\ ToTest \in Seq(Items)
         /\ \E at : Placed(ToTest, TestPart, at, Dirs)
<1>1. TestPart \in [Dirs -> Seq(Items)]
  <2>1. \A d \in Dirs : TestPart[d] \in Seq(Items)
    BY TestPartIs
  <2> QED BY <2>1 DEF TestPart
<1>2. ToTest = InEachDir(TestPart)
  BY DEF ToTest, TestPart
<1> QED BY <1>1, <1>2, ListedFiles, EachDirPlaced

(* my_summaries[d], as it grows.                                           *)
Appended(h, d) ==
  /\ h[0] = <<>>
  /\ \A i \in 1..Len(results) :
       h[i] = IF results[i].item.dir = d
              THEN Append(h[i - 1], results[i].item.file) ELSE h[i - 1]

LEMMA MySummariesGrow ==
  ASSUME NEW R, results \in Seq(R), NEW d
  PROVE  \E h : Appended(h, d) /\ MySummaries(d) = h[Len(results)]
<1>1. PICK n \in Nat : n = Len(results)
  OBVIOUS
<1>2. DOMAIN results = 1..n
  BY <1>1
<1> DEFINE F == {results[i].item.file : i \in 1..n}
           pick == [T \in SUBSET (1..n) |-> Max(T)]
           put == [i \in 1..n |-> [v \in Seq(F) |->
                      IF results[i].item.dir = d
                      THEN Append(v, results[i].item.file) ELSE v]]
           Fold(g) == [T \in SUBSET (1..n) |->
                         IF T = {} THEN <<>>
                         ELSE IF results[Max(T)].item.dir = d
                              THEN Append(g[T \ {Max(T)}], results[Max(T)].item.file)
                              ELSE g[T \ {Max(T)}]]
           G == CHOOSE g : g = Fold(g)
<1>3. IsFiniteSet(1..n) /\ <<>> \in Seq(F)
  BY FS_Interval
<1>4. \A T \in SUBSET (1..n) : T # {} => pick[T] = Max(T) /\ pick[T] \in T
  BY MaxPlace
<1>5. put \in [1..n -> [Seq(F) -> Seq(F)]]
  <2>1. \A i \in 1..n : results[i].item.file \in F
    OBVIOUS
  <2> HIDE DEF F
  <2>2. \A i \in 1..n : \A v \in Seq(F) : Append(v, results[i].item.file) \in Seq(F)
    BY <2>1
  <2> QED BY <2>2
<1>6. \A i \in 1..n : \A v \in Seq(F) :
        put[i][v] = IF results[i].item.dir = d
                     THEN Append(v, results[i].item.file) ELSE v
  <2> HIDE DEF F
  <2> SUFFICES ASSUME NEW i \in 1..n, NEW v \in Seq(F)
               PROVE  put[i][v] = IF results[i].item.dir = d
                                   THEN Append(v, results[i].item.file) ELSE v
    BY Zenon
  <2> QED OBVIOUS
<1> HIDE DEF pick, put, F
<1>7. PICK g \in [SUBSET (1..n) -> Seq(F)] : FoldsSet(g, <<>>, put, pick, 1..n)
  BY <1>3, <1>4, <1>5, FoldExists
<1>8. \A T \in SUBSET (1..n) : g[T] = Fold(g)[T]
  <2> SUFFICES ASSUME NEW T \in SUBSET (1..n) PROVE g[T] = Fold(g)[T]
    OBVIOUS
  <2>1. CASE T = {}
    BY <1>7, <2>1 DEF FoldsSet
  <2>2. CASE T # {}
    <3>1. g[T] = put[Max(T)][g[T \ {Max(T)}]] /\ Max(T) \in 1..n
      BY <1>4, <1>7, <2>2 DEF FoldsSet
    <3>2. g[T \ {Max(T)}] \in Seq(F)
      BY <1>7
    <3> QED BY <1>6, <2>2, <3>1, <3>2
  <2> QED BY <2>1, <2>2
<1>9. g = Fold(g)
  BY <1>7, <1>8
<1>10. G = Fold(G)
  BY <1>9
<1>11. MySummaries(d) = G[1..n]
  BY <1>2 DEF MySummaries, FoldLeft, MapThenFoldSet
<1> HIDE DEF G
<1> DEFINE h == [i \in 0..n |-> G[1..i]]
<1>12. h[0] = <<>>
  <2>1. 1..0 = {} /\ {} \in SUBSET (1..n) /\ 0 \in 0..n
    OBVIOUS
  <2>2. G[{}] = <<>>
    BY <1>10, <2>1
  <2> QED BY <2>1, <2>2
<1>13. ASSUME NEW i \in 1..n
       PROVE  h[i] = IF results[i].item.dir = d
                     THEN Append(h[i - 1], results[i].item.file) ELSE h[i - 1]
  <2>1. /\ 1..i \in SUBSET (1..n) /\ 1..i # {}
        /\ Max(1..i) = i /\ (1..i) \ {i} = 1..(i - 1)
    BY MaxUpto
  <2>2. G[1..i] = IF results[i].item.dir = d
                  THEN Append(G[1..(i - 1)], results[i].item.file) ELSE G[1..(i - 1)]
    BY <1>10, <2>1
  <2>3. i \in 0..n /\ i - 1 \in 0..n
    OBVIOUS
  <2> QED BY <2>2, <2>3
<1>14. n \in 0..n /\ h[n] = G[1..n]
  OBVIOUS
<1> HIDE DEF h
<1> QED BY <1>1, <1>11, <1>12, <1>13, <1>14 DEF Appended

(* Every tested article has been predicted, in the order of the test set.  *)
Predicted ==
  /\ Len(results) = Len(ToTest)
  /\ \A i \in DOMAIN results : results[i].item = ToTest[i]

LEMMA MySummariesComplete ==
  ASSUME NEW R, results \in Seq(R), Listed, Predicted, NEW d \in Dirs
  PROVE  MySummaries(d) = SecondPart(articles.files[d])
<1>1. PICK f : f = articles.files[d]
  OBVIOUS
<1>2. PICK F : f \in Seq(F)
  BY <1>1, ListedFiles DEF Enumerates
<1>3. PICK p : p = SecondPart(f)
  OBVIOUS
<1>4. PICK c \in 0..Len(f) : c = Cut(Len(f))
  BY <1>2, Parts
<1>5. /\ Len(f) \in Nat /\ p \in Seq(F) /\ Len(p) = Len(f) - c
      /\ \A k \in 1..(Len(f) - c) : p[k] = f[c + k]
  <2>1. Len(f) \in Nat
    BY <1>2
  <2>2. p \in Seq(F) /\ Len(p) = Len(f) - c
    BY <1>2, <1>3, <1>4, Parts
  <2>3. \A k \in 1..(Len(f) - c) : p[k] = f[c + k]
    BY <1>2, <1>3, <1>4, Parts
  <2> QED BY <2>1, <2>2, <2>3
<1>6. PICK L \in Nat : L = Len(p)
  BY <1>5
<1>7. /\ DOMAIN TestPart[d] = 1..L
      /\ \A k \in 1..L : TestPart[d][k].dir = d /\ TestPart[d][k].file = p[k]
  <2>1. /\ DOMAIN TestPart[d] = 1..(Len(f) - c)
        /\ \A k \in DOMAIN TestPart[d] :
             TestPart[d][k] = [dir |-> d, ref |-> NoSummary, file |-> f[c + k]]
    BY <1>1, <1>4, TestPartIs
  <2>2. DOMAIN TestPart[d] = 1..L
    BY <1>5, <1>6, <2>1
  <2>3. \A k \in 1..L : p[k] = f[c + k]
    BY <1>5, <1>6
  <2>4. ASSUME NEW k \in 1..L
        PROVE  TestPart[d][k].dir = d /\ TestPart[d][k].file = p[k]
    <3>1. TestPart[d][k] = [dir |-> d, ref |-> NoSummary, file |-> f[c + k]]
      BY <2>1, <2>2
    <3> QED BY <2>3, <3>1
  <2> QED BY <2>2, <2>4
<1>8. PICK at : Placed(ToTest, TestPart, at, Dirs)
  BY ToTestIs
<1>9. PICK a \in Nat : a = at[d]
  BY <1>8 DEF Placed
<1>10. PICK n \in Nat : n = Len(results)
  OBVIOUS
<1>11. /\ DOMAIN results = 1..n /\ DOMAIN ToTest = 1..n /\ a + L <= n
  <2>1. DOMAIN results = 1..n
    BY <1>10
  <2>2. ToTest \in Seq(Items) /\ Len(ToTest) = n
    BY <1>10, ToTestIs DEF Predicted
  <2>3. DOMAIN ToTest = 1..n
    BY <2>2
  <2>4. at[d] + Len(TestPart[d]) <= Len(ToTest)
    BY <1>8 DEF Placed
  <2>5. TestPart[d] \in Seq(Items)
    BY TestPartIs
  <2>6. Len(TestPart[d]) = L
    BY <1>6, <1>7, <2>5
  <2> QED BY <1>9, <2>1, <2>2, <2>3, <2>4, <2>6
<1>12. \A k \in 1..L : /\ a + k \in 1..n
                       /\ results[a + k].item.dir = d
                       /\ results[a + k].item.file = p[k]
  <2> SUFFICES ASSUME NEW k \in 1..L
               PROVE  /\ a + k \in 1..n
                      /\ results[a + k].item.dir = d
                      /\ results[a + k].item.file = p[k]
    OBVIOUS
  <2>1. a + k \in DOMAIN ToTest /\ ToTest[a + k] = TestPart[d][k]
    BY <1>7, <1>8, <1>9 DEF Placed
  <2>2. results[a + k].item = ToTest[a + k]
    BY <1>11, <2>1 DEF Predicted
  <2> QED BY <1>7, <1>11, <2>1, <2>2
<1>13. ASSUME NEW i \in 1..n, results[i].item.dir = d
       PROVE  a < i /\ i <= a + L
  <2>1. results[i].item = ToTest[i] /\ i \in DOMAIN ToTest
    BY <1>11 DEF Predicted
  <2>2. PICK e \in Dirs : \E k \in DOMAIN TestPart[e] : i = at[e] + k
    BY <1>8, <2>1 DEF Placed
  <2>3. PICK k \in DOMAIN TestPart[e] : i = at[e] + k
    BY <2>2
  <2>4. ToTest[i] = TestPart[e][k]
    BY <1>8, <2>3 DEF Placed
  <2>5. TestPart[e][k].dir = e
    <3>1. PICK g : TestPart[e][k] = [dir |-> e, ref |-> NoSummary, file |-> g]
      BY <2>3, TestPartIs
    <3> QED BY <3>1
  <2>6. e = d
    BY <1>13, <2>1, <2>4, <2>5
  <2> QED BY <1>7, <1>9, <2>3, <2>6
<1>14. PICK h : Appended(h, d) /\ MySummaries(d) = h[n]
  BY <1>10, MySummariesGrow
<1> DEFINE Done(i) == IF i <= a THEN 0 ELSE IF i <= a + L THEN i - a ELSE L
           Good(i) == /\ h[i] \in Seq(F) /\ Len(h[i]) = Done(i)
                      /\ \A k \in 1..Done(i) : h[i][k] = p[k]
           Fails == {i \in 0..n : ~Good(i)}
<1>15. Good(0)
  BY <1>14 DEF Appended
<1>16. ASSUME NEW i \in 1..n, Good(i - 1)
       PROVE  Good(i)
  <2>1. PICK v : v = h[i - 1]
    OBVIOUS
  <2>2. /\ v \in Seq(F) /\ Len(v) = Done(i - 1)
        /\ \A k \in 1..Done(i - 1) : v[k] = p[k]
    BY <1>16, <2>1
  <2>3. h[i] = IF results[i].item.dir = d
               THEN Append(v, results[i].item.file) ELSE v
    BY <1>10, <1>14, <2>1 DEF Appended
  <2>4. CASE results[i].item.dir = d
    <3>1. a < i /\ i <= a + L
      BY <1>13, <2>4
    <3>2. i - a \in 1..L /\ a + (i - a) = i
      BY <3>1
    <3>3. results[i].item.file = p[i - a]
      BY <1>12, <3>2
    <3>4. h[i] = Append(v, p[i - a])
      BY <2>3, <2>4, <3>3
    <3>5. p[i - a] \in F
      BY <1>5, <1>6, <3>2
    <3>6. Done(i - 1) = (i - a) - 1 /\ Done(i) = i - a
      BY <3>1
    <3>7. Len(v) = (i - a) - 1
      BY <2>2, <3>6
    <3>8. /\ Append(v, p[i - a]) \in Seq(F) /\ Len(Append(v, p[i - a])) = i - a
          /\ \A k \in 1..(i - a) :
               Append(v, p[i - a])[k] = IF k = i - a THEN p[i - a] ELSE v[k]
      BY <2>2, <3>2, <3>5, <3>7
    <3>9. \A k \in 1..(i - a) : k = i - a \/ k \in 1..Done(i - 1)
      BY <3>2, <3>6
    <3> HIDE DEF Done
    <3>10. \A k \in 1..(i - a) : h[i][k] = p[k]
      BY <2>2, <3>4, <3>8, <3>9
    <3> QED BY <3>4, <3>6, <3>8, <3>10
  <2>5. CASE results[i].item.dir # d
    <3>1. ~(a < i /\ i <= a + L)
      <4> SUFFICES ASSUME a < i, i <= a + L PROVE FALSE
        OBVIOUS
      <4>1. i - a \in 1..L /\ a + (i - a) = i
        OBVIOUS
      <4> QED BY <1>12, <2>5, <4>1
    <3>2. Done(i) = Done(i - 1)
      BY <3>1
    <3>3. h[i] = v
      BY <2>3, <2>5
    <3> HIDE DEF Done
    <3> QED BY <2>2, <3>2, <3>3
  <2> QED BY <2>4, <2>5
<1> HIDE DEF Good
<1>17. Fails = {}
  <2> SUFFICES ASSUME Fails # {} PROVE FALSE
    OBVIOUS
  <2>1. Fails \in SUBSET Nat
    OBVIOUS
  <2>2. PICK i \in Fails : \A k \in Fails : i <= k
    BY <2>1, LeastNumber
  <2>3. i \in 0..n /\ ~Good(i)
    BY <2>2
  <2>4. i # 0
    BY <1>15, <2>3
  <2>5. i \in 1..n /\ i - 1 \in 0..n /\ ~(i <= i - 1)
    BY <2>3, <2>4
  <2>6. Good(i - 1)
    BY <2>2, <2>5
  <2> QED BY <1>16, <2>3, <2>5, <2>6
<1>18. Good(n)
  <2>1. n \in 0..n
    OBVIOUS
  <2> QED BY <1>17, <2>1
<1>19. Done(n) = L
  BY <1>11
<1>20. /\ h[n] \in Seq(F) /\ Len(h[n]) = L /\ \A k \in 1..L : h[n][k] = p[k]
  BY <1>18, <1>19 DEF Good
<1>21. h[n] = p
  <2>1. PICK q : q = h[n]
    OBVIOUS
  <2>2. q \in Seq(F) /\ Len(q) = L /\ \A k \in 1..L : q[k] = p[k]
    BY <1>20, <2>1
  <2>3. q = p
    BY <1>5, <1>6, <2>2, SeqEqual
  <2> QED BY <2>1, <2>3
<1> QED BY <1>1, <1>3, <1>14, <1>21

-----------------------------------------------------------------------------
(* Where a test is, and what it has gone through by then.                  *)

Fresh == trained = {} /\ results = <<>> /\ scored = <<>>

Training ==
  /\ todo \in Seq(Items)
  /\ trained \cup ToSet(todo) = ToSet(ToTrain)
  /\ results = <<>> /\ scored = <<>>

(* The first results are those of the first articles of the test set.      *)
PredictedSoFar ==
  /\ results \in Seq(ToSet(results))
  /\ Len(results) <= Len(ToTest)
  /\ \A i \in DOMAIN results : results[i].item = ToTest[i]

Testing ==
  /\ PredictedSoFar
  /\ todo \in Seq(Items)
  /\ Len(results) + Len(todo) = Len(ToTest)
  /\ \A j \in DOMAIN todo : todo[j] = ToTest[Len(results) + j]
  /\ trained = ToSet(ToTrain) /\ scored = <<>>

ScorePart == [d \in Dirs |-> Paired(d, MySummaries(d), TestSummaries(d))]

Reporting ==
  /\ PredictedSoFar /\ Predicted
  /\ trained = ToSet(ToTrain)
  /\ scored = IF test.summarize THEN InEachDir(ScorePart) ELSE <<>>

Failed ==
  \/ Fresh
  \/ /\ Listed /\ PredictedSoFar
     /\ trained \subseteq ToSet(ToTrain) /\ scored = <<>>

Split ==
  /\ corpus \in Corpora
  /\ step \in {"articles", "summaries", "split", "train", "test", "report",
               "failed", "done"}
  /\ step \in {"articles", "summaries", "split", "done"} => Fresh
  /\ step \in {"summaries", "split"} => articles \in ListingsOf(corpus.articles)
  /\ step = "split" /\ test.summarize => summaries \in ListingsOf(corpus.summaries)
  /\ step \in {"train", "test", "report"} => Listed
  /\ step = "train" => Training
  /\ step = "test" => Testing
  /\ step = "report" => Reporting
  /\ step = "failed" => Failed

(* What a step that stays within a test leaves as it is.                   *)
LEMMA WithinTest ==
  ASSUME UNCHANGED <<corpus, variant, listings>>
  PROVE  /\ corpus' = corpus /\ test' = test /\ Labels' = Labels
         /\ Dirs' = Dirs /\ Listed' = Listed /\ Items' = Items
         /\ ToTrain' = ToTrain /\ ToTest' = ToTest
<1>1. /\ corpus' = corpus /\ variant' = variant
      /\ articles' = articles /\ summaries' = summaries
  BY DEF listings
<1>2. test' = test /\ Dirs' = Dirs /\ Items' = Items
  BY <1>1 DEF test, Dirs, Items
<1>3. Listed' = Listed
  BY <1>1, <1>2 DEF Listed
<1>4. ToTrain' = ToTrain
  BY <1>1, <1>2 DEF ToTrain, InEachDir
<1>5. ToTest' = ToTest
  BY <1>1, <1>2 DEF ToTest, InEachDir
<1>6. Labels' = Labels
  BY <1>1, <1>2 DEF Labels
<1> QED BY <1>1, <1>2, <1>3, <1>4, <1>5, <1>6

LEMMA FailsFresh ==
  ASSUME Split, Fail, Fresh
  PROVE  Split'
<1>1. /\ corpus' = corpus /\ step' = "failed"
      /\ trained' = trained /\ results' = results /\ scored' = scored
  BY DEF Fail, learnt, outcome
<1>2. Failed'
  BY <1>1 DEF Failed, Fresh
<1> QED BY <1>1, <1>2 DEF Split

LEMMA FailsInTest ==
  ASSUME Split, Fail, Listed, PredictedSoFar,
         trained \subseteq ToSet(ToTrain), scored = <<>>
  PROVE  Split'
<1>1. /\ UNCHANGED <<corpus, variant, listings>> /\ step' = "failed"
      /\ trained' = trained /\ results' = results /\ scored' = scored
  BY DEF Fail, learnt, outcome
<1>2. corpus' = corpus /\ Listed' = Listed /\ ToTrain' = ToTrain /\ ToTest' = ToTest
  BY <1>1, WithinTest
<1>3. PredictedSoFar'
  BY <1>1, <1>2 DEF PredictedSoFar
<1>4. Failed'
  BY <1>1, <1>2, <1>3 DEF Failed
<1> QED BY <1>1, <1>2, <1>4 DEF Split

LEMMA NothingPredicted ==
  ASSUME Listed, results = <<>>
  PROVE  PredictedSoFar
<1>1. Len(ToTest) \in Nat
  BY ToTestIs
<1> QED BY <1>1 DEF PredictedSoFar

LEMMA ListingKeepsSplit ==
  ASSUME Split, list_articles \/ list_summaries
  PROVE  Split'
<1>1. /\ corpus' = corpus /\ trained' = trained
      /\ results' = results /\ scored' = scored /\ test' = test
  BY DEF list_articles, list_summaries, learnt, outcome, test
<1>2. Fresh'
  BY <1>1 DEF Split, Fresh, list_articles, list_summaries
<1>3. CASE list_articles
  <2>1. /\ articles' \in ListingsOf(corpus'.articles)
        /\ step' \in {"split", "failed", "summaries"}
        /\ step' = "split" => ~test'.summarize
    BY <1>1, <1>3 DEF list_articles
  <2> QED BY <1>1, <1>2, <2>1 DEF Split, Failed
<1>4. CASE list_summaries
  <2>1. /\ articles' = articles /\ step' = "split" /\ step = "summaries"
        /\ summaries' \in ListingsOf(corpus'.summaries)
    BY <1>1, <1>4 DEF list_summaries
  <2>2. articles' \in ListingsOf(corpus'.articles)
    BY <1>1, <2>1 DEF Split
  <2> QED BY <1>1, <1>2, <2>1, <2>2 DEF Split
<1> QED BY <1>3, <1>4

LEMMA SplittingKeepsSplit ==
  ASSUME Split, split_dataset
  PROVE  Split'
<1>1. step = "split" /\ Fresh
  BY DEF split_dataset, Split
<1>2. CASE Fail
  BY <1>1, <1>2, FailsFresh
<1>3. CASE /\ test.summarize => Dirs \subseteq ToSet(summaries.dirs)
           /\ todo' = ToTrain /\ step' = "train"
           /\ UNCHANGED <<corpus, variant, listings, trained, outcome>>
  <2>1. Listed
    BY <1>1, <1>3 DEF Split, Listed
  <2>2. /\ UNCHANGED <<corpus, variant, listings>> /\ trained' = {}
        /\ results' = <<>> /\ scored' = <<>>
    BY <1>1, <1>3 DEF Fresh, outcome
  <2>3. corpus' = corpus /\ Listed' = Listed /\ Items' = Items /\ ToTrain' = ToTrain
    BY <2>2, WithinTest
  <2>4. todo' \in Seq(Items') /\ ToSet(todo') = ToSet(ToTrain')
    BY <1>3, <2>1, <2>3, ToTrainIs
  <2>5. (ToSet(todo))' = ToSet(todo') /\ (ToSet(ToTrain))' = ToSet(ToTrain')
    BY DEF ToSet
  <2>6. Training'
    BY <2>2, <2>4, <2>5 DEF Training
  <2> QED BY <1>3, <2>1, <2>3, <2>6 DEF Split
<1> QED BY <1>2, <1>3 DEF split_dataset

LEMMA TrainingKeepsSplit ==
  ASSUME Split, train_classifier \/ train_summarizer
  PROVE  Split'
<1>1. step = "train" /\ Listed /\ Training /\ todo # <<>>
  BY DEF train_classifier, train_summarizer, Split
<1>2. CASE Fail
  <2>1. PredictedSoFar
    BY <1>1, NothingPredicted DEF Training
  <2>2. trained \subseteq ToSet(ToTrain) /\ scored = <<>>
    BY <1>1 DEF Training
  <2> QED BY <1>1, <1>2, <2>1, <2>2, FailsInTest
<1>3. CASE /\ trained' = trained \cup {Head(todo)}
           /\ todo' = Tail(todo)
           /\ UNCHANGED <<corpus, variant, step, listings, outcome>>
  <2>1. /\ UNCHANGED <<corpus, variant, listings>> /\ step' = "train"
        /\ results' = <<>> /\ scored' = <<>>
    BY <1>1, <1>3 DEF Training, outcome
  <2>2. corpus' = corpus /\ Listed' = Listed /\ Items' = Items /\ ToTrain' = ToTrain
    BY <2>1, WithinTest
  <2>3. /\ Tail(todo) \in Seq(Items)
        /\ ToSet(todo) = {Head(todo)} \cup ToSet(Tail(todo))
    BY <1>1, HeadAndTail DEF Training
  <2>4. trained' \cup ToSet(todo') = ToSet(ToTrain')
    BY <1>1, <1>3, <2>2, <2>3 DEF Training
  <2>5. Training'
    BY <1>3, <2>1, <2>2, <2>3, <2>4 DEF Training
  <2> QED BY <1>1, <2>1, <2>2, <2>5 DEF Split
<1> QED BY <1>2, <1>3 DEF train_classifier, train_summarizer

LEMMA EndTrainingKeepsSplit ==
  ASSUME Split, end_training
  PROVE  Split'
<1>1. /\ step = "train" /\ Listed /\ Training /\ todo = <<>>
      /\ todo' = ToTest /\ step' = "test"
      /\ UNCHANGED <<corpus, variant, listings>> /\ trained' = trained
      /\ results' = <<>> /\ scored' = <<>>
  BY DEF end_training, Split, Training, learnt, outcome
<1>2. /\ corpus' = corpus /\ Listed' = Listed /\ Items' = Items
      /\ ToTrain' = ToTrain /\ ToTest' = ToTest
  BY <1>1, WithinTest
<1>3. ToTest \in Seq(Items) /\ Len(ToTest) \in Nat
  BY <1>1, ToTestIs
<1>4. trained' = ToSet(ToTrain')
  <2>1. ToSet(todo) = {}
    BY <1>1 DEF ToSet
  <2> QED BY <1>1, <1>2, <2>1 DEF Training
<1>5. PredictedSoFar'
  <2>1. results' \in Seq(ToSet(results')) /\ Len(results') = 0 /\ DOMAIN results' = {}
    BY <1>1
  <2> QED BY <1>2, <1>3, <2>1 DEF PredictedSoFar
<1>6. Testing'
  <2>1. todo' \in Seq(Items')
    BY <1>1, <1>2, <1>3
  <2>2. Len(results') = 0
    BY <1>1
  <2>3. Len(results') + Len(todo') = Len(ToTest')
    BY <1>1, <1>2, <1>3, <2>2
  <2>4. \A j \in DOMAIN todo' : todo'[j] = ToTest'[Len(results') + j]
    <3>1. PICK s \in Seq(Items) : s = ToTest
      BY <1>3
    <3>2. \A j \in DOMAIN s : s[j] = s[0 + j]
      OBVIOUS
    <3> QED BY <1>1, <1>2, <2>2, <3>1, <3>2
  <2> QED BY <1>1, <1>4, <1>5, <2>1, <2>3, <2>4 DEF Testing
<1> QED BY <1>1, <1>2, <1>6 DEF Split

LEMMA TestingKeepsSplit ==
  ASSUME Split, classify \/ summarize
  PROVE  Split'
<1>1. step = "test" /\ Listed /\ Testing /\ PredictedSoFar /\ todo # <<>>
  BY DEF classify, summarize, Split, Testing
<1>2. CASE Fail
  BY <1>1, <1>2, FailsInTest DEF Testing
<1>3. CASE /\ \E answer : results' = Append(results, [item |-> Head(todo), answer |-> answer])
           /\ todo' = Tail(todo)
           /\ UNCHANGED <<corpus, variant, step, listings, learnt, scored>>
  <2>1. PICK x : results' = Append(results, x) /\ x.item = Head(todo)
    <3>1. PICK answer : results' = Append(results, [item |-> Head(todo), answer |-> answer])
      BY <1>3
    <3> QED BY <3>1
  <2>2. /\ UNCHANGED <<corpus, variant, listings>> /\ step' = "test"
        /\ trained' = trained /\ scored' = <<>>
    BY <1>1, <1>3 DEF Testing, learnt
  <2>3. /\ corpus' = corpus /\ Listed' = Listed /\ Items' = Items
        /\ ToTrain' = ToTrain /\ ToTest' = ToTest
    BY <2>2, WithinTest
  <2>4. PICK R : results \in Seq(R) /\ x \in R
    <3>1. results \in Seq(ToSet(results) \cup {x})
      BY <1>1, SeqMonotonic DEF PredictedSoFar
    <3> QED BY <3>1
  <2>5. PICK n \in Nat : n = Len(results)
    BY <2>4
  <2>6. /\ results' \in Seq(R) /\ Len(results') = n + 1
        /\ \A i \in 1..n : results'[i] = results[i]
        /\ results'[n + 1] = x
    BY <2>1, <2>4, <2>5
  <2>7. /\ Tail(todo) \in Seq(Items) /\ Len(Tail(todo)) = Len(todo) - 1
        /\ Head(todo) = todo[1] /\ 1 \in DOMAIN todo
        /\ \A i \in DOMAIN Tail(todo) : i + 1 \in DOMAIN todo /\ Tail(todo)[i] = todo[i + 1]
    BY <1>1, HeadAndTail DEF Testing
  <2>8. /\ Len(todo) \in Nat /\ Len(todo) > 0 /\ n + Len(todo) = Len(ToTest)
    BY <1>1, <2>5, EmptySeq DEF Testing
  <2>9. x.item = ToTest[n + 1]
    BY <1>1, <2>1, <2>5, <2>7 DEF Testing
  <2>10. \A i \in DOMAIN results' : results'[i].item = ToTest[i]
    <3> SUFFICES ASSUME NEW i \in DOMAIN results'
                 PROVE  results'[i].item = ToTest[i]
      OBVIOUS
    <3>1. i \in 1..(n + 1)
      BY <2>6
    <3>2. CASE i = n + 1
      BY <2>6, <2>9, <3>2
    <3>3. CASE i # n + 1
      <4>1. i \in 1..n /\ i \in DOMAIN results
        BY <2>4, <2>5, <3>1, <3>3
      <4>2. results[i].item = ToTest[i]
        BY <1>1, <4>1 DEF PredictedSoFar
      <4> QED BY <2>6, <4>1, <4>2
    <3> QED BY <3>2, <3>3
  <2>11. results' \in Seq(ToSet(results'))
    <3>1. PICK s \in Seq(R) : s = results'
      BY <2>6
    <3>2. s \in Seq({s[i] : i \in DOMAIN s})
      OBVIOUS
    <3> QED BY <3>1, <3>2 DEF ToSet
  <2>12. Len(results') <= Len(ToTest)
    BY <2>6, <2>8
  <2>13. PredictedSoFar'
    BY <2>3, <2>10, <2>11, <2>12 DEF PredictedSoFar
  <2>14. Len(results') + Len(todo') = Len(ToTest')
    <3>1. PICK m \in Nat : m = Len(todo)
      BY <2>8
    <3>2. Len(todo') = m - 1 /\ Len(results') = n + 1 /\ Len(ToTest') = n + m
      BY <1>3, <2>3, <2>6, <2>7, <2>8, <3>1
    <3> QED BY <3>2
  <2>15. \A j \in DOMAIN todo' : todo'[j] = ToTest'[Len(results') + j]
    <3> SUFFICES ASSUME NEW j \in DOMAIN Tail(todo)
                 PROVE  Tail(todo)[j] = ToTest[(n + 1) + j]
      BY <1>3, <2>3, <2>6
    <3>1. j \in Nat
      BY <2>7
    <3>2. Tail(todo)[j] = todo[j + 1] /\ todo[j + 1] = ToTest[n + (j + 1)]
      BY <1>1, <2>5, <2>7 DEF Testing
    <3>3. n + (j + 1) = (n + 1) + j
      BY <3>1
    <3> QED BY <3>2, <3>3
  <2>16. trained' = ToSet(ToTrain')
    BY <1>1, <2>2, <2>3 DEF Testing
  <2>17. todo' \in Seq(Items')
    BY <1>3, <2>3, <2>7
  <2>18. Testing'
    BY <2>2, <2>13, <2>14, <2>15, <2>16, <2>17 DEF Testing
  <2> QED BY <1>1, <2>2, <2>3, <2>18 DEF Split
<1>4. CASE classify /\ ~Fail
  BY <1>4, <1>3 DEF classify
<1>5. CASE summarize /\ ~Fail
  BY <1>5, <1>3 DEF summarize
<1> QED BY <1>2, <1>4, <1>5

LEMMA SamePairs ==
  ASSUME Dirs' = Dirs, articles' = articles, summaries' = summaries, results' = results
  PROVE  (InEachDir(ScorePart))' = InEachDir(ScorePart)
<1>1. \A d : (MySummaries(d))' = MySummaries(d)
  BY DEF MySummaries, FoldLeft, MapThenFoldSet
<1>2. \A d : (TestSummaries(d))' = TestSummaries(d)
  BY DEF TestSummaries
<1>3. ScorePart' = ScorePart
  BY <1>1, <1>2 DEF ScorePart
<1> QED BY <1>3 DEF InEachDir

LEMMA ReportingKeepsSplit ==
  ASSUME Split, report_classifier \/ report_summarizer
  PROVE  Split'
<1>1. /\ step = "test" /\ Listed /\ Testing /\ PredictedSoFar /\ todo = <<>>
      /\ trained = ToSet(ToTrain) /\ scored = <<>>
  BY DEF report_classifier, report_summarizer, Split, Testing
<1>2. CASE Fail
  BY <1>1, <1>2, FailsInTest
<1>3. CASE /\ step' = "report"
           /\ scored' = IF test.summarize THEN InEachDir(ScorePart) ELSE <<>>
           /\ UNCHANGED <<corpus, variant, listings, learnt, results>>
  <2>1. /\ UNCHANGED <<corpus, variant, listings>>
        /\ trained' = trained /\ results' = results
    BY <1>3 DEF learnt
  <2>2. /\ corpus' = corpus /\ Listed' = Listed /\ test' = test /\ Dirs' = Dirs
        /\ ToTrain' = ToTrain /\ ToTest' = ToTest
    BY <2>1, WithinTest
  <2>3. PredictedSoFar' /\ Predicted'
    <3>1. Len(todo) = 0
      BY <1>1
    <3>2. Len(results) = Len(ToTest)
      BY <1>1, <3>1 DEF Testing, PredictedSoFar
    <3> QED BY <1>1, <2>1, <2>2, <3>2 DEF PredictedSoFar, Predicted
  <2>4. (InEachDir(ScorePart))' = InEachDir(ScorePart)
    <3>1. articles' = articles /\ summaries' = summaries
      BY <1>3 DEF listings
    <3> QED BY <2>1, <2>2, <3>1, SamePairs
  <2>5. scored' = IF test'.summarize THEN (InEachDir(ScorePart))' ELSE <<>>
    BY <1>3, <2>2, <2>4
  <2>6. Reporting'
    BY <1>1, <2>1, <2>2, <2>3, <2>5 DEF Reporting
  <2> QED BY <1>1, <1>3, <2>2, <2>6 DEF Split
<1>4. CASE report_classifier /\ ~Fail
  <2>1. scored' = <<>> /\ ~test.summarize
    BY <1>1, <1>4 DEF report_classifier, outcome
  <2> QED BY <1>3, <1>4, <2>1 DEF report_classifier, outcome
<1>5. CASE report_summarizer /\ ~Fail
  BY <1>3, <1>5 DEF report_summarizer, ScorePart
<1> QED BY <1>2, <1>4, <1>5

LEMMA SplitStep == Split /\ [Next]_vars => Split'
<1> SUFFICES ASSUME Split, [Next]_vars PROVE Split'
  OBVIOUS
<1>1. CASE list_articles \/ list_summaries
  BY <1>1, ListingKeepsSplit
<1>2. CASE split_dataset
  BY <1>2, SplittingKeepsSplit
<1>3. CASE train_classifier \/ train_summarizer
  BY <1>3, TrainingKeepsSplit
<1>4. CASE end_training
  BY <1>4, EndTrainingKeepsSplit
<1>5. CASE classify \/ summarize
  BY <1>5, TestingKeepsSplit
<1>6. CASE report_classifier \/ report_summarizer
  BY <1>6, ReportingKeepsSplit
<1>7. CASE next_test
  <2>1. /\ corpus' = corpus /\ step' \in {"articles", "done"} /\ Fresh'
    BY <1>7 DEF next_test, Fresh
  <2> QED BY <2>1 DEF Split
<1>8. CASE finished \/ UNCHANGED vars
  <2>1. /\ UNCHANGED <<corpus, variant, listings>> /\ step' = step /\ todo' = todo
        /\ trained' = trained /\ results' = results /\ scored' = scored
    BY <1>8 DEF finished, vars, learnt, outcome
  <2>2. /\ corpus' = corpus /\ Listed' = Listed /\ test' = test /\ Dirs' = Dirs
        /\ Items' = Items /\ ToTrain' = ToTrain /\ ToTest' = ToTest
        /\ articles' = articles /\ summaries' = summaries
    BY <2>1, WithinTest DEF listings
  <2>3. Fresh' = Fresh
    BY <2>1 DEF Fresh
  <2>4. Training' = Training
    BY <2>1, <2>2 DEF Training
  <2>5. PredictedSoFar' = PredictedSoFar /\ Predicted' = Predicted
    BY <2>1, <2>2 DEF PredictedSoFar, Predicted
  <2>6. Testing' = Testing
    BY <2>1, <2>2, <2>5 DEF Testing
  <2>7. (InEachDir(ScorePart))' = InEachDir(ScorePart)
    BY <2>1, <2>2, SamePairs
  <2>8. Reporting' = Reporting
    BY <2>1, <2>2, <2>5, <2>7 DEF Reporting
  <2>9. Failed' = Failed
    BY <2>1, <2>2, <2>3, <2>5 DEF Failed
  <2> QED BY <2>1, <2>2, <2>3, <2>4, <2>6, <2>8, <2>9 DEF Split
<1> QED BY <1>1, <1>2, <1>3, <1>4, <1>5, <1>6, <1>7, <1>8 DEF Next

LEMMA SplitInit == Init => Split
BY DEF Init, Split, Fresh

-----------------------------------------------------------------------------
(* What follows.                                                           *)

(* Where in its directory the article of a result is.                      *)
TestedAt(i, d, k) ==
  /\ d \in Dirs
  /\ Cut(Len(articles.files[d])) \in 0..Len(articles.files[d])
  /\ k \in (Cut(Len(articles.files[d])) + 1)..Len(articles.files[d])
  /\ results[i].item = [dir |-> d, file |-> articles.files[d][k], ref |-> NoSummary]

LEMMA TestedSomewhere ==
  ASSUME Listed, PredictedSoFar, NEW i \in DOMAIN results
  PROVE  \E d, k : TestedAt(i, d, k)
<1>1. i \in DOMAIN ToTest /\ results[i].item = ToTest[i]
  BY ToTestIs DEF PredictedSoFar
<1>2. PICK at : Placed(ToTest, TestPart, at, Dirs)
  BY ToTestIs
<1>3. PICK d \in Dirs : \E k \in DOMAIN TestPart[d] : i = at[d] + k
  BY <1>1, <1>2 DEF Placed
<1>4. PICK k \in DOMAIN TestPart[d] : i = at[d] + k
  BY <1>3
<1>5. ToTest[i] = TestPart[d][k]
  BY <1>2, <1>4 DEF Placed
<1>6. PICK n \in Nat : n = Len(articles.files[d])
  BY TestPartIs
<1>7. PICK c \in 0..n : c = Cut(Len(articles.files[d]))
  BY <1>6, TestPartIs
<1>8. /\ DOMAIN TestPart[d] = 1..(n - c)
      /\ TestPart[d][k] = [dir |-> d, ref |-> NoSummary, file |-> articles.files[d][c + k]]
  BY <1>6, <1>7, TestPartIs
<1>9. c + k \in (c + 1)..n
  BY <1>4, <1>8
<1> QED BY <1>1, <1>5, <1>6, <1>7, <1>8, <1>9 DEF TestedAt

(* Results of the same article are the same result.                        *)
LEMMA TestedOnce ==
  ASSUME Listed, PredictedSoFar, NEW i \in DOMAIN results, NEW j \in DOMAIN results,
         results[i].item.dir = results[j].item.dir,
         results[i].item.file = results[j].item.file
  PROVE  i = j
<1>1. /\ i \in DOMAIN ToTest /\ results[i].item = ToTest[i]
      /\ j \in DOMAIN ToTest /\ results[j].item = ToTest[j]
  BY ToTestIs DEF PredictedSoFar
<1>2. PICK at : Placed(ToTest, TestPart, at, Dirs)
  BY ToTestIs
<1>3. PICK d \in Dirs : \E k \in DOMAIN TestPart[d] : i = at[d] + k
  BY <1>1, <1>2 DEF Placed
<1>3a. PICK k \in DOMAIN TestPart[d] : i = at[d] + k
  BY <1>3
<1>4. PICK e \in Dirs : \E l \in DOMAIN TestPart[e] : j = at[e] + l
  BY <1>1, <1>2 DEF Placed
<1>4a. PICK l \in DOMAIN TestPart[e] : j = at[e] + l
  BY <1>4
<1>5. ToTest[i] = TestPart[d][k] /\ ToTest[j] = TestPart[e][l]
  BY <1>2, <1>3a, <1>4a DEF Placed
<1>6. PICK f : f = articles.files[d]
  OBVIOUS
<1>7. PICK c \in 0..Len(f) : c = Cut(Len(f))
  BY <1>6, TestPartIs
<1>8. /\ TestPart[d][k] = [dir |-> d, ref |-> NoSummary, file |-> f[c + k]]
      /\ DOMAIN TestPart[d] = 1..(Len(f) - c) /\ Len(f) \in Nat
  BY <1>6, <1>7, TestPartIs
<1>9. PICK g : TestPart[e][l] = [dir |-> e, ref |-> NoSummary, file |-> g]
  BY TestPartIs
<1>10. d = e
  BY <1>1, <1>5, <1>8, <1>9
<1>11. TestPart[d][l] = [dir |-> d, ref |-> NoSummary, file |-> f[c + l]]
  BY <1>6, <1>7, <1>10, TestPartIs
<1>12. f[c + k] = f[c + l]
  BY <1>1, <1>5, <1>8, <1>10, <1>11
<1>13. c + k \in DOMAIN f /\ c + l \in DOMAIN f
  <2>1. DOMAIN f = 1..Len(f)
    BY <1>6, ListedFiles DEF Enumerates
  <2> QED BY <1>7, <1>8, <1>10, <2>1
<1>14. c + k = c + l
  BY <1>6, <1>12, <1>13, ListedFiles DEF Enumerates
<1>15. k = l
  BY <1>7, <1>8, <1>10, <1>14
<1> QED BY <1>3a, <1>4a, <1>10, <1>15

LEMMA TestedNotTrained ==
  ASSUME Listed, PredictedSoFar, trained \subseteq ToSet(ToTrain)
  PROVE  FilesOf(trained) \cap FilesOf(Tested) = {}
<1> SUFFICES ASSUME NEW item \in trained, NEW i \in DOMAIN results,
                    item.dir = results[i].item.dir, item.file = results[i].item.file
             PROVE  FALSE
  BY DEF FilesOf, Tested
<1>1. PICK d, k : TestedAt(i, d, k)
  BY TestedSomewhere
<1>2. PICK e \in Dirs : \E l : TrainedOn(e, l, item)
  BY ToTrainIs
<1>3. PICK l : TrainedOn(e, l, item)
  BY <1>2
<1>4. item.dir = e /\ results[i].item.dir = d
  BY <1>1, <1>3 DEF TestedAt, TrainedOn
<1>5. PICK f : f = articles.files[d]
  OBVIOUS
<1>6. item.file = f[l] /\ results[i].item.file = f[k]
  BY <1>1, <1>3, <1>4, <1>5 DEF TestedAt, TrainedOn
<1>7. PICK c : c = Cut(Len(f))
  OBVIOUS
<1>8. /\ DOMAIN f = 1..Len(f) /\ Len(f) \in Nat /\ c \in 0..Len(f)
      /\ l \in 1..c /\ k \in (c + 1)..Len(f) /\ d \in Dirs
  <2>1. d \in Dirs /\ k \in (c + 1)..Len(f) /\ c \in 0..Len(f)
    BY <1>1, <1>5, <1>7 DEF TestedAt
  <2>2. l \in 1..c
    BY <1>1, <1>3, <1>4, <1>5, <1>7 DEF TrainedOn
  <2>3. f \in Seq(DOMAIN corpus.articles[d])
    BY <1>5, <2>1, ListedFiles DEF Enumerates
  <2> QED BY <2>1, <2>2, <2>3
<1>9. l \in DOMAIN f /\ k \in DOMAIN f /\ l # k
  BY <1>8
<1>10. \A x, y \in DOMAIN f : f[x] = f[y] => x = y
  BY <1>5, <1>8, ListedFiles DEF Enumerates
<1>11. f[l] = f[k]
  BY <1>6
<1> QED BY <1>9, <1>10, <1>11

LEMMA TestedCount ==
  ASSUME Listed, PredictedSoFar
  PROVE  Cardinality(FilesOf(Tested)) = Len(results)
<1>1. PICK n \in Nat : n = Len(results) /\ DOMAIN results = 1..n
  BY DEF PredictedSoFar
<1> DEFINE file == [i \in 1..n |-> <<results[i].item.dir, results[i].item.file>>]
<1>2. file \in [1..n -> FilesOf(Tested)]
  BY <1>1 DEF FilesOf, Tested
<1>3. \A x \in FilesOf(Tested) : \E i \in 1..n : file[i] = x
  BY <1>1 DEF FilesOf, Tested
<1>4. \A i, j \in 1..n : file[i] = file[j] => i = j
  BY <1>1, TestedOnce
<1> HIDE DEF file
<1>5. file \in Injection(1..n, FilesOf(Tested)) /\ file \in Surjection(1..n, FilesOf(Tested))
  BY <1>2, <1>3, <1>4 DEF Injection, IsInjective, Surjection
<1>6. ExistsBijection(1..n, FilesOf(Tested))
  BY <1>5 DEF ExistsBijection, Bijection
<1> QED BY <1>1, <1>6, FS_CountingElements, FS_NatBijection

LEMMA AllUsed ==
  ASSUME Listed, Reporting,
         test.summarize => \A d \in DOMAIN corpus.articles :
                             DOMAIN corpus.summaries[d] = DOMAIN corpus.articles[d]
  PROVE  FilesOf(trained) \cup FilesOf(Tested) = AllFiles
<1>1. Dirs = DOMAIN corpus.articles
  BY ListedFiles
<1>2. ASSUME NEW d \in Dirs, NEW x \in DOMAIN corpus.articles[d]
      PROVE  <<d, x>> \in FilesOf(trained) \cup FilesOf(Tested)
  <2>1. PICK f : f = articles.files[d]
    OBVIOUS
  <2>2. /\ Len(f) \in Nat /\ DOMAIN f = 1..Len(f)
        /\ \E k \in DOMAIN f : f[k] = x
        /\ Len(f) = Cardinality(DOMAIN corpus.articles[d])
    <3>1. Enumerates(f, DOMAIN corpus.articles[d])
      BY <2>1, ListedFiles
    <3>2. Len(f) = Cardinality(DOMAIN corpus.articles[d])
      BY <3>1, EnumerationLen
    <3> QED BY <3>1, <3>2 DEF Enumerates
  <2>3. PICK k \in 1..Len(f) : f[k] = x
    BY <2>2
  <2>4. PICK c \in 0..Len(f) : c = Cut(Len(f))
    BY <2>1, TestPartIs
  <2>5. CASE k <= c
    <3> DEFINE item == [dir |-> d, file |-> f[k],
                        ref |-> IF test.summarize THEN summaries.files[d][k]
                                ELSE NoSummary]
    <3>1. test.summarize => Len(summaries.files[d]) = Len(f)
      BY <1>1, <2>2, ListedFiles, EnumerationLen
    <3>2. k \in 1..c /\ k <= Len(f)
      BY <2>2, <2>4, <2>5
    <3>3. TrainedOn(d, k, item)
      BY <2>1, <2>4, <3>1, <3>2 DEF TrainedOn
    <3>4. item \in trained
      BY <3>3, ToTrainIs DEF Reporting
    <3>5. item.dir = d /\ item.file = x
      BY <2>3
    <3> HIDE DEF item
    <3> QED BY <3>4, <3>5 DEF FilesOf
  <2>6. CASE ~(k <= c)
    <3>1. PICK at : Placed(ToTest, TestPart, at, Dirs)
      BY ToTestIs
    <3>2. k - c \in 1..(Len(f) - c) /\ c + (k - c) = k
      BY <2>2, <2>4, <2>6
    <3>3. /\ k - c \in DOMAIN TestPart[d]
          /\ TestPart[d][k - c] = [dir |-> d, ref |-> NoSummary, file |-> f[k]]
      BY <2>1, <2>4, <3>2, TestPartIs
    <3>4. PICK i \in DOMAIN ToTest : ToTest[i] = TestPart[d][k - c]
      BY <3>1, <3>3 DEF Placed
    <3>5. i \in DOMAIN results /\ results[i].item = ToTest[i]
      BY ToTestIs DEF Reporting, Predicted, PredictedSoFar
    <3>6. results[i].item.dir = d /\ results[i].item.file = x
      BY <2>3, <3>3, <3>4, <3>5
    <3> QED BY <3>5, <3>6 DEF FilesOf, Tested
  <2> QED BY <2>5, <2>6
<1>3. ASSUME NEW item \in trained
      PROVE  item.dir \in Dirs /\ item.file \in DOMAIN corpus.articles[item.dir]
  <2>1. PICK d, k : d \in Dirs /\ TrainedOn(d, k, item)
    BY <1>3, ToTrainIs DEF Reporting
  <2>2. PICK f : f = articles.files[d]
    OBVIOUS
  <2>3. /\ k \in 1..Cut(Len(f)) /\ Cut(Len(f)) \in 0..Len(f)
        /\ item.dir = d /\ item.file = f[k]
        /\ Len(f) \in Nat /\ f \in Seq(DOMAIN corpus.articles[d])
    BY <2>1, <2>2, ListedFiles, TestPartIs DEF Enumerates, TrainedOn
  <2>4. k \in 1..Len(f)
    BY <2>3
  <2> QED BY <2>1, <2>3, <2>4
<1>4. ASSUME NEW i \in DOMAIN results
      PROVE  /\ results[i].item.dir \in Dirs
             /\ results[i].item.file \in DOMAIN corpus.articles[results[i].item.dir]
  <2>1. PICK d, k : TestedAt(i, d, k)
    BY TestedSomewhere DEF Reporting
  <2>2. PICK f : f = articles.files[d]
    OBVIOUS
  <2>3. /\ d \in Dirs /\ k \in (Cut(Len(f)) + 1)..Len(f) /\ Cut(Len(f)) \in 0..Len(f)
        /\ results[i].item.dir = d /\ results[i].item.file = f[k]
    BY <2>1, <2>2 DEF TestedAt
  <2>4. Len(f) \in Nat /\ f \in Seq(DOMAIN corpus.articles[d])
    BY <2>2, <2>3, ListedFiles DEF Enumerates
  <2>5. k \in 1..Len(f)
    BY <2>3, <2>4
  <2> QED BY <2>3, <2>4, <2>5
<1>5. FilesOf(trained) \subseteq AllFiles
  BY <1>1, <1>3 DEF FilesOf, AllFiles
<1>6. FilesOf(Tested) \subseteq AllFiles
  BY <1>1, <1>4 DEF FilesOf, Tested, AllFiles
<1>7. AllFiles \subseteq FilesOf(trained) \cup FilesOf(Tested)
  BY <1>1, <1>2 DEF AllFiles
<1> QED BY <1>5, <1>6, <1>7

LEMMA SplitSeparates == Split => NothingTestedWasTrainedOn
<1> SUFFICES ASSUME Split PROVE NothingTestedWasTrainedOn
  OBVIOUS
<1>1. CASE Fresh
  <2>1. FilesOf(trained) = {} /\ FilesOf(Tested) = {} /\ Len(results) = 0
    BY <1>1 DEF Fresh, FilesOf, Tested
  <2>2. step = "report" => Listed /\ Reporting
    BY DEF Split
  <2>3. Cardinality(FilesOf(Tested)) = Len(results)
    BY <2>1, FS_EmptySet
  <2> QED BY <2>1, <2>2, <2>3, AllUsed DEF NothingTestedWasTrainedOn
<1>2. CASE Listed /\ PredictedSoFar /\ trained \subseteq ToSet(ToTrain)
  <2>1. step = "report" => Reporting
    BY DEF Split
  <2> QED BY <1>2, <2>1, TestedNotTrained, TestedCount, AllUsed
          DEF NothingTestedWasTrainedOn
<1> QED BY <1>1, <1>2, NothingPredicted
        DEF Split, Training, Testing, Reporting, Failed

LEMMA TrainedWithOwn ==
  ASSUME Listed, test.summarize, trained \subseteq ToSet(ToTrain),
         NEW d \in Dirs, articles.files[d] = summaries.files[d],
         NEW item \in trained, item.dir = d
  PROVE  item.ref = item.file
<1>1. PICK e \in Dirs : \E k : TrainedOn(e, k, item)
  BY ToTrainIs
<1>2. PICK k : TrainedOn(e, k, item)
  BY <1>1
<1>3. e = d /\ item.file = articles.files[d][k] /\ item.ref = summaries.files[d][k]
  BY <1>2 DEF TrainedOn
<1> QED BY <1>3

(* Where the listings agree the pairs that are scored are an article and   *)
(* its summary, for each tested article.                                   *)
ScoredAt(s, d, p) ==
  s = [k \in 1..Len(p) |-> [dir |-> d, file |-> p[k], ref |-> p[k]]]

LEMMA ScorePartTyped ==
  ASSUME Listed, test.summarize, PredictedSoFar, Predicted
  PROVE  /\ ScorePart \in [Dirs -> Seq(Items)]
         /\ \A d \in Dirs :
              Len(ScorePart[d]) = Shorter(Len(SecondPart(articles.files[d])),
                                          Len(SecondPart(summaries.files[d])))
         /\ \A d \in Dirs : articles.files[d] = summaries.files[d] =>
              ScoredAt(ScorePart[d], d, SecondPart(articles.files[d]))
<1>1. ASSUME NEW d \in Dirs
      PROVE  /\ ScorePart[d] \in Seq(Items)
             /\ Len(ScorePart[d]) = Shorter(Len(SecondPart(articles.files[d])),
                                            Len(SecondPart(summaries.files[d])))
             /\ articles.files[d] = summaries.files[d] =>
                  ScoredAt(ScorePart[d], d, SecondPart(articles.files[d]))
  <2>1. MySummaries(d) = SecondPart(articles.files[d])
    BY MySummariesComplete DEF PredictedSoFar
  <2>2. PICK p : p = SecondPart(articles.files[d])
    OBVIOUS
  <2>3. PICK t : t = SecondPart(summaries.files[d])
    OBVIOUS
  <2>4. /\ p \in Seq(DOMAIN corpus.articles[d])
        /\ t \in Seq(DOMAIN corpus.summaries[d])
    BY <2>2, <2>3, ListedFiles, Parts DEF Enumerates
  <2>5. ScorePart[d] = Paired(d, p, t)
    BY <2>1, <2>2, <2>3 DEF ScorePart, TestSummaries
  <2>6. /\ Paired(d, p, t) \in Seq(Items)
        /\ Len(Paired(d, p, t)) = Shorter(Len(p), Len(t))
        /\ \A k \in 1..Shorter(Len(p), Len(t)) :
             Paired(d, p, t)[k] = [dir |-> d, file |-> p[k], ref |-> t[k]]
    BY <2>4, PairedTyped
  <2>7. ASSUME articles.files[d] = summaries.files[d]
        PROVE  ScoredAt(ScorePart[d], d, p)
    <3>1. t = p
      BY <2>2, <2>3, <2>7
    <3>2. Shorter(Len(p), Len(t)) = Len(p)
      BY <3>1 DEF Shorter
    <3>3. PICK s \in Seq(Items) : s = Paired(d, p, t)
      BY <2>6
    <3>4. /\ Len(s) = Len(p)
          /\ \A k \in 1..Len(p) : s[k] = [dir |-> d, file |-> p[k], ref |-> p[k]]
      BY <2>6, <3>1, <3>2, <3>3
    <3>5. s = [k \in 1..Len(s) |-> s[k]]
      OBVIOUS
    <3> QED BY <2>5, <3>3, <3>4, <3>5 DEF ScoredAt
  <2> QED BY <2>2, <2>3, <2>5, <2>6, <2>7
<1>2. ScorePart = [d \in Dirs |-> ScorePart[d]]
  BY DEF ScorePart
<1> QED BY <1>1, <1>2

LEMMA ComparedAll ==
  ASSUME Listed, test.summarize, Reporting,
         NEW d \in Dirs, articles.files[d] = summaries.files[d]
  PROVE  /\ \A item \in ToSet(scored) : item.dir = d => item.ref = item.file
         /\ \A item \in Tested : item.dir = d =>
              \E k \in DOMAIN scored :
                scored[k].dir = d /\ scored[k].file = item.file
<1>1. /\ scored = InEachDir(ScorePart)
      /\ ScorePart \in [Dirs -> Seq(Items)]
      /\ Enumerates(articles.dirs, Dirs)
  BY ListedFiles, ScorePartTyped DEF Reporting
<1>2. PICK at : Placed(scored, ScorePart, at, Dirs)
  BY <1>1, EachDirPlaced
<1>3. PICK f : f = articles.files[d]
  OBVIOUS
<1>4. PICK p : p = SecondPart(f)
  OBVIOUS
<1>5. /\ f \in Seq(DOMAIN corpus.articles[d])
      /\ p \in Seq(DOMAIN corpus.articles[d]) /\ Len(p) = Len(f) - Cut(Len(f))
      /\ Cut(Len(f)) \in 0..Len(f)
      /\ \A k \in 1..(Len(f) - Cut(Len(f))) : p[k] = f[Cut(Len(f)) + k]
  <2>1. f \in Seq(DOMAIN corpus.articles[d])
    BY <1>3, ListedFiles DEF Enumerates
  <2> QED BY <1>4, <2>1, Parts
<1>6. ScoredAt(ScorePart[d], d, p)
  BY <1>3, <1>4, ScorePartTyped DEF Reporting
<1>7. ASSUME NEW m \in DOMAIN scored, scored[m].dir = d
      PROVE  scored[m].ref = scored[m].file
  <2>1. PICK e \in Dirs : \E k \in DOMAIN ScorePart[e] : m = at[e] + k
    BY <1>2 DEF Placed
  <2>2. PICK k \in DOMAIN ScorePart[e] : m = at[e] + k
    BY <2>1
  <2>3. scored[m] = ScorePart[e][k]
    BY <1>2, <2>2 DEF Placed
  <2>4. ScorePart[e][k].dir = e
    <3>1. ScorePart[e] = Paired(e, MySummaries(e), TestSummaries(e))
      BY DEF ScorePart
    <3> QED BY <2>2, <3>1 DEF Paired, Item
  <2>5. e = d
    BY <1>7, <2>3, <2>4
  <2> QED BY <1>6, <2>2, <2>3, <2>5 DEF ScoredAt
<1>8. ASSUME NEW i \in DOMAIN results, results[i].item.dir = d
      PROVE  \E k \in DOMAIN scored :
               scored[k].dir = d /\ scored[k].file = results[i].item.file
  <2>1. PICK e, k : TestedAt(i, e, k)
    BY TestedSomewhere DEF Reporting
  <2>2. e = d /\ results[i].item.file = f[k] /\ k \in (Cut(Len(f)) + 1)..Len(f)
    BY <1>3, <1>8, <2>1 DEF TestedAt
  <2>3. PICK c \in 0..Len(f) : c = Cut(Len(f))
    BY <1>5
  <2>4. k - c \in 1..(Len(f) - c) /\ c + (k - c) = k
    BY <1>5, <2>2, <2>3
  <2>5. p[k - c] = f[k] /\ k - c \in 1..Len(p)
    BY <1>5, <2>3, <2>4
  <2>6. /\ k - c \in DOMAIN ScorePart[d]
        /\ ScorePart[d][k - c].dir = d /\ ScorePart[d][k - c].file = f[k]
    BY <1>6, <2>5 DEF ScoredAt
  <2>7. /\ at[d] + (k - c) \in DOMAIN scored
        /\ scored[at[d] + (k - c)] = ScorePart[d][k - c]
    BY <1>2, <2>6 DEF Placed
  <2> QED BY <2>2, <2>6, <2>7
<1> QED BY <1>7, <1>8 DEF ToSet, Tested

LEMMA SplitCompares == Split => ComparedWithOwnSummary
<1> SUFFICES ASSUME Split, test.summarize, step \in {"train", "test", "report"},
                    NEW d \in Dirs, articles.files[d] = summaries.files[d]
             PROVE  /\ \A item \in trained \cup ToSet(scored) :
                         item.dir = d => item.ref = item.file
                    /\ step = "report" =>
                         \A item \in Tested : item.dir = d =>
                           \E k \in DOMAIN scored :
                             scored[k].dir = d /\ scored[k].file = item.file
  BY DEF ComparedWithOwnSummary
<1>1. Listed /\ trained \subseteq ToSet(ToTrain)
  BY DEF Split, Training, Testing, Reporting
<1>2. \A item \in trained : item.dir = d => item.ref = item.file
  BY <1>1, TrainedWithOwn
<1>3. CASE step = "report"
  <2>1. Reporting
    BY <1>3 DEF Split
  <2> QED BY <1>1, <1>2, <2>1, ComparedAll
<1>4. CASE step # "report"
  <2>1. ToSet(scored) = {}
    BY <1>4 DEF Split, Training, Testing, ToSet
  <2> QED BY <1>2, <1>4, <2>1
<1> QED BY <1>3, <1>4

(* Of the split of the articles: main trains on the first three quarters   *)
(* of each directory and predicts the others, each once, in every test and *)
(* for every listing of every corpus (split_dataset, the two evaluations). *)
THEOREM TestedApart == Spec => []NothingTestedWasTrainedOn
<1>1. Spec => []Split
  BY SplitInit, SplitStep, PTL DEF Spec
<1> QED BY <1>1, SplitSeparates, PTL

(* Of the summaries: where the directories are listed in the same order,   *)
(* train_summarizer learns from an article with its own summary, and the   *)
(* score of evaluate_summarization is of each tested article with its own. *)
THEOREM OwnSummaries == Spec => []ComparedWithOwnSummary
<1>1. Spec => []Split
  BY SplitInit, SplitStep, PTL DEF Spec
<1> QED BY <1>1, SplitCompares, PTL

-----------------------------------------------------------------------------
(* The confusion matrix counts the results.                                *)

ClassifiedAs(c, k) ==
  {i \in DOMAIN results : results[i].item.dir = c /\ results[i].answer = k}
Hits == {i \in DOMAIN results : results[i].item.dir = results[i].answer}
Misses == {i \in DOMAIN results : results[i].item.dir # results[i].answer}

(* Every cell, tp and fp count the results that belong there.              *)
Tally ==
  /\ results \in Seq(ToSet(results))
  /\ ~test.summarize =>
       /\ conf_matrix \in [ClassSet -> [ClassSet -> Nat]]
       /\ \A c, k \in ClassSet : conf_matrix[c][k] = Cardinality(ClassifiedAs(c, k))
       /\ tp = Cardinality(Hits) /\ fp = Cardinality(Misses)
       /\ \A i \in DOMAIN results :
            results[i].item.dir \in ClassSet /\ results[i].answer \in ClassSet

LEMMA ClassesFinite == IsFiniteSet(ClassSet)
<1>1. Len(Classes) \in Nat /\ DOMAIN Classes = 1..Len(Classes)
  BY ClassesAssumption
<1>2. Classes \in Surjection(1..Len(Classes), ClassSet)
  <2>1. Classes = [i \in 1..Len(Classes) |-> Classes[i]]
    BY ClassesAssumption
  <2>2. Classes \in [1..Len(Classes) -> ClassSet]
    BY <1>1, <2>1 DEF ClassSet, ToSet
  <2>3. \A x \in ClassSet : \E i \in 1..Len(Classes) : Classes[i] = x
    BY <1>1 DEF ClassSet, ToSet
  <2> QED BY <2>2, <2>3 DEF Surjection
<1>3. IsFiniteSet(1..Len(Classes))
  BY <1>1, FS_Interval
<1> QED BY <1>2, <1>3, FS_Surjection

LEMMA PlacesFinite ==
  ASSUME results \in Seq(ToSet(results)), NEW P \in SUBSET DOMAIN results
  PROVE  IsFiniteSet(P) /\ Cardinality(P) \in Nat
<1>1. DOMAIN results = 1..Len(results) /\ Len(results) \in Nat
  OBVIOUS
<1>2. IsFiniteSet(DOMAIN results)
  BY <1>1, FS_Interval
<1> QED BY <1>2, FS_Subset, FS_CardinalityType

LEMMA TallyFresh ==
  ASSUME results = <<>>, conf_matrix = NoMatrix, tp = 0, fp = 0
  PROVE  Tally
<1>1. ClassSet = ToSet(Classes)
  BY DEF ClassSet
<1>2. /\ NoMatrix \in [ClassSet -> [ClassSet -> Nat]]
      /\ \A c, k \in ClassSet : NoMatrix[c][k] = 0
  BY <1>1 DEF NoMatrix, NoCounts
<1>3. DOMAIN results = {} /\ results \in Seq(ToSet(results))
  OBVIOUS
<1>4. /\ \A c, k \in ClassSet : ClassifiedAs(c, k) = {}
      /\ Hits = {} /\ Misses = {}
  BY <1>3 DEF ClassifiedAs, Hits, Misses
<1> QED BY <1>2, <1>3, <1>4, FS_EmptySet DEF Tally

LEMMA TallyFreshNext ==
  (results = <<>> /\ conf_matrix = NoMatrix /\ tp = 0 /\ fp = 0 => Tally)'
<1>1. results = <<>> /\ conf_matrix = NoMatrix /\ tp = 0 /\ fp = 0 => Tally
  BY TallyFresh
<1> QED BY <1>1, PTL

LEMMA TallySame ==
  ASSUME Tally, UNCHANGED <<variant, results, conf_matrix, tp, fp>>
  PROVE  Tally'
BY DEF Tally, ClassifiedAs, Hits, Misses, ToSet, test

LEMMA TallyClassified ==
  ASSUME Tally, ~test.summarize, UNCHANGED variant,
         NEW item, NEW c \in ClassSet, item.dir \in ClassSet,
         conf_matrix' = Entered(conf_matrix, item.dir, c),
         results' = Append(results, [item |-> item, answer |-> c]),
         IF c = item.dir THEN tp' = tp + 1 /\ UNCHANGED fp
                         ELSE fp' = fp + 1 /\ UNCHANGED tp
  PROVE  Tally'
<1> DEFINE x == [item |-> item, answer |-> c]
<1>1. PICK R : results \in Seq(R) /\ x \in R
  <2>1. results \in Seq(ToSet(results) \cup {x})
    BY SeqMonotonic DEF Tally
  <2> QED BY <2>1
<1>2. PICK n \in Nat : n = Len(results)
  BY <1>1
<1>3. /\ results' \in Seq(R) /\ DOMAIN results' = 1..(n + 1)
      /\ DOMAIN results = 1..n
      /\ \A i \in 1..n : results'[i] = results[i]
      /\ results'[n + 1] = x
  BY <1>1, <1>2
<1>4. x.item.dir = item.dir /\ x.answer = c
  OBVIOUS
<1> HIDE DEF x
<1>5. test' = test
  BY DEF test
<1>6. results' \in Seq(ToSet(results'))
  <2>1. PICK s \in Seq(R) : s = results'
    BY <1>3
  <2>2. s \in Seq({s[i] : i \in DOMAIN s})
    OBVIOUS
  <2> QED BY <2>1, <2>2 DEF ToSet
<1>7. \A i \in 1..(n + 1) : i = n + 1 \/ i \in 1..n
  OBVIOUS
<1>8. \A i \in 1..n : i \in 1..(n + 1) /\ i # n + 1
  OBVIOUS
<1>9. \A P \in SUBSET (1..n) : /\ Cardinality(P) \in Nat
                               /\ Cardinality(P \cup {n + 1}) = Cardinality(P) + 1
  <2> SUFFICES ASSUME NEW P \in SUBSET (1..n)
               PROVE  /\ Cardinality(P) \in Nat
                      /\ Cardinality(P \cup {n + 1}) = Cardinality(P) + 1
    OBVIOUS
  <2>1. IsFiniteSet(P)
    <3>1. IsFiniteSet(1..n)
      BY FS_Interval
    <3> QED BY <3>1, FS_Subset
  <2>2. n + 1 \notin P
    OBVIOUS
  <2> QED BY <2>1, <2>2, FS_AddElement, FS_CardinalityType
<1>10. \A d, k : ClassifiedAs(d, k) \in SUBSET (1..n)
  BY <1>3 DEF ClassifiedAs
<1>11. Hits \in SUBSET (1..n) /\ Misses \in SUBSET (1..n)
  BY <1>3 DEF Hits, Misses
<1>12. \A d, k : ClassifiedAs(d, k)' =
         IF d = item.dir /\ k = c THEN ClassifiedAs(d, k) \cup {n + 1}
                                  ELSE ClassifiedAs(d, k)
  BY <1>3, <1>4, <1>7, <1>8 DEF ClassifiedAs
<1>13. /\ Hits' = IF c = item.dir THEN Hits \cup {n + 1} ELSE Hits
       /\ Misses' = IF c = item.dir THEN Misses ELSE Misses \cup {n + 1}
  BY <1>3, <1>4, <1>7, <1>8 DEF Hits, Misses
<1>14. /\ conf_matrix \in [ClassSet -> [ClassSet -> Nat]]
       /\ tp = Cardinality(Hits) /\ fp = Cardinality(Misses)
       /\ \A d, k \in ClassSet : conf_matrix[d][k] = Cardinality(ClassifiedAs(d, k))
       /\ \A i \in 1..n :
            results[i].item.dir \in ClassSet /\ results[i].answer \in ClassSet
  BY <1>3 DEF Tally
<1>15. conf_matrix' \in [ClassSet -> [ClassSet -> Nat]]
  BY <1>14 DEF Entered
<1>16. \A d, k \in ClassSet : conf_matrix'[d][k] =
         IF d = item.dir /\ k = c THEN conf_matrix[d][k] + 1 ELSE conf_matrix[d][k]
  BY <1>14 DEF Entered
<1>17. \A d, k \in ClassSet : conf_matrix'[d][k] = Cardinality(ClassifiedAs(d, k)')
  <2> SUFFICES ASSUME NEW d \in ClassSet, NEW k \in ClassSet
               PROVE  conf_matrix'[d][k] = Cardinality(ClassifiedAs(d, k)')
    OBVIOUS
  <2>1. CASE d = item.dir /\ k = c
    <3>1. conf_matrix'[d][k] = conf_matrix[d][k] + 1
      BY <1>16, <2>1
    <3>2. ClassifiedAs(d, k)' = ClassifiedAs(d, k) \cup {n + 1}
      BY <1>12, <2>1
    <3>3. Cardinality(ClassifiedAs(d, k) \cup {n + 1}) = Cardinality(ClassifiedAs(d, k)) + 1
      BY <1>9, <1>10
    <3> QED BY <1>14, <3>1, <3>2, <3>3
  <2>2. CASE ~(d = item.dir /\ k = c)
    <3>1. conf_matrix'[d][k] = conf_matrix[d][k]
      BY <1>16, <2>2
    <3>2. ClassifiedAs(d, k)' = ClassifiedAs(d, k)
      BY <1>12, <2>2
    <3> QED BY <1>14, <3>1, <3>2
  <2> QED BY <2>1, <2>2
<1>18. tp' = Cardinality(Hits')
  BY <1>9, <1>11, <1>13, <1>14
<1>19. fp' = Cardinality(Misses')
  BY <1>9, <1>11, <1>13, <1>14
<1>20. \A i \in DOMAIN results' :
         results'[i].item.dir \in ClassSet /\ results'[i].answer \in ClassSet
  BY <1>3, <1>4, <1>7, <1>14
<1> QED BY <1>5, <1>6, <1>15, <1>17, <1>18, <1>19, <1>20 DEF Tally

LEMMA TallyStep == Tally /\ [Next]_vars => Tally'
<1> SUFFICES ASSUME Tally, [Next]_vars PROVE Tally'
  OBVIOUS
<1>1. CASE UNCHANGED <<variant, results, conf_matrix, tp, fp>>
  BY <1>1, TallySame
<1>2. CASE classify /\ ~Fail
  <2>1. PICK c \in predict_class(model, ArticleTerms(Head(todo).dir, Head(todo).file),
                                 Classes) :
          /\ conf_matrix' = Entered(conf_matrix, Head(todo).dir, c)
          /\ results' = Append(results, [item |-> Head(todo), answer |-> c])
          /\ IF c = Head(todo).dir THEN tp' = tp + 1 /\ UNCHANGED fp
                                   ELSE fp' = fp + 1 /\ UNCHANGED tp
    BY <1>2 DEF classify
  <2>2. /\ ~test.summarize /\ UNCHANGED variant /\ Head(todo).dir \in ClassSet
    BY <1>2 DEF classify, UnknownClass
  <2>3. c \in ClassSet
    BY DEF predict_class, ClassSet, ToSet
  <2> QED BY <2>1, <2>2, <2>3, TallyClassified
<1>3. CASE summarize /\ ~Fail
  <2>1. PICK x : results' = Append(results, x)
    BY <1>3 DEF summarize
  <2>2. test' = test /\ test.summarize
    BY <1>3 DEF summarize, test
  <2>3. results \in Seq(ToSet(results) \cup {x})
    BY SeqMonotonic DEF Tally
  <2>4. PICK R : results' \in Seq(R)
    BY <2>1, <2>3
  <2>5. results' \in Seq(ToSet(results'))
    <3>1. PICK s \in Seq(R) : s = results'
      BY <2>4
    <3>2. s \in Seq({s[i] : i \in DOMAIN s})
      OBVIOUS
    <3> QED BY <3>1, <3>2 DEF ToSet
  <2> QED BY <2>2, <2>5 DEF Tally
<1>4. CASE next_test
  <2>1. results' = <<>> /\ conf_matrix' = NoMatrix /\ tp' = 0 /\ fp' = 0
    BY <1>4 DEF next_test
  <2> QED BY <2>1, TallyFreshNext
<1> QED BY <1>1, <1>2, <1>3, <1>4
        DEF Next, vars, outcome, Fail, list_articles, list_summaries, split_dataset,
            train_classifier, train_summarizer, end_training, classify, summarize,
            report_classifier, report_summarizer, finished

LEMMA TallyAddsUp == Tally => MatrixAddsUp
<1> SUFFICES ASSUME Tally, ~test.summarize
             PROVE  /\ \A c \in ClassSet :
                         MapThenSumSet(LAMBDA k : conf_matrix[c][k], ClassSet)
                           = Cardinality({i \in DOMAIN results : results[i].item.dir = c})
                    /\ tp = MapThenSumSet(LAMBDA c : conf_matrix[c][c], ClassSet)
                    /\ tp + fp = Len(results)
  BY DEF MatrixAddsUp
<1>0. /\ results \in Seq(ToSet(results))
      /\ conf_matrix \in [ClassSet -> [ClassSet -> Nat]]
      /\ \A c, k \in ClassSet : conf_matrix[c][k] = Cardinality(ClassifiedAs(c, k))
      /\ tp = Cardinality(Hits) /\ fp = Cardinality(Misses)
      /\ \A i \in DOMAIN results :
           results[i].item.dir \in ClassSet /\ results[i].answer \in ClassSet
  BY DEF Tally
<1> DEFINE answer == [i \in DOMAIN results |-> results[i].answer]
<1>1. ASSUME NEW c \in ClassSet
      PROVE  MapThenSumSet(LAMBDA k : conf_matrix[c][k], ClassSet)
               = Cardinality({i \in DOMAIN results : results[i].item.dir = c})
  <2> DEFINE D == {i \in DOMAIN results : results[i].item.dir = c}
  <2>1. IsFiniteSet(D)
    BY <1>0, PlacesFinite
  <2>2. PICK f : f = conf_matrix[c]
    OBVIOUS
  <2>3. \A k \in ClassSet : f[k] \in Nat
    BY <1>0, <2>2
  <2>4. \A k \in ClassSet : {i \in D : answer[i] = k} = ClassifiedAs(c, k)
    BY DEF ClassifiedAs
  <2>5. \A k \in ClassSet : f[k] = Cardinality({i \in D : answer[i] = k})
    BY <1>0, <2>2, <2>4
  <2>6. {i \in D : answer[i] \in ClassSet} = D
    BY <1>0
  <2> HIDE DEF D, answer
  <2>7. PICK g : Sums(g, f, ClassSet) /\ SumOf(f, ClassSet) = g[ClassSet]
    BY <2>3, ClassesFinite, SumSums
  <2>8. g[ClassSet] = Cardinality({i \in D : answer[i] \in ClassSet})
    <3>1. PICK S, E, key : S = ClassSet /\ E = D /\ key = answer
      OBVIOUS
    <3>2. /\ IsFiniteSet(S) /\ IsFiniteSet(E) /\ Sums(g, f, S)
          /\ \A k \in S : f[k] = Cardinality(With(E, key, k))
      BY <2>1, <2>5, <2>7, <3>1, ClassesFinite DEF With
    <3>3. g[S] = Cardinality(Within(E, key, S))
      BY <3>2, SumCounts
    <3> QED BY <3>1, <3>3 DEF Within
  <2>9. MapThenSumSet(LAMBDA k : conf_matrix[c][k], ClassSet)
          = SumOf(conf_matrix[c], ClassSet)
    BY DEF MapThenSumSet, MapThenFoldSet, SumOf, One
  <2> QED BY <2>2, <2>6, <2>7, <2>8, <2>9 DEF D
<1>2. tp = MapThenSumSet(LAMBDA c : conf_matrix[c][c], ClassSet)
  <2>1. IsFiniteSet(Hits)
    BY <1>0, PlacesFinite DEF Hits
  <2> DEFINE f == [c \in ClassSet |-> conf_matrix[c][c]]
  <2>2. \A c \in ClassSet : f[c] = conf_matrix[c][c] /\ f[c] \in Nat
    BY <1>0
  <2>3. \A c \in ClassSet : {i \in Hits : answer[i] = c} = ClassifiedAs(c, c)
    BY DEF ClassifiedAs, Hits
  <2>4. {i \in Hits : answer[i] \in ClassSet} = Hits
    BY <1>0 DEF Hits
  <2> HIDE DEF f, answer
  <2>5. \A c \in ClassSet : f[c] = Cardinality({i \in Hits : answer[i] = c})
    <3>1. \A c \in ClassSet : f[c] = Cardinality(ClassifiedAs(c, c))
      BY <1>0, <2>2
    <3> QED BY <2>3, <3>1
  <2>6. PICK g : Sums(g, f, ClassSet) /\ DiagonalOf(conf_matrix, ClassSet) = g[ClassSet]
    BY <2>2, ClassesFinite, DiagonalSums
  <2>7. g[ClassSet] = Cardinality({i \in Hits : answer[i] \in ClassSet})
    <3>1. PICK S, E, e, key : S = ClassSet /\ E = Hits /\ e = f /\ key = answer
      OBVIOUS
    <3>2. /\ IsFiniteSet(S) /\ IsFiniteSet(E) /\ Sums(g, e, S)
          /\ \A c \in S : e[c] = Cardinality(With(E, key, c))
      BY <2>1, <2>5, <2>6, <3>1, ClassesFinite DEF With
    <3>3. g[S] = Cardinality(Within(E, key, S))
      BY <3>2, SumCounts
    <3> QED BY <3>1, <3>3 DEF Within
  <2>8. MapThenSumSet(LAMBDA c : conf_matrix[c][c], ClassSet)
          = DiagonalOf(conf_matrix, ClassSet)
    BY DEF MapThenSumSet, MapThenFoldSet, DiagonalOf, One
  <2> QED BY <1>0, <2>4, <2>6, <2>7, <2>8
<1>3. tp + fp = Len(results)
  <2>1. PICK n \in Nat : n = Len(results) /\ DOMAIN results = 1..n
    BY <1>0
  <2>2. /\ IsFiniteSet(Hits) /\ Cardinality(Hits) \in Nat
        /\ IsFiniteSet(Misses) /\ Cardinality(Misses) \in Nat
    BY <1>0, PlacesFinite DEF Hits, Misses
  <2>3. Hits \cup Misses = 1..n /\ Hits \cap Misses = {}
    BY <2>1 DEF Hits, Misses
  <2>4. Cardinality(1..n) = n /\ Cardinality({}) = 0
    BY FS_Interval, FS_EmptySet
  <2>5. Cardinality(Hits \cup Misses)
          = Cardinality(Hits) + Cardinality(Misses) - Cardinality(Hits \cap Misses)
    BY <2>2, FS_Union
  <2>6. Cardinality(Hits \cup Misses) = n
    BY <2>3, <2>4
  <2>7. Cardinality(Hits \cap Misses) = 0
    BY <2>3, <2>4
  <2>8. tp = Cardinality(Hits) /\ fp = Cardinality(Misses) /\ n = Len(results)
    BY <1>0, <2>1
  <2> QED BY <2>2, <2>5, <2>6, <2>7, <2>8
<1> QED BY <1>1, <1>2, <1>3

(* Of the evaluation of the classifier: the rows of the confusion matrix,  *)
(* its diagonal, tp and fp add up, for any classes and any corpus          *)
(* (evaluate_classification).                                              *)
THEOREM MatrixSums == Spec => []MatrixAddsUp
<1>1. Init => Tally
  BY TallyFresh DEF Init
<1>2. Spec => []Tally
  BY <1>1, TallyStep, PTL DEF Spec
<1> QED BY <1>2, TallyAddsUp, PTL

-----------------------------------------------------------------------------
(* Words and terms.                                                        *)

(* The words that are left, as the loop of eliminate_stopwords finds them. *)
Kept(h, words) ==
  /\ h[0] = <<>>
  /\ \A i \in 1..Len(words) :
       h[i] = IF words[i] \notin OneLetter \cup STOP_WORDS
              THEN Append(h[i - 1], words[i]) ELSE h[i - 1]

LEMMA KeepsGrow ==
  ASSUME NEW W, NEW words \in Seq(W)
  PROVE  \E h : Kept(h, words) /\ eliminate_stopwords(words) = h[Len(words)]
<1>1. PICK n \in Nat : n = Len(words)
  OBVIOUS
<1>2. DOMAIN words = 1..n
  BY <1>1
<1> DEFINE pick == [T \in SUBSET (1..n) |-> Max(T)]
           put == [i \in 1..n |-> [v \in Seq(W) |->
                     IF words[i] \notin OneLetter \cup STOP_WORDS
                     THEN Append(v, words[i]) ELSE v]]
           Fold(g) == [T \in SUBSET (1..n) |->
                         IF T = {} THEN <<>>
                         ELSE IF words[Max(T)] \notin OneLetter \cup STOP_WORDS
                              THEN Append(g[T \ {Max(T)}], words[Max(T)])
                              ELSE g[T \ {Max(T)}]]
           G == CHOOSE g : g = Fold(g)
<1>3. IsFiniteSet(1..n) /\ <<>> \in Seq(W)
  BY FS_Interval
<1>4. \A T \in SUBSET (1..n) : T # {} => pick[T] = Max(T) /\ pick[T] \in T
  BY MaxPlace
<1>5. put \in [1..n -> [Seq(W) -> Seq(W)]]
  <2>1. \A i \in 1..n : words[i] \in W
    BY <1>2
  <2>2. \A i \in 1..n : \A v \in Seq(W) : Append(v, words[i]) \in Seq(W)
    BY <2>1
  <2> QED BY <2>2
<1>6. \A i \in 1..n : \A v \in Seq(W) :
        put[i][v] = IF words[i] \notin OneLetter \cup STOP_WORDS
                    THEN Append(v, words[i]) ELSE v
  <2> SUFFICES ASSUME NEW i \in 1..n, NEW v \in Seq(W)
               PROVE  put[i][v] = IF words[i] \notin OneLetter \cup STOP_WORDS
                                  THEN Append(v, words[i]) ELSE v
    BY Zenon
  <2> QED OBVIOUS
<1> HIDE DEF pick, put
<1>7. PICK g \in [SUBSET (1..n) -> Seq(W)] : FoldsSet(g, <<>>, put, pick, 1..n)
  BY <1>3, <1>4, <1>5, FoldExists
<1>8. \A T \in SUBSET (1..n) : g[T] = Fold(g)[T]
  <2> SUFFICES ASSUME NEW T \in SUBSET (1..n) PROVE g[T] = Fold(g)[T]
    OBVIOUS
  <2>1. CASE T = {}
    BY <1>7, <2>1 DEF FoldsSet
  <2>2. CASE T # {}
    <3>1. g[T] = put[Max(T)][g[T \ {Max(T)}]] /\ Max(T) \in 1..n
      BY <1>4, <1>7, <2>2 DEF FoldsSet
    <3>2. g[T \ {Max(T)}] \in Seq(W)
      BY <1>7
    <3> QED BY <1>6, <2>2, <3>1, <3>2
  <2> QED BY <2>1, <2>2
<1>9. g = Fold(g)
  BY <1>7, <1>8
<1>10. G = Fold(G)
  BY <1>9
<1>11. eliminate_stopwords(words) = G[1..n]
  BY <1>2 DEF eliminate_stopwords, FoldLeft, MapThenFoldSet
<1> HIDE DEF G
<1> DEFINE h == [i \in 0..n |-> G[1..i]]
<1>12. h[0] = <<>>
  <2>1. 1..0 = {} /\ {} \in SUBSET (1..n) /\ 0 \in 0..n
    OBVIOUS
  <2>2. G[{}] = <<>>
    BY <1>10, <2>1
  <2> QED BY <2>1, <2>2
<1>13. ASSUME NEW i \in 1..n
       PROVE  h[i] = IF words[i] \notin OneLetter \cup STOP_WORDS
                     THEN Append(h[i - 1], words[i]) ELSE h[i - 1]
  <2>1. /\ 1..i \in SUBSET (1..n) /\ 1..i # {}
        /\ Max(1..i) = i /\ (1..i) \ {i} = 1..(i - 1)
    BY MaxUpto
  <2>2. G[1..i] = IF words[i] \notin OneLetter \cup STOP_WORDS
                  THEN Append(G[1..(i - 1)], words[i]) ELSE G[1..(i - 1)]
    BY <1>10, <2>1
  <2>3. i \in 0..n /\ i - 1 \in 0..n
    OBVIOUS
  <2> QED BY <2>2, <2>3
<1>14. n \in 0..n /\ h[n] = G[1..n]
  OBVIOUS
<1> HIDE DEF h
<1> QED BY <1>1, <1>11, <1>12, <1>13, <1>14 DEF Kept

(* Words of content stay.                                                  *)
LEMMA ContentKept ==
  ASSUME NEW W, NEW words \in Seq(W)
  PROVE  /\ eliminate_stopwords(words) \in Seq(W)
         /\ \A i, j \in DOMAIN words :
              /\ i < j
              /\ words[i] \notin OneLetter \cup STOP_WORDS
              /\ words[j] \notin OneLetter \cup STOP_WORDS
              => Len(eliminate_stopwords(words)) >= 2
<1>1. PICK n \in Nat : n = Len(words) /\ DOMAIN words = 1..n
  OBVIOUS
<1>2. PICK h : Kept(h, words) /\ eliminate_stopwords(words) = h[n]
  BY <1>1, KeepsGrow
<1>3. \A k \in 1..n : words[k] \in W
  BY <1>1
<1>4. /\ h[0] = <<>>
      /\ \A k \in 1..n : h[k] = IF words[k] \notin OneLetter \cup STOP_WORDS
                                THEN Append(h[k - 1], words[k]) ELSE h[k - 1]
  BY <1>1, <1>2 DEF Kept
<1>5. \A k \in 0..n : h[k] \in Seq(W)
  <2> DEFINE P == {k \in 0..n : h[k] \in Seq(W)}
  <2>1. 0 \in P
    <3>1. h[0] = <<>> /\ 0 \in 0..n
      BY <1>4
    <3>2. <<>> \in Seq(W)
      BY EmptySeq
    <3>3. h[0] \in Seq(W)
      BY <3>1, <3>2, Zenon
    <3> QED BY <3>1, <3>3, Zenon
  <2>2. ASSUME NEW k \in 1..n, k - 1 \in P
        PROVE  k \in P
    <3>1. h[k - 1] \in Seq(W) /\ k \in 0..n
      BY <2>2
    <3>2. Append(h[k - 1], words[k]) \in Seq(W)
      BY <1>3, <3>1
    <3> QED BY <1>4, <3>1, <3>2
  <2> HIDE DEF P
  <2>3. 0..n \subseteq P
    BY <2>1, <2>2, CountingUp
  <2> QED BY <2>3 DEF P
<1>6. /\ Len(h[0]) = 0
      /\ \A k \in 1..n :
           /\ Len(h[k - 1]) \in Nat /\ Len(h[k]) >= Len(h[k - 1])
           /\ words[k] \notin OneLetter \cup STOP_WORDS => Len(h[k]) = Len(h[k - 1]) + 1
  <2>1. Len(h[0]) = 0
    BY <1>4
  <2>2. ASSUME NEW k \in 1..n
        PROVE  /\ Len(h[k - 1]) \in Nat /\ Len(h[k]) >= Len(h[k - 1])
               /\ words[k] \notin OneLetter \cup STOP_WORDS => Len(h[k]) = Len(h[k - 1]) + 1
    <3>1. h[k - 1] \in Seq(W) /\ words[k] \in W
      BY <1>3, <1>5
    <3>2. Len(Append(h[k - 1], words[k])) = Len(h[k - 1]) + 1 /\ Len(h[k - 1]) \in Nat
      BY <3>1
    <3>3. h[k] = IF words[k] \notin OneLetter \cup STOP_WORDS
                 THEN Append(h[k - 1], words[k]) ELSE h[k - 1]
      BY <1>4
    <3>4. CASE words[k] \notin OneLetter \cup STOP_WORDS
      <4>1. Len(h[k]) = Len(h[k - 1]) + 1
        BY <3>2, <3>3, <3>4
      <4> QED BY <3>2, <4>1
    <3>5. CASE ~(words[k] \notin OneLetter \cup STOP_WORDS)
      <4>1. h[k] = h[k - 1]
        BY <3>3, <3>5
      <4> QED BY <3>2, <3>5, <4>1
    <3> QED BY <3>4, <3>5
  <2> QED BY <2>1, <2>2
<1>7. ASSUME NEW i \in 0..n
      PROVE  \A k \in i..n : Len(h[k]) >= Len(h[i])
  <2> DEFINE P == {k \in 0..n : k >= i => Len(h[k]) >= Len(h[i])}
  <2>1. \A k \in 0..n : Len(h[k]) \in Nat
    BY <1>5
  <2>2. 0 \in P
    BY <2>1
  <2>3. ASSUME NEW k \in 1..n, k - 1 \in P
        PROVE  k \in P
    BY <1>6, <2>1, <2>3
  <2> HIDE DEF P
  <2>4. 0..n \subseteq P
    BY <2>2, <2>3, CountingUp
  <2> QED BY <2>4 DEF P
<1>8. ASSUME NEW i \in 1..n, NEW j \in 1..n, i < j,
             words[i] \notin OneLetter \cup STOP_WORDS,
             words[j] \notin OneLetter \cup STOP_WORDS
      PROVE  Len(h[n]) >= 2
  <2>1. Len(h[i]) >= 1 /\ Len(h[i]) \in Nat
    BY <1>5, <1>6, <1>8
  <2>2. Len(h[j - 1]) >= Len(h[i])
    BY <1>7, <1>8
  <2>3. Len(h[j]) = Len(h[j - 1]) + 1 /\ Len(h[j - 1]) \in Nat
    BY <1>6, <1>8
  <2>4. Len(h[n]) >= Len(h[j]) /\ Len(h[n]) \in Nat
    BY <1>5, <1>7
  <2> QED BY <2>1, <2>2, <2>3, <2>4
<1>9. n \in 0..n
  OBVIOUS
<1> QED BY <1>1, <1>2, <1>5, <1>8, <1>9

(* What is counted of a text, words or pairs of them, makes a sequence,    *)
(* and not the empty one when the text has two words of content.           *)
LEMMA TermsOfText ==
  ASSUME NEW text \in Seq(DOMAIN Lower), NEW x
  PROVE  /\ \E T : Terms(text, x) \in Seq(T)
         /\ (\E i, j \in DOMAIN text : i # j /\ Content(text[i]) /\ Content(text[j]))
              => Terms(text, x) # <<>>
<1>1. PICK n \in Nat : n = Len(text) /\ DOMAIN text = 1..n
  OBVIOUS
<1>2. PICK all : all = tokenize_words(text)
  OBVIOUS
<1>3. PICK W : W = {Lower[w] : w \in DOMAIN Lower}
  OBVIOUS
<1>4. /\ all \in Seq(W) /\ Len(all) = n /\ DOMAIN all = 1..n
      /\ \A i \in 1..n : all[i] = Lower[text[i]]
  <2>1. all = [i \in 1..n |-> Lower[text[i]]]
    BY <1>1, <1>2 DEF tokenize_words
  <2>2. \A i \in 1..n : Lower[text[i]] \in W
    BY <1>1, <1>3
  <2> QED BY <1>1, <2>1, <2>2
<1>5. PICK kept : kept = IF x.elim_stopwords THEN eliminate_stopwords(all) ELSE all
  OBVIOUS
<1>6. kept \in Seq(W)
  BY <1>4, <1>5, ContentKept
<1>7. PICK words : words = IF x.lemmatization THEN lemmatize(kept) ELSE kept
  OBVIOUS
<1>8. words = Prepared(text, x)
  BY <1>2, <1>5, <1>7 DEF Prepared
<1>9. PICK V : words \in Seq(V) /\ Len(words) = Len(kept)
  <2>1. PICK V : V = W \cup {Lemma[w] : w \in W}
    OBVIOUS
  <2>2. CASE x.lemmatization
    <3>1. words = [i \in 1..Len(kept) |-> Lemma[kept[i]]]
      BY <1>6, <1>7, <2>2 DEF lemmatize
    <3>2. \A i \in 1..Len(kept) : Lemma[kept[i]] \in V
      BY <1>6, <2>1
    <3>3. words \in Seq(V) /\ Len(words) = Len(kept)
      BY <1>6, <3>1, <3>2
    <3> QED BY <3>3
  <2>3. CASE ~x.lemmatization
    BY <1>6, <1>7, <2>3
  <2> QED BY <2>2, <2>3
<1>10. PICK m \in Nat : m = Len(words)
  BY <1>9
<1>11. PICK terms : terms = Terms(text, x)
  OBVIOUS
<1>12. terms = IF x.bigrams THEN [i \in 1..m - 1 |-> <<words[i], words[i + 1]>>] ELSE words
  BY <1>8, <1>10, <1>11 DEF Terms
<1>13. \E T : terms \in Seq(T) /\ Len(terms) = IF x.bigrams /\ m > 0 THEN m - 1 ELSE m
  <2>1. CASE x.bigrams
    <3>1. PICK k \in Nat : 1..m - 1 = 1..k /\ k = IF m > 0 THEN m - 1 ELSE m
      <4>1. CASE m > 0
        BY <4>1
      <4>2. CASE m = 0
        BY <4>2
      <4> QED BY <4>1, <4>2
    <3>2. terms = [i \in 1..k |-> <<words[i], words[i + 1]>>]
      BY <1>12, <2>1, <3>1
    <3>3. PICK T : T = {<<words[i], words[i + 1]>> : i \in 1..k}
      OBVIOUS
    <3>4. terms \in [1..k -> T]
      BY <3>2, <3>3
    <3>5. terms \in Seq(T) /\ Len(terms) = k
      BY <3>4
    <3> QED BY <2>1, <3>1, <3>5
  <2>2. CASE ~x.bigrams
    BY <1>9, <1>10, <1>12, <2>2
  <2> QED BY <2>1, <2>2
<1>14. ASSUME NEW i \in DOMAIN text, NEW j \in DOMAIN text, i < j,
              Content(text[i]), Content(text[j])
       PROVE  Terms(text, x) # <<>>
  <2>1. /\ i \in DOMAIN all /\ j \in DOMAIN all
        /\ all[i] \notin OneLetter \cup STOP_WORDS
        /\ all[j] \notin OneLetter \cup STOP_WORDS
    BY <1>1, <1>4, <1>14 DEF Content
  <2>2. Len(eliminate_stopwords(all)) >= 2
    BY <1>4, <1>14, <2>1, ContentKept
  <2>3. Len(all) >= 2
    BY <1>1, <1>4, <1>14
  <2>4. Len(kept) >= 2
    BY <1>5, <2>2, <2>3
  <2>5. m >= 2
    BY <1>9, <1>10, <2>4
  <2>6. Len(terms) # 0
    BY <1>13, <2>5
  <2> QED BY <1>11, <2>6
<1>15. ASSUME NEW i \in DOMAIN text, NEW j \in DOMAIN text, i # j,
              Content(text[i]), Content(text[j])
       PROVE  Terms(text, x) # <<>>
  <2>1. i < j \/ j < i
    BY <1>1, <1>15
  <2> QED BY <1>14, <1>15, <2>1
<1> QED BY <1>11, <1>13, <1>15

-----------------------------------------------------------------------------
(* The texts of a corpus.                                                  *)

ArticleText(dir, file) ==
  FlattenSeq([i \in DOMAIN corpus.articles[dir][file] |->
                WordsOf(corpus.articles[dir][file][i])])

LEMMA SentencesTyped ==
  ASSUME corpus \in Corpora, NEW d \in DOMAIN corpus.articles,
         NEW f \in DOMAIN corpus.articles[d]
  PROVE  /\ corpus.articles[d][f] \in Seq(Seq(Seq(DOMAIN Lower)))
         /\ Sentences(d, f) \in Seq(Seq(Seq(DOMAIN Lower)))
         /\ Len(Sentences(d, f)) = Len(corpus.articles[d][f])
         /\ \A i \in DOMAIN Sentences(d, f) :
              \/ Sentences(d, f)[i] = corpus.articles[d][f][i]
              \/ Sentences(d, f)[i] = <<Last(corpus.articles[d][f][i])>>
         /\ \A i \in DOMAIN corpus.articles[d][f] : corpus.articles[d][f][i] # <<>>
<1>1. PICK a : a = corpus.articles[d][f]
  OBVIOUS
<1>2. PICK L : L = Seq(DOMAIN Lower)
  OBVIOUS
<1>3. a \in Seq(Seq(L) \ {<<>>})
  BY <1>1, <1>2, CorporaAssumption
<1>4. PICK n \in Nat : n = Len(a) /\ DOMAIN a = 1..n
  BY <1>3
<1>5. \A i \in 1..n : a[i] \in Seq(L) /\ a[i] # <<>>
  BY <1>3, <1>4
<1>6. a \in Seq(Seq(L))
  BY <1>3, SeqMonotonic
<1>7. PICK s : s = Sentences(d, f)
  OBVIOUS
<1>8. s = [i \in 1..n |-> IF i = 1 THEN <<Last(a[1])>> ELSE a[i]]
  BY <1>1, <1>4, <1>7 DEF Sentences
<1>9. 1 \in 1..n => <<Last(a[1])>> \in Seq(L)
  <2> SUFFICES ASSUME 1 \in 1..n PROVE <<Last(a[1])>> \in Seq(L)
    OBVIOUS
  <2>1. PICK b : b = a[1]
    OBVIOUS
  <2>2. b \in Seq(L) /\ b # <<>>
    BY <1>5, <2>1
  <2>3. Last(b) \in L
    BY <2>2 DEF Last
  <2> QED BY <2>1, <2>3
<1>10. \A i \in 1..n : s[i] \in Seq(L)
  BY <1>5, <1>8, <1>9
<1>11. s \in Seq(Seq(L)) /\ Len(s) = n /\ DOMAIN s = 1..n
  BY <1>8, <1>10
<1>12. \A i \in 1..n : s[i] = a[i] \/ s[i] = <<Last(a[i])>>
  BY <1>8
<1> QED BY <1>1, <1>2, <1>4, <1>5, <1>6, <1>7, <1>11, <1>12

LEMMA WordsTyped ==
  ASSUME NEW s \in Seq(Seq(DOMAIN Lower))
  PROVE  WordsOf(s) \in Seq(DOMAIN Lower)
BY Flattened DEF WordsOf

LEMMA TextTyped ==
  ASSUME corpus \in Corpora, NEW d \in DOMAIN corpus.articles,
         NEW f \in DOMAIN corpus.articles[d]
  PROVE  ArticleText(d, f) \in Seq(DOMAIN Lower)
<1>1. PICK a : a = corpus.articles[d][f]
  OBVIOUS
<1>2. a \in Seq(Seq(Seq(DOMAIN Lower)))
  BY <1>1, SentencesTyped
<1>3. PICK pieces : pieces = [i \in DOMAIN a |-> WordsOf(a[i])]
  OBVIOUS
<1>4. pieces \in Seq(Seq(DOMAIN Lower))
  <2>1. PICK n \in Nat : DOMAIN a = 1..n
    BY <1>2
  <2>2. \A i \in 1..n : WordsOf(a[i]) \in Seq(DOMAIN Lower)
    BY <1>2, <2>1, WordsTyped
  <2> QED BY <1>3, <2>1, <2>2
<1>5. FlattenSeq(pieces) \in Seq(DOMAIN Lower)
  BY <1>4, Flattened
<1> QED BY <1>1, <1>3, <1>5 DEF ArticleText

Contentful(text) ==
  \E i, j \in DOMAIN text : i # j /\ Content(text[i]) /\ Content(text[j])

(* What is in one of the pieces is in the whole.                           *)
LEMMA ContentfulPart ==
  ASSUME NEW T, NEW ss \in Seq(Seq(T)), NEW i \in DOMAIN ss, Contentful(ss[i])
  PROVE  Contentful(FlattenSeq(ss))
<1>1. PICK s : s = FlattenSeq(ss)
  OBVIOUS
<1>2. PICK at : Concatenates(s, ss, at, Len(ss))
  BY <1>1, Flattened
<1>3. i \in 1..Len(ss) /\ ss[i] \in Seq(T)
  OBVIOUS
<1>4. /\ at[i] \in Nat
      /\ \A k \in DOMAIN ss[i] : at[i] + k \in DOMAIN s /\ s[at[i] + k] = ss[i][k]
  BY <1>2, <1>3 DEF Concatenates
<1>5. PICK k, l \in DOMAIN ss[i] : k # l /\ Content(ss[i][k]) /\ Content(ss[i][l])
  BY DEF Contentful
<1>6. k \in Nat /\ l \in Nat
  BY <1>3
<1>7. at[i] + k # at[i] + l
  BY <1>4, <1>5, <1>6
<1> QED BY <1>1, <1>4, <1>5, <1>7 DEF Contentful

LEMMA ContentfulArticle ==
  ASSUME corpus \in Corpora, NEW d \in DOMAIN corpus.articles,
         NEW f \in DOMAIN corpus.articles[d],
         NEW k \in DOMAIN Sentences(d, f), Contentful(WordsOf(Sentences(d, f)[k]))
  PROVE  Contentful(ArticleText(d, f))
<1>1. PICK a : a = corpus.articles[d][f]
  OBVIOUS
<1>2. a \in Seq(Seq(Seq(DOMAIN Lower)))
  BY <1>1, SentencesTyped
<1>3. PICK s : s = Sentences(d, f)[k]
  OBVIOUS
<1>4. /\ k \in DOMAIN a /\ a[k] \in Seq(Seq(DOMAIN Lower)) /\ a[k] # <<>>
      /\ s = a[k] \/ s = <<Last(a[k])>>
  BY <1>1, <1>2, <1>3, SentencesTyped
<1>5. Contentful(WordsOf(a[k]))
  <2>1. CASE s = a[k]
    BY <1>3, <2>1
  <2>2. CASE s = <<Last(a[k])>>
    <3>1. PICK b : b = a[k]
      OBVIOUS
    <3>2. PICK l \in DOMAIN b : b[l] = Last(b)
      BY <1>4, <3>1 DEF Last
    <3>3. Last(b) \in Seq(DOMAIN Lower)
      BY <1>4, <3>1, <3>2
    <3>4. FlattenSeq(<<Last(b)>>) = Last(b)
      BY <3>3, FlattenOne
    <3>5. Contentful(b[l])
      BY <1>3, <2>2, <3>1, <3>2, <3>4 DEF WordsOf
    <3> QED BY <1>4, <3>1, <3>2, <3>5, ContentfulPart DEF WordsOf
  <2> QED BY <1>4, <2>1, <2>2
<1>6. PICK pieces : pieces = [i \in DOMAIN a |-> WordsOf(a[i])]
  OBVIOUS
<1>7. pieces \in Seq(Seq(DOMAIN Lower))
  <2>1. PICK n \in Nat : DOMAIN a = 1..n
    BY <1>2
  <2>2. \A i \in 1..n : WordsOf(a[i]) \in Seq(DOMAIN Lower)
    BY <1>2, <2>1, WordsTyped
  <2> QED BY <1>6, <2>1, <2>2
<1>8. k \in DOMAIN pieces /\ pieces[k] = WordsOf(a[k])
  BY <1>4, <1>6
<1>9. Contentful(FlattenSeq(pieces))
  BY <1>5, <1>7, <1>8, ContentfulPart
<1> QED BY <1>1, <1>6, <1>9 DEF ArticleText

-----------------------------------------------------------------------------
(* What is counted.                                                        *)

(* The tables of a model: for terms of W, under the labels in S.           *)
Tables(W, S) ==
  [vocabulary : UNION {[U -> [S -> Nat]] : U \in SUBSET W}, word_cnt : [S -> Nat]]

IsModel(m, S) == m \in Tables(Vocabulary(m), S)

Seen(m, term, label) ==
  IF term \in Vocabulary(m) THEN m.vocabulary[term][label] ELSE 0

LEMMA ModelParts ==
  ASSUME NEW S, NEW m, IsModel(m, S)
  PROVE  /\ m = [vocabulary |-> m.vocabulary, word_cnt |-> m.word_cnt]
         /\ m.vocabulary \in [Vocabulary(m) -> [S -> Nat]]
         /\ m.word_cnt \in [S -> Nat]
<1>1. /\ m = [vocabulary |-> m.vocabulary, word_cnt |-> m.word_cnt]
      /\ m.vocabulary \in UNION {[U -> [S -> Nat]] : U \in SUBSET Vocabulary(m)}
      /\ m.word_cnt \in [S -> Nat]
  BY DEF IsModel, Tables
<1>2. PICK U : m.vocabulary \in [U -> [S -> Nat]]
  BY <1>1
<1>3. m.vocabulary \in [DOMAIN m.vocabulary -> [S -> Nat]]
  BY <1>2
<1> QED BY <1>1, <1>3 DEF Vocabulary

LEMMA TablesModel ==
  ASSUME NEW S, NEW W, NEW m \in Tables(W, S)
  PROVE  IsModel(m, S) /\ Vocabulary(m) \subseteq W
<1>1. PICK U \in SUBSET W : m.vocabulary \in [U -> [S -> Nat]]
  BY DEF Tables
<1>2. Vocabulary(m) = U
  BY <1>1 DEF Vocabulary
<1>3. m.vocabulary \in UNION {[V -> [S -> Nat]] : V \in SUBSET Vocabulary(m)}
  BY <1>1, <1>2
<1>4. m = [vocabulary |-> m.vocabulary, word_cnt |-> m.word_cnt]
      /\ m.word_cnt \in [S -> Nat]
  BY DEF Tables
<1> QED BY <1>2, <1>3, <1>4 DEF IsModel, Tables

(* One term more.                                                          *)
LEMMA OneCounted ==
  ASSUME NEW L, NEW m, IsModel(m, ToSet(L)), NEW label \in ToSet(L), NEW term,
         NEW c, c = CountTerm(m, L, label, term)
  PROVE  /\ IsModel(c, ToSet(L))
         /\ Vocabulary(c) = Vocabulary(m) \cup {term}
         /\ \A t : \A l \in ToSet(L) :
              Seen(c, t, l) = IF t = term /\ l = label THEN Seen(m, t, l) + 1
                                                       ELSE Seen(m, t, l)
         /\ \A l \in ToSet(L) :
              c.word_cnt[l] = IF l = label THEN m.word_cnt[l] + 1 ELSE m.word_cnt[l]
<1>1. PICK S : S = ToSet(L)
  OBVIOUS
<1>2. PICK v, w, U : v = m.vocabulary /\ w = m.word_cnt /\ U = Vocabulary(m)
  OBVIOUS
<1>3. /\ m = [vocabulary |-> v, word_cnt |-> w]
      /\ v \in [U -> [S -> Nat]] /\ w \in [S -> Nat] /\ U = DOMAIN v
  BY <1>1, <1>2, ModelParts DEF Vocabulary
<1>4. PICK counts : counts = IF term \in U THEN v[term] ELSE NoCounts(L)
  OBVIOUS
<1>5. /\ counts \in [S -> Nat]
      /\ \A l \in S : counts[l] = IF term \in U THEN v[term][l] ELSE 0
  <2>1. NoCounts(L) = [l \in S |-> 0]
    BY <1>1 DEF NoCounts
  <2>2. CASE term \in U
    BY <1>3, <1>4, <2>2
  <2>3. CASE term \notin U
    BY <1>4, <2>1, <2>3
  <2> QED BY <2>2, <2>3
<1>6. PICK u : u = [t \in U \cup {term} |->
                      IF t = term THEN [counts EXCEPT ![label] = @ + 1] ELSE v[t]]
  OBVIOUS
<1>7. PICK x : x = [w EXCEPT ![label] = @ + 1]
  OBVIOUS
<1>8. c = [vocabulary |-> u, word_cnt |-> x]
  BY <1>2, <1>3, <1>4, <1>6, <1>7 DEF CountTerm
<1>9. label \in S
  BY <1>1
<1>10. /\ u \in [U \cup {term} -> [S -> Nat]]
       /\ \A t \in U : t # term => u[t] = v[t]
       /\ \A l \in S : u[term][l] = (IF term \in U THEN v[term][l] ELSE 0)
                                      + (IF l = label THEN 1 ELSE 0)
  <2>1. PICK y : y = [counts EXCEPT ![label] = @ + 1]
    OBVIOUS
  <2>2. y \in [S -> Nat] /\ \A l \in S : y[l] = counts[l] + (IF l = label THEN 1 ELSE 0)
    BY <1>5, <1>9, <2>1
  <2>3. u = [t \in U \cup {term} |-> IF t = term THEN y ELSE v[t]]
    BY <1>6, <2>1
  <2>4. u \in [U \cup {term} -> [S -> Nat]]
    BY <1>3, <2>2, <2>3
  <2>5. \A t \in U : t # term => u[t] = v[t]
    BY <2>3
  <2>6. u[term] = y
    BY <2>3
  <2> QED BY <1>5, <2>2, <2>4, <2>5, <2>6
<1>11. x \in [S -> Nat] /\ \A l \in S : x[l] = IF l = label THEN w[l] + 1 ELSE w[l]
  BY <1>3, <1>7, <1>9
<1>12. c.vocabulary = u /\ c.word_cnt = x
  BY <1>8
<1>13. Vocabulary(c) = U \cup {term}
  BY <1>10, <1>12 DEF Vocabulary
<1>14. c \in Tables(U \cup {term}, S)
  <2>1. u \in UNION {[V -> [S -> Nat]] : V \in SUBSET (U \cup {term})}
    BY <1>10
  <2> QED BY <1>8, <1>11, <2>1 DEF Tables
<1>15. IsModel(c, S)
  BY <1>13, <1>14 DEF IsModel
<1>16. ASSUME NEW t, NEW l \in S
       PROVE  Seen(c, t, l) = IF t = term /\ l = label THEN Seen(m, t, l) + 1
                                                       ELSE Seen(m, t, l)
  <2>1. Seen(c, t, l) = IF t \in U \cup {term} THEN u[t][l] ELSE 0
    BY <1>12, <1>13 DEF Seen
  <2>2. Seen(m, t, l) = IF t \in U THEN v[t][l] ELSE 0
    BY <1>2 DEF Seen
  <2>3. Seen(m, t, l) \in Nat
    BY <1>3, <2>2
  <2>4. CASE t = term
    <3>1. Seen(c, t, l) = Seen(m, t, l) + (IF l = label THEN 1 ELSE 0)
      BY <1>10, <2>1, <2>2, <2>4
    <3> QED BY <2>3, <2>4, <3>1
  <2>5. CASE t # term
    BY <1>10, <2>1, <2>2, <2>5
  <2> QED BY <2>4, <2>5
<1> QED BY <1>1, <1>2, <1>11, <1>12, <1>13, <1>15, <1>16

LEMMA ModelTables ==
  ASSUME NEW S, NEW W, NEW m, IsModel(m, S), Vocabulary(m) \subseteq W
  PROVE  m \in Tables(W, S)
BY DEF IsModel, Tables

(* The model after each of the terms.                                      *)
Counting(h, m, L, label, terms) ==
  /\ h[0] = m
  /\ \A i \in 1..Len(terms) : h[i] = CountTerm(h[i - 1], L, label, terms[i])

LEMMA CountGrows ==
  ASSUME NEW L, NEW m, IsModel(m, ToSet(L)), NEW T, NEW terms \in Seq(T),
         NEW label, terms # <<>> => label \in ToSet(L)
  PROVE  \E h : /\ Counting(h, m, L, label, terms)
                /\ Count(m, L, label, terms) = h[Len(terms)]
<1>1. PICK n \in Nat : n = Len(terms)
  OBVIOUS
<1>2. DOMAIN terms = 1..n
  BY <1>1
<1>3. PICK V : V = Tables(Vocabulary(m) \cup ToSet(terms), ToSet(L))
  OBVIOUS
<1> DEFINE pick == [U \in SUBSET (1..n) |-> Max(U)]
           put == [i \in 1..n |-> [v \in V |-> CountTerm(v, L, label, terms[i])]]
           Fold(g) == [U \in SUBSET (1..n) |->
                         IF U = {} THEN m
                         ELSE CountTerm(g[U \ {Max(U)}], L, label, terms[Max(U)])]
           G == CHOOSE g : g = Fold(g)
<1>4. IsFiniteSet(1..n) /\ m \in V
  <2>1. IsFiniteSet(1..n)
    BY FS_Interval
  <2>2. Vocabulary(m) \subseteq Vocabulary(m) \cup ToSet(terms)
    OBVIOUS
  <2>3. m \in V
    BY <1>3, <2>2, ModelTables
  <2> QED BY <2>1, <2>3
<1>5. \A U \in SUBSET (1..n) : U # {} => pick[U] = Max(U) /\ pick[U] \in U
  BY MaxPlace
<1>6. \A i \in 1..n : \A v \in V : CountTerm(v, L, label, terms[i]) \in V
  <2> SUFFICES ASSUME NEW i \in 1..n, NEW v \in V
               PROVE  CountTerm(v, L, label, terms[i]) \in V
    OBVIOUS
  <2>1. PICK c, term, W : /\ c = CountTerm(v, L, label, terms[i]) /\ term = terms[i]
                          /\ W = Vocabulary(m) \cup ToSet(terms)
    OBVIOUS
  <2>2. IsModel(v, ToSet(L)) /\ Vocabulary(v) \subseteq W
    BY <1>3, <2>1, TablesModel
  <2>3. term \in W
    BY <1>2, <2>1 DEF ToSet
  <2>3a. label \in ToSet(L)
    BY <1>1
  <2>4. IsModel(c, ToSet(L)) /\ Vocabulary(c) = Vocabulary(v) \cup {term}
    BY <2>1, <2>2, <2>3a, OneCounted
  <2> QED BY <1>3, <2>1, <2>2, <2>3, <2>4, ModelTables
<1>7. put \in [1..n -> [V -> V]]
  BY <1>6
<1>8. \A i \in 1..n : \A v \in V : put[i][v] = CountTerm(v, L, label, terms[i])
  BY Zenon
<1> HIDE DEF pick, put
<1>9. PICK g \in [SUBSET (1..n) -> V] : FoldsSet(g, m, put, pick, 1..n)
  BY <1>4, <1>5, <1>7, FoldExists
<1>10. \A U \in SUBSET (1..n) : g[U] = Fold(g)[U]
  <2> SUFFICES ASSUME NEW U \in SUBSET (1..n) PROVE g[U] = Fold(g)[U]
    OBVIOUS
  <2>1. CASE U = {}
    BY <1>9, <2>1 DEF FoldsSet
  <2>2. CASE U # {}
    <3>1. g[U] = put[Max(U)][g[U \ {Max(U)}]] /\ Max(U) \in 1..n
      BY <1>5, <1>9, <2>2 DEF FoldsSet
    <3>2. g[U \ {Max(U)}] \in V
      BY <1>9
    <3> QED BY <1>8, <2>2, <3>1, <3>2
  <2> QED BY <2>1, <2>2
<1>11. g = Fold(g)
  BY <1>9, <1>10
<1>12. G = Fold(G)
  BY <1>11
<1>13. Count(m, L, label, terms) = G[1..n]
  BY <1>2 DEF Count, FoldLeft, MapThenFoldSet
<1> HIDE DEF G
<1> DEFINE h == [i \in 0..n |-> G[1..i]]
<1>14. h[0] = m
  <2>1. 1..0 = {} /\ {} \in SUBSET (1..n) /\ 0 \in 0..n
    OBVIOUS
  <2>2. G[{}] = m
    BY <1>12, <2>1
  <2> QED BY <2>1, <2>2
<1>15. ASSUME NEW i \in 1..n
       PROVE  h[i] = CountTerm(h[i - 1], L, label, terms[i])
  <2>1. /\ 1..i \in SUBSET (1..n) /\ 1..i # {}
        /\ Max(1..i) = i /\ (1..i) \ {i} = 1..(i - 1)
    BY MaxUpto
  <2>2. G[1..i] = CountTerm(G[1..(i - 1)], L, label, terms[i])
    BY <1>12, <2>1
  <2>3. i \in 0..n /\ i - 1 \in 0..n
    OBVIOUS
  <2> QED BY <2>2, <2>3
<1>16. n \in 0..n /\ h[n] = G[1..n]
  OBVIOUS
<1> HIDE DEF h
<1> QED BY <1>1, <1>13, <1>14, <1>15, <1>16 DEF Counting

PlacesOf(t, terms, i) == {j \in 1..i : terms[j] = t}

LEMMA OnePlaceMore ==
  ASSUME NEW t, NEW terms, NEW i \in Nat, i # 0
  PROVE  /\ Cardinality(PlacesOf(t, terms, i - 1)) \in Nat
         /\ Cardinality(PlacesOf(t, terms, i))
              = Cardinality(PlacesOf(t, terms, i - 1)) + (IF terms[i] = t THEN 1 ELSE 0)
<1>1. PICK P : P = PlacesOf(t, terms, i - 1)
  OBVIOUS
<1>2. P \subseteq 1..(i - 1) /\ i - 1 \in Nat
  BY <1>1 DEF PlacesOf
<1>3. IsFiniteSet(P) /\ Cardinality(P) \in Nat
  <2>1. IsFiniteSet(1..(i - 1))
    BY <1>2, FS_Interval
  <2> QED BY <1>2, <2>1, FS_Subset, FS_CardinalityType
<1>4. \A j : j \in 1..i <=> j \in 1..(i - 1) \/ j = i
  BY <1>2
<1>5. PlacesOf(t, terms, i) = IF terms[i] = t THEN P \cup {i} ELSE P
  BY <1>1, <1>4 DEF PlacesOf
<1>6. i \notin P
  BY <1>2
<1> QED BY <1>1, <1>3, <1>5, <1>6, FS_AddElement

(* A text is counted under its label, each of its terms as often as it     *)
(* occurs, and nothing else changes.                                       *)
CountedIn(c, m, S, label, terms, i) ==
  /\ IsModel(c, S)
  /\ Vocabulary(c) = Vocabulary(m) \cup {terms[j] : j \in 1..i}
  /\ \A t : \A l \in S :
       Seen(c, t, l) = Seen(m, t, l)
                         + (IF l = label THEN Cardinality(PlacesOf(t, terms, i)) ELSE 0)
  /\ \A l \in S : c.word_cnt[l] = m.word_cnt[l] + (IF l = label THEN i ELSE 0)

LEMMA SeenNat ==
  ASSUME NEW S, NEW m, IsModel(m, S), NEW t, NEW l \in S
  PROVE  Seen(m, t, l) \in Nat /\ m.word_cnt[l] \in Nat
BY ModelParts DEF Seen

LEMMA TextCounted ==
  ASSUME NEW L, NEW m, IsModel(m, ToSet(L)), NEW T, NEW terms \in Seq(T),
         NEW label, terms # <<>> => label \in ToSet(L)
  PROVE  CountedIn(Count(m, L, label, terms), m, ToSet(L), label, terms, Len(terms))
<1>1. PICK n \in Nat : n = Len(terms)
  OBVIOUS
<1>2. PICK S : S = ToSet(L)
  OBVIOUS
<1>3. PICK h : /\ Counting(h, m, L, label, terms)
               /\ Count(m, L, label, terms) = h[n]
  BY <1>1, CountGrows
<1>4. h[0] = m /\ \A i \in 1..n : h[i] = CountTerm(h[i - 1], L, label, terms[i])
  BY <1>1, <1>3 DEF Counting
<1> DEFINE P == {i \in 0..n : CountedIn(h[i], m, S, label, terms, i)}
<1>5. 0 \in P
  <2>1. \A t : Cardinality(PlacesOf(t, terms, 0)) = 0
    <3>1. \A t : PlacesOf(t, terms, 0) = {}
      BY DEF PlacesOf
    <3> QED BY <3>1, FS_EmptySet
  <2>2. {terms[j] : j \in 1..0} = {}
    OBVIOUS
  <2>3. \A l \in S : \A t : Seen(m, t, l) \in Nat /\ m.word_cnt[l] \in Nat
    BY <1>2, SeenNat
  <2>4. IsModel(m, S)
    BY <1>2
  <2>5. CountedIn(m, m, S, label, terms, 0)
    <3>1. Vocabulary(m) = Vocabulary(m) \cup {terms[j] : j \in 1..0}
      BY <2>2
    <3>2. \A t : \A l \in S :
            Seen(m, t, l) = Seen(m, t, l)
              + (IF l = label THEN Cardinality(PlacesOf(t, terms, 0)) ELSE 0)
      BY <2>1, <2>3
    <3>3. \A l \in S :
            m.word_cnt[l] = m.word_cnt[l] + (IF l = label THEN 0 ELSE 0)
      BY <2>3
    <3> QED BY <2>4, <3>1, <3>2, <3>3 DEF CountedIn
  <2> QED BY <1>4, <2>5
<1>6. ASSUME NEW i \in 1..n, i - 1 \in P
      PROVE  i \in P
  <2>1. PICK b, c, term : b = h[i - 1] /\ c = h[i] /\ term = terms[i]
    OBVIOUS
  <2>2. CountedIn(b, m, S, label, terms, i - 1)
    BY <1>6, <2>1
  <2>3. IsModel(b, S) /\ c = CountTerm(b, L, label, term)
    BY <1>4, <2>1, <2>2 DEF CountedIn
  <2>3a. label \in ToSet(L)
    BY <1>1
  <2>4. /\ IsModel(c, S)
        /\ Vocabulary(c) = Vocabulary(b) \cup {term}
        /\ \A t : \A l \in S :
             Seen(c, t, l) = IF t = term /\ l = label THEN Seen(b, t, l) + 1
                                                      ELSE Seen(b, t, l)
        /\ \A l \in S :
             c.word_cnt[l] = IF l = label THEN b.word_cnt[l] + 1 ELSE b.word_cnt[l]
    BY <1>2, <2>3, <2>3a, OneCounted
  <2>5. Vocabulary(c) = Vocabulary(m) \cup {terms[j] : j \in 1..i}
    <3>1. \A j : j \in 1..i <=> j \in 1..(i - 1) \/ j = i
      OBVIOUS
    <3>2. {terms[j] : j \in 1..i} = {terms[j] : j \in 1..(i - 1)} \cup {term}
      BY <2>1, <3>1
    <3> QED BY <2>2, <2>4, <3>2 DEF CountedIn
  <2>6. ASSUME NEW t, NEW l \in S
        PROVE  Seen(c, t, l) = Seen(m, t, l)
                 + (IF l = label THEN Cardinality(PlacesOf(t, terms, i)) ELSE 0)
    <3>1. Seen(b, t, l) = Seen(m, t, l)
            + (IF l = label THEN Cardinality(PlacesOf(t, terms, i - 1)) ELSE 0)
      BY <2>2 DEF CountedIn
    <3>2. /\ Cardinality(PlacesOf(t, terms, i - 1)) \in Nat
          /\ Cardinality(PlacesOf(t, terms, i))
               = Cardinality(PlacesOf(t, terms, i - 1)) + (IF term = t THEN 1 ELSE 0)
      <4>1. i \in Nat /\ i # 0
        OBVIOUS
      <4> QED BY <2>1, <4>1, OnePlaceMore
    <3>3. Seen(m, t, l) \in Nat
      BY <1>2, SeenNat
    <3> QED BY <2>4, <3>1, <3>2, <3>3
  <2>7. ASSUME NEW l \in S
        PROVE  c.word_cnt[l] = m.word_cnt[l] + (IF l = label THEN i ELSE 0)
    <3>1. b.word_cnt[l] = m.word_cnt[l] + (IF l = label THEN i - 1 ELSE 0)
      BY <2>2 DEF CountedIn
    <3>2. m.word_cnt[l] \in Nat
      BY <1>2, SeenNat
    <3> QED BY <2>4, <3>1, <3>2
  <2>8. CountedIn(c, m, S, label, terms, i)
    BY <2>4, <2>5, <2>6, <2>7 DEF CountedIn
  <2> QED BY <2>1, <2>8
<1> HIDE DEF P
<1>7. 0..n \subseteq P
  BY <1>5, <1>6, CountingUp
<1>8. n \in P
  BY <1>7
<1> QED BY <1>1, <1>2, <1>3, <1>8 DEF P

-----------------------------------------------------------------------------
(* Tables that are those of the records in C.                              *)

Under(C, label) == {p \in C : p[5] = label}
OccurrencesOf(C, t, label) == {p \in C : p[4] = t /\ p[5] = label}

Reflects(m, C, S) ==
  /\ IsModel(m, S) /\ IsFiniteSet(C) /\ \A p \in C : p[5] \in S
  /\ Vocabulary(m) = TermsIn(C)
  /\ \A t : \A l \in S : Seen(m, t, l) = Cardinality(OccurrencesOf(C, t, l))
  /\ \A l \in S : m.word_cnt[l] = Cardinality(Under(C, l))

LEMMA UntrainedReflects ==
  ASSUME NEW L, NEW m, m = Untrained(L)
  PROVE  Reflects(m, {}, ToSet(L))
<1>1. PICK S : S = ToSet(L)
  OBVIOUS
<1>2. m = [vocabulary |-> <<>>, word_cnt |-> [l \in S |-> 0]]
  BY <1>1 DEF Untrained, NoCounts
<1>3. m.vocabulary = <<>> /\ m.word_cnt = [l \in S |-> 0]
  BY <1>2
<1>4. Vocabulary(m) = {}
  BY <1>3 DEF Vocabulary
<1>5. IsModel(m, S)
  <2>1. <<>> \in [{} -> [S -> Nat]]
    OBVIOUS
  <2>2. <<>> \in UNION {[U -> [S -> Nat]] : U \in SUBSET {}}
    BY <2>1
  <2>3. [l \in S |-> 0] \in [S -> Nat]
    OBVIOUS
  <2>4. m \in Tables({}, S)
    BY <1>2, <2>2, <2>3 DEF Tables
  <2> QED BY <1>4, <2>4 DEF IsModel
<1>6. TermsIn({}) = {}
  BY DEF TermsIn
<1>7. IsFiniteSet({}) /\ Cardinality({}) = 0
  BY FS_EmptySet
<1>8. /\ \A t, l : OccurrencesOf({}, t, l) = {}
      /\ \A l : Under({}, l) = {}
  BY DEF OccurrencesOf, Under
<1>9. \A t : \A l \in S : Seen(m, t, l) = Cardinality(OccurrencesOf({}, t, l))
  BY <1>4, <1>7, <1>8 DEF Seen
<1>10. \A l \in S : m.word_cnt[l] = Cardinality(Under({}, l))
  BY <1>3, <1>7, <1>8
<1> QED BY <1>1, <1>4, <1>5, <1>6, <1>7, <1>9, <1>10 DEF Reflects

(* The records of one text are as many as its places.                      *)
LEMMA RecordsOfText ==
  ASSUME NEW T, NEW terms \in Seq(T), NEW item, NEW i, NEW label
  PROVE  /\ IsFiniteSet(CountedText(item, i, terms, label))
         /\ TermsIn(CountedText(item, i, terms, label))
              = {terms[j] : j \in 1..Len(terms)}
         /\ Cardinality(CountedText(item, i, terms, label)) = Len(terms)
         /\ \A t : Cardinality(OccurrencesOf(CountedText(item, i, terms, label), t, label))
                     = Cardinality(PlacesOf(t, terms, Len(terms)))
<1>1. PICK n \in Nat : n = Len(terms) /\ DOMAIN terms = 1..n
  OBVIOUS
<1>2. PICK at : at = [j \in 1..n |-> <<item, i, j, terms[j], label>>]
  OBVIOUS
<1>3. PICK R : R = CountedText(item, i, terms, label)
  OBVIOUS
<1>4. R = {at[j] : j \in 1..n}
  BY <1>1, <1>2, <1>3 DEF CountedText
<1>5. \A j \in 1..n : at[j][3] = j /\ at[j][4] = terms[j] /\ at[j][5] = label
  BY <1>2
<1>6. ASSUME NEW P \in SUBSET (1..n), NEW Q, Q = {at[j] : j \in P}
      PROVE  IsFiniteSet(Q) /\ Cardinality(Q) = Cardinality(P)
  <2>1. IsFiniteSet(P)
    <3>1. IsFiniteSet(1..n)
      BY FS_Interval
    <3> QED BY <3>1, FS_Subset
  <2>2. PICK b : b = [j \in P |-> at[j]]
    OBVIOUS
  <2>3. b \in Bijection(P, Q)
    <3>1. b \in [P -> Q] /\ \A q \in Q : \E j \in P : b[j] = q
      BY <1>6, <2>2
    <3>2. \A j, k \in P : b[j] = b[k] => j = k
      BY <1>5, <2>2
    <3> QED BY <3>1, <3>2 DEF Bijection, Injection, Surjection, IsInjective
  <2>4. ExistsBijection(P, Q)
    BY <2>3 DEF ExistsBijection
  <2> QED BY <2>1, <2>4, FS_Bijection
<1>7. IsFiniteSet(R) /\ Cardinality(R) = n
  <2>1. 1..n \in SUBSET (1..n) /\ 1 \in Nat
    OBVIOUS
  <2>2. IsFiniteSet(R) /\ Cardinality(R) = Cardinality(1..n)
    BY <1>4, <1>6, <2>1
  <2>3. Cardinality(1..n) = n
    BY FS_Interval
  <2> QED BY <2>2, <2>3
<1>8. TermsIn(R) = {terms[j] : j \in 1..n}
  BY <1>4, <1>5 DEF TermsIn
<1>9. ASSUME NEW t
      PROVE  Cardinality(OccurrencesOf(R, t, label)) = Cardinality(PlacesOf(t, terms, n))
  <2>1. PICK P, Q : P = PlacesOf(t, terms, n) /\ Q = OccurrencesOf(R, t, label)
    OBVIOUS
  <2>2. P \in SUBSET (1..n) /\ \A j \in 1..n : j \in P <=> terms[j] = t
    BY <2>1 DEF PlacesOf
  <2>3. Q = {at[j] : j \in P}
    BY <1>4, <1>5, <2>1, <2>2 DEF OccurrencesOf
  <2> QED BY <1>6, <2>1, <2>2, <2>3
<1> QED BY <1>1, <1>3, <1>7, <1>8, <1>9

(* Counting a text adds the records of it.                                 *)
LEMMA TextReflected ==
  ASSUME NEW L, NEW m, NEW C, Reflects(m, C, ToSet(L)), NEW T, NEW terms \in Seq(T),
         NEW label, terms # <<>> => label \in ToSet(L), NEW item, NEW i,
         C \cap CountedText(item, i, terms, label) = {}
  PROVE  Reflects(Count(m, L, label, terms),
                  C \cup CountedText(item, i, terms, label), ToSet(L))
<1>1. PICK n \in Nat : n = Len(terms)
  OBVIOUS
<1>2. PICK S : S = ToSet(L)
  OBVIOUS
<1>3. PICK R : R = CountedText(item, i, terms, label)
  OBVIOUS
<1>4. PICK c : c = Count(m, L, label, terms)
  OBVIOUS
<1>5. /\ IsModel(m, S) /\ IsFiniteSet(C) /\ Vocabulary(m) = TermsIn(C)
      /\ \A t : \A l \in S : Seen(m, t, l) = Cardinality(OccurrencesOf(C, t, l))
      /\ \A l \in S : m.word_cnt[l] = Cardinality(Under(C, l))
  BY <1>2 DEF Reflects
<1>6. CountedIn(c, m, S, label, terms, n)
  BY <1>1, <1>2, <1>4, <1>5, TextCounted
<1>7. /\ IsModel(c, S)
      /\ Vocabulary(c) = Vocabulary(m) \cup {terms[j] : j \in 1..n}
      /\ \A t : \A l \in S :
           Seen(c, t, l) = Seen(m, t, l)
             + (IF l = label THEN Cardinality(PlacesOf(t, terms, n)) ELSE 0)
      /\ \A l \in S : c.word_cnt[l] = m.word_cnt[l] + (IF l = label THEN n ELSE 0)
  BY <1>6 DEF CountedIn
<1>8. /\ IsFiniteSet(R) /\ TermsIn(R) = {terms[j] : j \in 1..n} /\ Cardinality(R) = n
      /\ \A t : Cardinality(OccurrencesOf(R, t, label)) = Cardinality(PlacesOf(t, terms, n))
  BY <1>1, <1>3, RecordsOfText
<1>9. \A p \in R : p[5] = label
  BY <1>3 DEF CountedText
<1>10. ASSUME NEW A \in SUBSET C, NEW B \in SUBSET R
       PROVE  /\ Cardinality(A \cup B) = Cardinality(A) + Cardinality(B)
              /\ Cardinality(A) \in Nat /\ Cardinality(B) \in Nat
  <2>1. IsFiniteSet(A) /\ IsFiniteSet(B)
    BY <1>5, <1>8, FS_Subset
  <2>2. A \cap B = {}
    BY <1>3
  <2>3. Cardinality(A \cup B) = Cardinality(A) + Cardinality(B) - Cardinality(A \cap B)
    BY <2>1, FS_Union
  <2>4. Cardinality(A \cap B) = 0
    BY <2>2, FS_EmptySet
  <2>5. Cardinality(A) \in Nat /\ Cardinality(B) \in Nat
    BY <2>1, FS_CardinalityType
  <2> QED BY <2>3, <2>4, <2>5
<1>11. IsFiniteSet(C \cup R)
  BY <1>5, <1>8, FS_Union
<1>12. Vocabulary(c) = TermsIn(C \cup R)
  <2>1. TermsIn(C \cup R) = TermsIn(C) \cup TermsIn(R)
    BY DEF TermsIn
  <2> QED BY <1>5, <1>7, <1>8, <2>1
<1>13. ASSUME NEW t, NEW l \in S
       PROVE  Seen(c, t, l) = Cardinality(OccurrencesOf(C \cup R, t, l))
  <2>1. PICK A, B : A = OccurrencesOf(C, t, l) /\ B = OccurrencesOf(R, t, l)
    OBVIOUS
  <2>2. /\ A \in SUBSET C /\ B \in SUBSET R
        /\ OccurrencesOf(C \cup R, t, l) = A \cup B
    BY <2>1 DEF OccurrencesOf
  <2>3. Cardinality(B) = IF l = label THEN Cardinality(PlacesOf(t, terms, n)) ELSE 0
    <3>1. CASE l = label
      BY <1>8, <2>1, <3>1
    <3>2. CASE l # label
      <4>1. B = {}
        BY <1>9, <2>1, <3>2 DEF OccurrencesOf
      <4> QED BY <3>2, <4>1, FS_EmptySet
    <3> QED BY <3>1, <3>2
  <2>4. Cardinality(A \cup B) = Cardinality(A) + Cardinality(B)
    BY <1>10, <2>2
  <2> QED BY <1>5, <1>7, <2>1, <2>2, <2>3, <2>4
<1>14. ASSUME NEW l \in S
       PROVE  c.word_cnt[l] = Cardinality(Under(C \cup R, l))
  <2>1. PICK A, B : A = Under(C, l) /\ B = Under(R, l)
    OBVIOUS
  <2>2. A \in SUBSET C /\ B \in SUBSET R /\ Under(C \cup R, l) = A \cup B
    BY <2>1 DEF Under
  <2>3. Cardinality(B) = IF l = label THEN n ELSE 0
    <3>1. CASE l = label
      <4>1. B = R
        BY <1>9, <2>1, <3>1 DEF Under
      <4> QED BY <1>8, <3>1, <4>1
    <3>2. CASE l # label
      <4>1. B = {}
        BY <1>9, <2>1, <3>2 DEF Under
      <4> QED BY <3>2, <4>1, FS_EmptySet
    <3> QED BY <3>1, <3>2
  <2>4. Cardinality(A \cup B) = Cardinality(A) + Cardinality(B)
    BY <1>10, <2>2
  <2> QED BY <1>5, <1>7, <2>1, <2>2, <2>3, <2>4
<1>15. \A p \in C \cup R : p[5] \in S
  <2>1. \A p \in C : p[5] \in S
    BY <1>2 DEF Reflects
  <2>2. \A p \in R : p[5] = label /\ DOMAIN terms # {}
    BY <1>3 DEF CountedText
  <2>3. DOMAIN terms # {} => terms # <<>>
    OBVIOUS
  <2> QED BY <1>2, <2>1, <2>2, <2>3
<1>16. Reflects(c, C \cup R, S)
  BY <1>7, <1>11, <1>12, <1>13, <1>14, <1>15 DEF Reflects
<1> QED BY <1>2, <1>3, <1>4, <1>16

-----------------------------------------------------------------------------
(* The sentences of a summary.                                             *)

LEMMA RespacedTyped ==
  ASSUME NEW line \in Seq(DOMAIN Lower)
  PROVE  Respaced(line) \in Seq(DOMAIN Lower)
<1>1. PICK n \in Nat : n = Len(line) /\ DOMAIN line = 1..n
  OBVIOUS
<1>2. \A k \in 1..n : line[k] \in DOMAIN Lower
  BY <1>1
<1>3. \A k \in 1..n : k < n => line[k] \in DOMAIN Lower
  BY <1>2
<1>4. PICK x : x = Respaced(line)
  OBVIOUS
<1>5. /\ x = [k \in 1..n |-> x[k]]
      /\ \A k \in 1..n : x[k] = line[k] \/ (x[k] = Spaced[line[k]] /\ line[k] \in DOMAIN Spaced)
  BY <1>1, <1>4, Zenon DEF Respaced, Parted
<1>6. \A k \in 1..n : x[k] \in DOMAIN Lower
  BY <1>2, <1>5, SpacedAssumption
<1> QED BY <1>4, <1>5, <1>6

Glue(v, line) ==
  IF v # <<>> /\ ~Parted(Last(Last(v)[1]), line[1])
  THEN Append(Front(v), <<Last(v)[1] \o Respaced(line)>>)
  ELSE Append(v, <<Respaced(line)>>)

(* Sentences of one line.                                                  *)
Whole == {<<w>> : w \in Seq(DOMAIN Lower)}

LEMMA GlueTyped ==
  ASSUME NEW v \in Seq(Whole), NEW line \in Seq(DOMAIN Lower)
  PROVE  Glue(v, line) \in Seq(Whole)
<1>1. PICK spaced : spaced = Respaced(line)
  OBVIOUS
<1>2. spaced \in Seq(DOMAIN Lower)
  BY <1>1, RespacedTyped
<1>3. v # <<>> => Append(Front(v), <<Last(v)[1] \o spaced>>) \in Seq(Whole)
  <2> SUFFICES ASSUME v # <<>>
               PROVE  Append(Front(v), <<Last(v)[1] \o spaced>>) \in Seq(Whole)
    OBVIOUS
  <2>1. /\ Front(v) \in Seq(Whole) /\ Last(v) \in Whole
    <3>1. PICK n \in Nat : n = Len(v) /\ DOMAIN v = 1..n /\ n # 0
      BY EmptySeq
    <3>2. Front(v) = [i \in 1..n - 1 |-> v[i]]
      BY <3>1 DEF Front
    <3>3. n - 1 \in Nat /\ \A i \in 1..n - 1 : v[i] \in Whole
      BY <3>1
    <3>4. Last(v) = v[n] /\ n \in 1..n
      BY <3>1 DEF Last
    <3> QED BY <3>1, <3>2, <3>3, <3>4
  <2>2. PICK w \in Seq(DOMAIN Lower) : Last(v) = <<w>>
    BY <2>1 DEF Whole
  <2>3. PICK x : x = Last(v)[1] \o spaced
    OBVIOUS
  <2>4. x \in Seq(DOMAIN Lower)
    BY <1>2, <2>2, <2>3
  <2>5. <<x>> \in Whole
    BY <2>4 DEF Whole
  <2> QED BY <2>1, <2>3, <2>5
<1>4. Append(v, <<spaced>>) \in Seq(Whole)
  <2>1. <<spaced>> \in Whole
    BY <1>2 DEF Whole
  <2> QED BY <2>1
<1> QED BY <1>1, <1>3, <1>4 DEF Glue

(* The text after each of the lines.                                       *)
Gluing(h, lines) ==
  h[0] = <<>> /\ \A i \in 1..Len(lines) : h[i] = Glue(h[i - 1], lines[i])

LEMMA GluesGrow ==
  ASSUME NEW d, NEW f, NEW lines, lines = corpus.summaries[d][f],
         lines \in Seq(Seq(DOMAIN Lower))
  PROVE  \E h : Gluing(h, lines) /\ SummarySentences(d, f) = h[Len(lines)]
<1>1. PICK n \in Nat : n = Len(lines)
  OBVIOUS
<1>2. DOMAIN lines = 1..n
  BY <1>1
<1>3. PICK V : V = Seq(Whole)
  OBVIOUS
<1> DEFINE pick == [U \in SUBSET (1..n) |-> Max(U)]
           put == [i \in 1..n |-> [v \in V |-> Glue(v, lines[i])]]
           Fold(g) == [U \in SUBSET (1..n) |->
                         IF U = {} THEN <<>> ELSE Glue(g[U \ {Max(U)}], lines[Max(U)])]
           G == CHOOSE g : g = Fold(g)
<1>4. IsFiniteSet(1..n) /\ <<>> \in V
  BY <1>3, FS_Interval
<1>5. \A U \in SUBSET (1..n) : U # {} => pick[U] = Max(U) /\ pick[U] \in U
  BY MaxPlace
<1>6. \A i \in 1..n : \A v \in V : Glue(v, lines[i]) \in V
  <2>1. \A i \in 1..n : lines[i] \in Seq(DOMAIN Lower)
    BY <1>2
  <2> QED BY <1>3, <2>1, GlueTyped
<1>7. put \in [1..n -> [V -> V]]
  BY <1>6
<1>8. \A i \in 1..n : \A v \in V : put[i][v] = Glue(v, lines[i])
  BY Zenon
<1> HIDE DEF pick, put
<1>9. PICK g \in [SUBSET (1..n) -> V] : FoldsSet(g, <<>>, put, pick, 1..n)
  BY <1>4, <1>5, <1>7, FoldExists
<1>10. \A U \in SUBSET (1..n) : g[U] = Fold(g)[U]
  <2> SUFFICES ASSUME NEW U \in SUBSET (1..n) PROVE g[U] = Fold(g)[U]
    OBVIOUS
  <2>1. CASE U = {}
    BY <1>9, <2>1 DEF FoldsSet
  <2>2. CASE U # {}
    <3>1. g[U] = put[Max(U)][g[U \ {Max(U)}]] /\ Max(U) \in 1..n
      BY <1>5, <1>9, <2>2 DEF FoldsSet
    <3>2. g[U \ {Max(U)}] \in V
      BY <1>9
    <3> QED BY <1>8, <2>2, <3>1, <3>2
  <2> QED BY <2>1, <2>2
<1>11. g = Fold(g)
  BY <1>9, <1>10
<1>12. G = Fold(G)
  BY <1>11
<1>13. SummarySentences(d, f) = G[1..n]
  BY <1>2 DEF SummarySentences, FoldLeft, MapThenFoldSet, Glue
<1> HIDE DEF G
<1> DEFINE h == [i \in 0..n |-> G[1..i]]
<1>14. h[0] = <<>>
  <2>1. 1..0 = {} /\ {} \in SUBSET (1..n) /\ 0 \in 0..n
    OBVIOUS
  <2>2. G[{}] = <<>>
    BY <1>12, <2>1
  <2> QED BY <2>1, <2>2
<1>15. ASSUME NEW i \in 1..n
       PROVE  h[i] = Glue(h[i - 1], lines[i])
  <2>1. /\ 1..i \in SUBSET (1..n) /\ 1..i # {}
        /\ Max(1..i) = i /\ (1..i) \ {i} = 1..(i - 1)
    BY MaxUpto
  <2>2. G[1..i] = Glue(G[1..(i - 1)], lines[i])
    BY <1>12, <2>1
  <2>3. i \in 0..n /\ i - 1 \in 0..n
    OBVIOUS
  <2> QED BY <2>2, <2>3
<1>16. n \in 0..n /\ h[n] = G[1..n]
  OBVIOUS
<1> HIDE DEF h
<1> QED BY <1>1, <1>13, <1>14, <1>15, <1>16 DEF Gluing

(* Of a standard summary every line is a sentence, as it stands.           *)
LEMMA StandardApart ==
  ASSUME corpus \in Corpora, NEW d \in DOMAIN corpus.summaries,
         NEW f \in DOMAIN corpus.summaries[d], Standard(corpus.summaries[d][f]),
         NEW sentence
  PROVE  sentence \in ToSet(SummarySentences(d, f))
           <=> \E line \in ToSet(corpus.summaries[d][f]) : sentence = <<line>>
<1>1. PICK lines : lines = corpus.summaries[d][f]
  OBVIOUS
<1>2. lines \in Seq(Seq(DOMAIN Lower) \ {<<>>})
  BY <1>1, CorporaAssumption
<1>3. PICK n \in Nat : n = Len(lines) /\ DOMAIN lines = 1..n
  BY <1>2
<1>4. \A i \in 1..n : lines[i] \in Seq(DOMAIN Lower) /\ lines[i] # <<>>
  BY <1>2, <1>3
<1>5. lines \in Seq(Seq(DOMAIN Lower))
  BY <1>2, SeqMonotonic
<1>6. \A i \in 1..n :
        /\ lines[i][1] \in Capitals
        /\ \A k \in DOMAIN lines[i] : lines[i][k] \in DOMAIN Spaced <=> k = Len(lines[i])
  BY <1>1, <1>3 DEF Standard, ToSet
<1>7. PICK h : Gluing(h, lines) /\ SummarySentences(d, f) = h[n]
  BY <1>1, <1>3, <1>5, GluesGrow
<1>8. h[0] = <<>> /\ \A i \in 1..n : h[i] = Glue(h[i - 1], lines[i])
  BY <1>3, <1>7 DEF Gluing
<1>9. ASSUME NEW i \in 1..n
      PROVE  Respaced(lines[i]) = lines[i]
  <2>1. PICK l : l = lines[i]
    OBVIOUS
  <2>2. PICK m \in Nat : m = Len(l) /\ DOMAIN l = 1..m /\ l = [k \in 1..m |-> l[k]]
    BY <1>4, <2>1
  <2>3. \A k \in 1..m : k < m => l[k] \notin DOMAIN Spaced
    BY <1>6, <2>1, <2>2
  <2>4. \A k \in 1..m : (IF k < m /\ Parted(l[k], l[k + 1]) THEN Spaced[l[k]] ELSE l[k])
                           = l[k]
    BY <2>3 DEF Parted
  <2>5. Respaced(l) = [k \in 1..m |-> l[k]]
    BY <2>2, <2>4, Zenon DEF Respaced
  <2> QED BY <2>1, <2>2, <2>5
<1>10. \A i \in 1..n : Last(lines[i]) \in DOMAIN Spaced
  <2> SUFFICES ASSUME NEW i \in 1..n PROVE Last(lines[i]) \in DOMAIN Spaced
    OBVIOUS
  <2>1. PICK l : l = lines[i]
    OBVIOUS
  <2>2. Len(l) \in DOMAIN l
    BY <1>4, <2>1, EmptySeq
  <2> QED BY <1>6, <2>1, <2>2 DEF Last
<1> DEFINE First(i) == [k \in 1..i |-> <<lines[k]>>]
           P == {i \in 0..n : h[i] = First(i)}
<1>11. 0 \in P
  <2>1. First(0) = <<>>
    OBVIOUS
  <2> QED BY <1>8, <2>1
<1>12. ASSUME NEW i \in 1..n, i - 1 \in P
       PROVE  i \in P
  <2>1. PICK v, l : v = First(i - 1) /\ l = lines[i]
    OBVIOUS
  <2>2. h[i] = Glue(v, l)
    BY <1>8, <1>12, <2>1
  <2>3. v \in Seq(Whole) /\ Len(v) = i - 1
    <3>1. \A k \in 1..(i - 1) : <<lines[k]>> \in Whole
      BY <1>4 DEF Whole
    <3> QED BY <2>1, <3>1
  <2>4. v # <<>> => Parted(Last(Last(v)[1]), l[1])
    <3> SUFFICES ASSUME v # <<>> PROVE Parted(Last(Last(v)[1]), l[1])
      OBVIOUS
    <3>1. i - 1 \in 1..(i - 1) /\ i - 1 \in 1..n
      BY <2>1
    <3>2. Last(v) = <<lines[i - 1]>>
      BY <2>1, <2>3, <3>1 DEF Last
    <3>3. Last(v)[1] = lines[i - 1]
      BY <3>2
    <3> QED BY <1>6, <1>10, <2>1, <3>1, <3>3 DEF Parted
  <2>5. h[i] = Append(v, <<l>>)
    <3>1. Respaced(l) = l
      BY <1>9, <2>1
    <3> QED BY <2>2, <2>4, <3>1 DEF Glue
  <2>6. Append(v, <<l>>) = First(i)
    <3>1. PICK u, w, x : u = Append(v, x) /\ w = First(i) /\ x = <<l>>
      OBVIOUS
    <3>2. x \in Whole
      BY <1>4, <2>1, <3>1 DEF Whole
    <3>3. u \in Seq(Whole) /\ Len(u) = i /\ u[i] = x /\ \A k \in 1..(i - 1) : u[k] = v[k]
      BY <2>3, <3>1, <3>2
    <3>4. w \in Seq(Whole) /\ Len(w) = i /\ \A k \in 1..i : w[k] = <<lines[k]>>
      <4>1. \A k \in 1..i : <<lines[k]>> \in Whole
        BY <1>4 DEF Whole
      <4> QED BY <3>1, <4>1
    <3>5. \A k \in 1..i : k = i \/ k \in 1..(i - 1)
      OBVIOUS
    <3>6. \A k \in 1..(i - 1) : v[k] = <<lines[k]>>
      BY <2>1
    <3>7. \A k \in 1..i : u[k] = w[k]
      BY <2>1, <3>1, <3>3, <3>4, <3>5, <3>6
    <3> QED BY <3>1, <3>3, <3>4, <3>7, SeqEqual
  <2> HIDE DEF First
  <2> QED BY <2>5, <2>6
<1> HIDE DEF P
<1>13. 0..n \subseteq P
  BY <1>11, <1>12, CountingUp
<1>14. n \in P
  BY <1>13
<1>15. SummarySentences(d, f) = First(n)
  BY <1>7, <1>14 DEF P
<1>16. sentence \in ToSet(First(n)) <=> \E k \in 1..n : sentence = <<lines[k]>>
  BY Zenon DEF ToSet
<1>17. (\E line \in ToSet(lines) : sentence = <<line>>)
         <=> \E k \in 1..n : sentence = <<lines[k]>>
  BY <1>3, Zenon DEF ToSet
<1> HIDE DEF First
<1> QED BY <1>1, <1>15, <1>16, <1>17

-----------------------------------------------------------------------------
(* Learning an article adds the records of it.                             *)

(* An item to train on: an article, and its summary where there is one.    *)
Trainable(item) ==
  /\ corpus \in Corpora
  /\ item.dir \in DOMAIN corpus.articles
  /\ item.file \in DOMAIN corpus.articles[item.dir]
  /\ test.summarize => /\ item.dir \in DOMAIN corpus.summaries
                       /\ item.ref \in DOMAIN corpus.summaries[item.dir]

LEMMA ArticleReflected ==
  ASSUME NEW item, Trainable(item), ~test.summarize,
         NEW C, Reflects(model, C, ToSet(Labels)), \A p \in C : p[1] # item,
         ~(UnknownClass(item.dir) /\ ArticleTerms(item.dir, item.file) # <<>>)
  PROVE  Reflects(LearnArticle(item), C \cup CountedOf(item), ToSet(Labels))
<1>1. PICK terms, label : /\ terms = ArticleTerms(item.dir, item.file)
                          /\ label = item.dir
  OBVIOUS
<1>2. PICK text : text = ArticleText(item.dir, item.file)
  OBVIOUS
<1>3. terms = Terms(text, test)
  BY <1>1, <1>2 DEF ArticleTerms, ArticleText
<1>4. text \in Seq(DOMAIN Lower)
  BY <1>2, TextTyped DEF Trainable
<1>5. PICK T : terms \in Seq(T)
  BY <1>3, <1>4, TermsOfText
<1>6. terms # <<>> => label \in ToSet(Labels)
  BY <1>1 DEF UnknownClass, Labels, ClassSet
<1>7. CountedOf(item) = CountedText(item, 1, terms, label)
  <2>1. PICK texts : texts = TextsOf(item)
    OBVIOUS
  <2>2. texts = <<terms>>
    BY <1>1, <2>1 DEF TextsOf
  <2>3. DOMAIN texts = {1} /\ texts[1] = terms
    BY <2>2
  <2>4. Belongs(item, 1) = label
    BY <1>1 DEF Belongs
  <2>5. CountedOf(item) = UNION {CountedText(item, i, texts[i], Belongs(item, i)) :
                                   i \in DOMAIN texts}
    BY <2>1 DEF CountedOf
  <2> QED BY <2>3, <2>4, <2>5
<1>8. C \cap CountedText(item, 1, terms, label) = {}
  <2>1. \A p \in CountedText(item, 1, terms, label) : p[1] = item
    BY DEF CountedText
  <2> QED BY <2>1
<1>9. PICK m, L : m = model /\ L = Labels
  OBVIOUS
<1>10. Reflects(m, C, ToSet(L)) /\ (terms # <<>> => label \in ToSet(L))
  BY <1>6, <1>9
<1>11. Reflects(Count(m, L, label, terms), C \cup CountedText(item, 1, terms, label), ToSet(L))
  BY <1>5, <1>8, <1>10, TextReflected
<1>12. LearnArticle(item) = Count(m, L, label, terms)
  BY <1>1, <1>9 DEF LearnArticle
<1> QED BY <1>7, <1>9, <1>11, <1>12

Side(sentence, chosen) == IF sentence \in chosen THEN "yes" ELSE "no"

(* The model after each of the sentences.                                  *)
Learning(h, m, s, chosen) ==
  /\ h[0] = m
  /\ \A i \in 1..Len(s) :
       h[i] = Count(h[i - 1], Labels, Side(s[i], chosen), SentenceTerms(s[i]))

LEMMA SidesLabels ==
  ASSUME test.summarize
  PROVE  /\ ToSet(Labels) = {"yes", "no"}
         /\ \A sentence, chosen : Side(sentence, chosen) \in ToSet(Labels)
<1>1. PICK L : L = Labels
  OBVIOUS
<1>2. L = <<"yes", "no">>
  BY <1>1 DEF Labels
<1>3. DOMAIN L = {1, 2} /\ L[1] = "yes" /\ L[2] = "no"
  BY <1>2
<1>4. ToSet(L) = {"yes", "no"}
  BY <1>3 DEF ToSet
<1> QED BY <1>1, <1>4 DEF Side

LEMMA LearnsGrow ==
  ASSUME NEW item, test.summarize, IsModel(model, ToSet(Labels)),
         NEW s, s = Sentences(item.dir, item.file), s \in Seq(Seq(Seq(DOMAIN Lower))),
         NEW chosen, chosen = ToSet(SummarySentences(item.dir, item.ref))
  PROVE  \E h : /\ Learning(h, model, s, chosen)
                /\ LearnSentences(item) = h[Len(s)]
<1>1. PICK n \in Nat : n = Len(s)
  OBVIOUS
<1>2. DOMAIN s = 1..n
  BY <1>1
<1>3. PICK m, L : m = model /\ L = Labels
  OBVIOUS
<1>4. PICK W : W = Vocabulary(m) \cup UNION {ToSet(SentenceTerms(s[i])) : i \in 1..n}
  OBVIOUS
<1>5. PICK V : V = Tables(W, ToSet(L))
  OBVIOUS
<1> DEFINE pick == [U \in SUBSET (1..n) |-> Max(U)]
           Learn(v, i) == Count(v, L, Side(s[i], chosen), SentenceTerms(s[i]))
           put == [i \in 1..n |-> [v \in V |-> Learn(v, i)]]
           Fold(g) == [U \in SUBSET (1..n) |->
                         IF U = {} THEN m ELSE Learn(g[U \ {Max(U)}], Max(U))]
           G == CHOOSE g : g = Fold(g)
<1>6. IsFiniteSet(1..n) /\ m \in V
  <2>1. IsFiniteSet(1..n)
    BY FS_Interval
  <2>2. IsModel(m, ToSet(L)) /\ Vocabulary(m) \subseteq W
    BY <1>3, <1>4
  <2>3. m \in V
    BY <1>5, <2>2, ModelTables
  <2> QED BY <2>1, <2>3
<1>7. \A U \in SUBSET (1..n) : U # {} => pick[U] = Max(U) /\ pick[U] \in U
  BY MaxPlace
<1>8. ASSUME NEW i \in 1..n, NEW v \in V
      PROVE  Learn(v, i) \in V
  <2>1. PICK terms, label, c : /\ terms = SentenceTerms(s[i])
                               /\ label = Side(s[i], chosen)
                               /\ c = Count(v, L, label, terms)
    OBVIOUS
  <2>2. s[i] \in Seq(Seq(DOMAIN Lower))
    BY <1>2
  <2>3. WordsOf(s[i]) \in Seq(DOMAIN Lower)
    BY <2>2, WordsTyped
  <2>4. PICK T : terms \in Seq(T)
    BY <2>1, <2>3, TermsOfText DEF SentenceTerms
  <2>5. label \in ToSet(L)
    BY <1>3, <2>1, SidesLabels
  <2>6. IsModel(v, ToSet(L)) /\ Vocabulary(v) \subseteq W
    BY <1>5, TablesModel
  <2>7. CountedIn(c, v, ToSet(L), label, terms, Len(terms))
    BY <2>1, <2>4, <2>5, <2>6, TextCounted
  <2>8. /\ IsModel(c, ToSet(L))
        /\ Vocabulary(c) = Vocabulary(v) \cup {terms[j] : j \in 1..Len(terms)}
    BY <2>7 DEF CountedIn
  <2>9. {terms[j] : j \in 1..Len(terms)} \subseteq W
    <3>1. DOMAIN terms = 1..Len(terms)
      BY <2>4
    <3>2. {terms[j] : j \in 1..Len(terms)} = ToSet(SentenceTerms(s[i]))
      BY <2>1, <3>1 DEF ToSet
    <3> QED BY <1>4, <3>2
  <2>10. c \in V
    BY <1>5, <2>6, <2>8, <2>9, ModelTables
  <2> QED BY <2>1, <2>10
<1>9. put \in [1..n -> [V -> V]]
  BY <1>8
<1>10. \A i \in 1..n : \A v \in V : put[i][v] = Learn(v, i)
  BY Zenon
<1> HIDE DEF pick, put
<1>11. PICK g \in [SUBSET (1..n) -> V] : FoldsSet(g, m, put, pick, 1..n)
  BY <1>6, <1>7, <1>9, FoldExists
<1>12. \A U \in SUBSET (1..n) : g[U] = Fold(g)[U]
  <2> SUFFICES ASSUME NEW U \in SUBSET (1..n) PROVE g[U] = Fold(g)[U]
    OBVIOUS
  <2>1. CASE U = {}
    BY <1>11, <2>1 DEF FoldsSet
  <2>2. CASE U # {}
    <3>1. g[U] = put[Max(U)][g[U \ {Max(U)}]] /\ Max(U) \in 1..n
      BY <1>7, <1>11, <2>2 DEF FoldsSet
    <3>2. g[U \ {Max(U)}] \in V
      BY <1>11
    <3> QED BY <1>10, <2>2, <3>1, <3>2
  <2> QED BY <2>1, <2>2
<1>13. g = Fold(g)
  BY <1>11, <1>12
<1>14. G = Fold(G)
  BY <1>13
<1>15. LearnSentences(item) = G[1..n]
  BY <1>2, <1>3 DEF LearnSentences, FoldLeft, MapThenFoldSet, Side
<1> HIDE DEF G
<1> DEFINE h == [i \in 0..n |-> G[1..i]]
<1>16. h[0] = m
  <2>1. 1..0 = {} /\ {} \in SUBSET (1..n) /\ 0 \in 0..n
    OBVIOUS
  <2>2. G[{}] = m
    BY <1>14, <2>1
  <2> QED BY <2>1, <2>2
<1>17. ASSUME NEW i \in 1..n
       PROVE  h[i] = Learn(h[i - 1], i)
  <2>1. /\ 1..i \in SUBSET (1..n) /\ 1..i # {}
        /\ Max(1..i) = i /\ (1..i) \ {i} = 1..(i - 1)
    BY MaxUpto
  <2>2. G[1..i] = Learn(G[1..(i - 1)], i)
    BY <1>14, <2>1
  <2>3. i \in 0..n /\ i - 1 \in 0..n
    OBVIOUS
  <2> QED BY <2>2, <2>3
<1>18. n \in 0..n /\ h[n] = G[1..n]
  OBVIOUS
<1> HIDE DEF h
<1> QED BY <1>1, <1>3, <1>15, <1>16, <1>17, <1>18 DEF Learning

LEMMA SentencesReflected ==
  ASSUME NEW item, Trainable(item), test.summarize,
         NEW C, Reflects(model, C, ToSet(Labels)), \A p \in C : p[1] # item
  PROVE  Reflects(LearnSentences(item), C \cup CountedOf(item), ToSet(Labels))
<1>1. PICK s, chosen, L : /\ s = Sentences(item.dir, item.file)
                          /\ chosen = ToSet(SummarySentences(item.dir, item.ref))
                          /\ L = Labels
  OBVIOUS
<1>2. s \in Seq(Seq(Seq(DOMAIN Lower)))
  BY <1>1, SentencesTyped DEF Trainable
<1>3. PICK n \in Nat : n = Len(s) /\ DOMAIN s = 1..n
  BY <1>2
<1>4. IsModel(model, ToSet(Labels))
  BY DEF Reflects
<1>5. PICK h : Learning(h, model, s, chosen) /\ LearnSentences(item) = h[n]
  BY <1>1, <1>2, <1>3, <1>4, LearnsGrow
<1>6. PICK texts : texts = TextsOf(item)
  OBVIOUS
<1>7. texts = [i \in 1..n |-> SentenceTerms(s[i])]
  BY <1>1, <1>3, <1>6 DEF TextsOf
<1>8. \A i \in 1..n : Side(s[i], chosen) = Belongs(item, i)
  BY <1>1 DEF Side, Belongs
<1> DEFINE Text(i) == CountedText(item, i, texts[i], Belongs(item, i))
           Upto(i) == UNION {Text(k) : k \in 1..i}
           P == {i \in 0..n : Reflects(h[i], C \cup Upto(i), ToSet(L))}
<1>9. 0 \in P
  <2>1. C \cup Upto(0) = C
    OBVIOUS
  <2>2. h[0] = model
    BY <1>5 DEF Learning
  <2> QED BY <1>1, <2>1, <2>2
<1>10. ASSUME NEW i \in 1..n, i - 1 \in P
       PROVE  i \in P
  <2>1. PICK m, terms, label, D : /\ m = h[i - 1] /\ terms = texts[i]
                                  /\ label = Belongs(item, i) /\ D = C \cup Upto(i - 1)
    OBVIOUS
  <2>2. Reflects(m, D, ToSet(L))
    BY <1>10, <2>1
  <2>3. terms = SentenceTerms(s[i]) /\ label = Side(s[i], chosen)
    BY <1>7, <1>8, <2>1
  <2>4. label \in ToSet(L)
    BY <1>1, <2>3, SidesLabels
  <2>5. PICK T : terms \in Seq(T)
    <3>1. s[i] \in Seq(Seq(DOMAIN Lower))
      BY <1>2, <1>3
    <3>2. WordsOf(s[i]) \in Seq(DOMAIN Lower)
      BY <3>1, WordsTyped
    <3> QED BY <2>3, <3>2, TermsOfText DEF SentenceTerms
  <2>6. h[i] = Count(m, L, label, terms)
    <3>1. h[i] = Count(h[i - 1], Labels, Side(s[i], chosen), SentenceTerms(s[i]))
      BY <1>3, <1>5 DEF Learning
    <3> QED BY <1>1, <2>1, <2>3, <3>1
  <2>7. D \cap CountedText(item, i, terms, label) = {}
    <3>1. \A p \in CountedText(item, i, terms, label) : p[1] = item /\ p[2] = i
      BY DEF CountedText
    <3>2. \A p \in Upto(i - 1) : p[2] # i
      <4>1. \A k \in 1..(i - 1) : k # i
        OBVIOUS
      <4>2. \A k : \A p \in Text(k) : p[2] = k
        BY DEF CountedText
      <4> QED BY <4>1, <4>2
    <3> QED BY <2>1, <3>1, <3>2
  <2>8. Reflects(Count(m, L, label, terms), D \cup CountedText(item, i, terms, label), ToSet(L))
    BY <2>2, <2>4, <2>5, <2>7, TextReflected
  <2>9. D \cup CountedText(item, i, terms, label) = C \cup Upto(i)
    <3>1. \A k : k \in 1..i <=> k \in 1..(i - 1) \/ k = i
      OBVIOUS
    <3>2. Upto(i) = Upto(i - 1) \cup Text(i)
      BY <3>1
    <3> QED BY <2>1, <3>2
  <2>10. PICK c, E : /\ c = Count(m, L, label, terms)
                     /\ E = D \cup CountedText(item, i, terms, label)
    OBVIOUS
  <2>11. Reflects(c, E, ToSet(L))
    BY <2>8, <2>10
  <2>12. i \in 0..n /\ c = h[i] /\ E = C \cup Upto(i)
    BY <2>6, <2>9, <2>10
  <2> HIDE DEF Upto
  <2> QED BY <2>11, <2>12
<1> HIDE DEF P
<1>11. 0..n \subseteq P
  BY <1>9, <1>10, CountingUp
<1>12. n \in P
  BY <1>11
<1>13. Upto(n) = CountedOf(item)
  <2>1. DOMAIN texts = 1..n
    BY <1>7
  <2> QED BY <1>6, <2>1 DEF CountedOf
<1> QED BY <1>1, <1>5, <1>12, <1>13 DEF P

-----------------------------------------------------------------------------
(* What training has learnt by the time of each step.                      *)

LEMMA ToTrainOnce ==
  ASSUME Listed
  PROVE  IsInjective(ToTrain)
<1>1. TrainPart \in [Dirs -> Seq(Items)]
  <2>1. \A d \in Dirs : TrainPart[d] \in Seq(Items)
    BY TrainPartIs
  <2> QED BY <2>1 DEF TrainPart
<1>2. ToTrain = InEachDir(TrainPart)
  BY DEF ToTrain, TrainPart
<1>3. PICK s : s = ToTrain
  OBVIOUS
<1>4. PICK at : Placed(s, TrainPart, at, Dirs)
  BY <1>1, <1>2, <1>3, ListedFiles, EachDirPlaced
<1>5. ASSUME NEW i \in DOMAIN s, NEW j \in DOMAIN s, s[i] = s[j]
      PROVE  i = j
  <2>1. PICK d, k : d \in Dirs /\ k \in DOMAIN TrainPart[d] /\ i = at[d] + k
    BY <1>4 DEF Placed
  <2>2. PICK e, l : e \in Dirs /\ l \in DOMAIN TrainPart[e] /\ j = at[e] + l
    BY <1>4 DEF Placed
  <2>3. s[i] = TrainPart[d][k] /\ s[j] = TrainPart[e][l]
    BY <1>4, <2>1, <2>2 DEF Placed
  <2>4. TrainedOn(d, k, s[i]) /\ TrainedOn(e, l, s[i])
    BY <1>5, <2>1, <2>2, <2>3, TrainPartIs
  <2>5. s[i].dir = d /\ s[i].dir = e
    BY <2>4 DEF TrainedOn
  <2>6. PICK f : f = articles.files[d]
    OBVIOUS
  <2>7. /\ k \in 1..Cut(Len(f)) /\ l \in 1..Cut(Len(f))
        /\ s[i].file = f[k] /\ s[i].file = f[l]
    <3>1. PICK item : item = s[i]
      OBVIOUS
    <3>2. TrainedOn(d, k, item) /\ TrainedOn(d, l, item)
      BY <2>4, <2>5, <3>1
    <3>3. k \in 1..Cut(Len(f)) /\ item.file = f[k]
      BY <2>6, <3>2 DEF TrainedOn
    <3>4. l \in 1..Cut(Len(f)) /\ item.file = f[l]
      BY <2>6, <3>2 DEF TrainedOn
    <3> QED BY <3>1, <3>3, <3>4
  <2>8. f \in Seq(DOMAIN corpus.articles[d])
    BY <2>1, <2>6, ListedFiles DEF Enumerates
  <2>9. Cut(Len(f)) \in 0..Len(f) /\ DOMAIN f = 1..Len(f) /\ Len(f) \in Nat
    <3>1. Cut(Len(f)) \in 0..Len(f)
      BY <2>8, Parts
    <3> QED BY <2>8, <3>1
  <2>10. k \in DOMAIN f /\ l \in DOMAIN f
    BY <2>7, <2>9
  <2>11. k = l
    <3>1. \A x, y \in DOMAIN f : f[x] = f[y] => x = y
      BY <2>1, <2>6, ListedFiles DEF Enumerates
    <3> QED BY <2>7, <2>10, <3>1
  <2> QED BY <2>1, <2>2, <2>5, <2>11
<1> QED BY <1>3, <1>5 DEF IsInjective

LEMMA ToTrainTrainable ==
  ASSUME Listed, NEW item \in ToSet(ToTrain)
  PROVE  Trainable(item)
<1>1. PICK d, k : d \in Dirs /\ TrainedOn(d, k, item)
  BY ToTrainIs
<1>2. PICK f : f = articles.files[d]
  OBVIOUS
<1>3. /\ k \in 1..Cut(Len(f)) /\ item.dir = d /\ item.file = f[k]
      /\ test.summarize => item.ref = summaries.files[d][k] /\ k <= Len(summaries.files[d])
  BY <1>1, <1>2 DEF TrainedOn
<1>4. d \in DOMAIN corpus.articles /\ f \in Seq(DOMAIN corpus.articles[d])
  BY <1>1, <1>2, ListedFiles DEF Enumerates
<1>5. k \in DOMAIN f /\ k \in Nat /\ k >= 1
  <2>1. Cut(Len(f)) \in 0..Len(f)
    BY <1>4, Parts
  <2>2. DOMAIN f = 1..Len(f) /\ Len(f) \in Nat
    BY <1>4
  <2> QED BY <1>3, <2>1, <2>2
<1>6. f[k] \in DOMAIN corpus.articles[d]
  BY <1>4, <1>5
<1>7. ASSUME test.summarize
      PROVE  /\ d \in DOMAIN corpus.summaries
             /\ item.ref \in DOMAIN corpus.summaries[d]
  <2>1. PICK g : g = summaries.files[d]
    OBVIOUS
  <2>2. d \in DOMAIN corpus.summaries /\ g \in Seq(DOMAIN corpus.summaries[d])
    BY <1>1, <1>7, <2>1, ListedFiles DEF Enumerates
  <2>3. k \in DOMAIN g
    BY <1>3, <1>5, <1>7, <2>1, <2>2
  <2> QED BY <1>3, <1>7, <2>1, <2>2, <2>3
<1>8. corpus \in Corpora
  BY DEF Listed
<1> QED BY <1>3, <1>4, <1>6, <1>7, <1>8 DEF Trainable

(* The texts are those of the files, which do not change.                  *)
LEMMA SameTexts ==
  ASSUME UNCHANGED <<corpus, variant>>
  PROVE  \A item : TextsOf(item)' = TextsOf(item) /\ CountedOf(item)' = CountedOf(item)
<1>1. corpus' = corpus /\ test' = test
  BY DEF test
<1>2. \A d, f : /\ Sentences(d, f)' = Sentences(d, f)
                /\ ArticleTerms(d, f)' = ArticleTerms(d, f)
  BY <1>1 DEF Sentences, ArticleTerms
<1>3. \A s : SentenceTerms(s)' = SentenceTerms(s)
  BY <1>1 DEF SentenceTerms
<1>4. \A item : TextsOf(item)' = TextsOf(item)
  BY <1>1, <1>2, <1>3 DEF TextsOf
<1>5. \A d, f : SummarySentences(d, f)' = SummarySentences(d, f)
  BY <1>1 DEF SummarySentences, FoldLeft, MapThenFoldSet
<1>6. \A item, i : Belongs(item, i)' = Belongs(item, i)
  BY <1>1, <1>2, <1>5 DEF Belongs
<1>7. \A item : CountedOf(item)' = CountedOf(item)
  BY <1>4, <1>6 DEF CountedOf
<1> QED BY <1>4, <1>7

LEMMA CountedItems ==
  \A p \in Counted : p[1] \in trained
BY DEF Counted, CountedOf, CountedText

Once == IsInjective(todo) /\ trained \cap ToSet(todo) = {}

Learnt ==
  /\ step \in {"articles", "summaries", "split", "done"} => Vocabulary(model) = {}
  /\ step = "train" => Once
  /\ step \in {"train", "test", "report"} => Reflects(model, Counted, ToSet(Labels))
  /\ step = "failed" => \/ Vocabulary(model) = {}
                        \/ Reflects(model, Counted, ToSet(Labels))

(* What leaves the tables, the files and what was trained on alone.        *)
LEMMA SameLearnt ==
  ASSUME UNCHANGED <<corpus, variant, learnt>>
  PROVE  /\ Counted' = Counted /\ Vocabulary(model)' = Vocabulary(model)
         /\ Reflects(model, Counted, ToSet(Labels))'
              <=> Reflects(model, Counted, ToSet(Labels))
<1>1. corpus' = corpus /\ variant' = variant /\ model' = model /\ trained' = trained
  BY DEF learnt
<1>2. \A item : CountedOf(item)' = CountedOf(item)
  BY SameTexts
<1>3. Counted' = Counted
  BY <1>1, <1>2 DEF Counted
<1>4. Labels' = Labels
  BY <1>1 DEF Labels, test
<1> QED BY <1>1, <1>3, <1>4

LEMMA TrainingReflects ==
  ASSUME Split, Learnt, train_classifier \/ train_summarizer, ~Fail
  PROVE  Learnt'
<1>1. /\ step = "train" /\ todo # <<>> /\ Listed /\ Training /\ Once
      /\ Reflects(model, Counted, ToSet(Labels))
  BY DEF train_classifier, train_summarizer, Split, Learnt
<1>2. PICK item : item = Head(todo)
  OBVIOUS
<1>3. /\ trained' = trained \cup {item} /\ todo' = Tail(todo)
      /\ step' = "train" /\ corpus' = corpus /\ variant' = variant
  BY <1>1, <1>2 DEF train_classifier, train_summarizer
<1>4. /\ item \in ToSet(todo) /\ item = todo[1]
      /\ ToSet(todo) = {item} \cup ToSet(Tail(todo)) /\ 1 \in DOMAIN todo
      /\ \A i \in DOMAIN Tail(todo) : i + 1 \in DOMAIN todo /\ Tail(todo)[i] = todo[i + 1]
  BY <1>1, <1>2, HeadAndTail DEF Training
<1>5. Trainable(item)
  BY <1>1, <1>4, ToTrainTrainable DEF Training
<1>6. item \notin trained
  BY <1>1, <1>4 DEF Once
<1>7. \A p \in Counted : p[1] # item
  BY <1>6, CountedItems
<1>8. Reflects(model', Counted \cup CountedOf(item), ToSet(Labels))
  <2>1. CASE train_classifier
    <3>1. /\ ~test.summarize /\ model' = LearnArticle(item)
          /\ ~(UnknownClass(item.dir) /\ ArticleTerms(item.dir, item.file) # <<>>)
      BY <1>2, <2>1 DEF train_classifier
    <3> QED BY <1>1, <1>5, <1>7, <3>1, ArticleReflected
  <2>2. CASE train_summarizer
    <3>1. test.summarize /\ model' = LearnSentences(item)
      BY <1>2, <2>2 DEF train_summarizer
    <3> QED BY <1>1, <1>5, <1>7, <3>1, SentencesReflected
  <2> QED BY <2>1, <2>2
<1>9. Counted' = Counted \cup CountedOf(item)
  <2>1. \A x : CountedOf(x)' = CountedOf(x)
    BY <1>3, SameTexts
  <2> QED BY <1>3, <2>1 DEF Counted
<1>10. Labels' = Labels
  BY <1>3 DEF Labels, test
<1>11. Reflects(model, Counted, ToSet(Labels))'
  BY <1>8, <1>9, <1>10
<1>12. Once'
  <2>1. PICK t, r : t = todo /\ r = Tail(todo)
    OBVIOUS
  <2>2. todo \in Seq(Items)
    BY <1>1 DEF Training
  <2>3. \A i, j \in DOMAIN t : t[i] = t[j] => i = j
    BY <1>1, <2>1 DEF Once, IsInjective
  <2>4. \A i \in DOMAIN r : i \in Nat /\ i # 0 /\ i + 1 \in DOMAIN t /\ r[i] = t[i + 1]
    BY <1>1, <1>4, <2>1, <2>2, HeadAndTail
  <2>5. \A i, j \in DOMAIN r : r[i] = r[j] => i = j
    <3> SUFFICES ASSUME NEW i \in DOMAIN r, NEW j \in DOMAIN r, r[i] = r[j]
                 PROVE  i = j
      OBVIOUS
    <3>1. i + 1 = j + 1
      BY <2>3, <2>4
    <3> QED BY <2>4, <3>1
  <2>6. item \notin ToSet(r)
    <3> SUFFICES ASSUME NEW i \in DOMAIN r, r[i] = item PROVE FALSE
      BY DEF ToSet
    <3>1. i + 1 = 1
      BY <1>4, <2>1, <2>3, <2>4
    <3> QED BY <2>4, <3>1
  <2>7. trained' \cap ToSet(r) = {}
    BY <1>1, <1>3, <1>4, <2>1, <2>6 DEF Once
  <2>8. todo' = r
    BY <1>3, <2>1
  <2> QED BY <2>5, <2>7, <2>8 DEF Once, IsInjective, ToSet
<1> QED BY <1>3, <1>11, <1>12 DEF Learnt

LEMMA LearntStep == Split /\ Learnt /\ [Next]_vars => Learnt'
<1> SUFFICES ASSUME Split, Learnt, [Next]_vars PROVE Learnt'
  OBVIOUS
<1>1. CASE Fail
  <2>1. UNCHANGED <<corpus, variant, learnt>> /\ step' = "failed"
    BY <1>1 DEF Fail
  <2>2. \/ Vocabulary(model) = {}
        \/ Reflects(model, Counted, ToSet(Labels))
    BY DEF Split, Learnt
  <2> QED BY <2>1, <2>2, SameLearnt DEF Learnt
<1>2. CASE list_articles \/ list_summaries
  <2>1. UNCHANGED <<corpus, variant, learnt>> /\ step \in {"articles", "summaries"}
    BY <1>2 DEF list_articles, list_summaries
  <2>2. step' \in {"split", "failed", "summaries"}
    BY <1>2 DEF list_articles, list_summaries
  <2>3. Vocabulary(model) = {}
    BY <2>1 DEF Learnt
  <2> QED BY <2>1, <2>2, <2>3, SameLearnt DEF Learnt
<1>3. CASE split_dataset /\ ~Fail
  <2>1. /\ step = "split" /\ step' = "train" /\ todo' = ToTrain
        /\ model' = Untrained(Labels) /\ trained' = trained
        /\ corpus' = corpus /\ variant' = variant
        /\ test.summarize => Dirs \subseteq ToSet(summaries.dirs)
    BY <1>3 DEF split_dataset
  <2>2. Listed /\ trained = {}
    BY <2>1 DEF Split, Listed, Fresh
  <2>3. Counted' = {}
    BY <2>1, <2>2 DEF Counted
  <2>4. Labels' = Labels
    BY <2>1 DEF Labels, test
  <2>5. Reflects(model, Counted, ToSet(Labels))'
    <3>1. PICK m, L : m = Untrained(L) /\ L = Labels
      OBVIOUS
    <3>2. Reflects(m, {}, ToSet(L))
      BY <3>1, UntrainedReflects
    <3> QED BY <2>1, <2>3, <2>4, <3>1, <3>2
  <2>6. Once'
    BY <2>1, <2>2, ToTrainOnce DEF Once, IsInjective
  <2> QED BY <2>1, <2>5, <2>6 DEF Learnt
<1>4. CASE (train_classifier \/ train_summarizer) /\ ~Fail
  BY <1>4, TrainingReflects
<1>5. CASE /\ end_training \/ classify \/ summarize \/ report_classifier \/ report_summarizer
           /\ ~Fail
  <2>1. UNCHANGED <<corpus, variant, learnt>> /\ step \in {"train", "test"}
    BY <1>5 DEF end_training, classify, summarize, report_classifier, report_summarizer
  <2>2. step' \in {"test", "report"}
    BY <1>5 DEF end_training, classify, summarize, report_classifier, report_summarizer
  <2>3. Reflects(model, Counted, ToSet(Labels))
    BY <2>1 DEF Learnt
  <2> QED BY <2>1, <2>2, <2>3, SameLearnt DEF Learnt
<1>6. CASE next_test
  <2>1. step' \in {"articles", "done"} /\ model' = Untrained(<<>>)
    BY <1>6 DEF next_test
  <2>2. Vocabulary(model)' = {}
    <3>1. PICK m : m = Untrained(<<>>)
      OBVIOUS
    <3>2. Vocabulary(m) = TermsIn({}) /\ TermsIn({}) = {}
      BY <3>1, UntrainedReflects DEF Reflects, TermsIn
    <3> QED BY <2>1, <3>1, <3>2
  <2> QED BY <2>1, <2>2 DEF Learnt
<1>7. CASE finished \/ UNCHANGED vars
  <2>1. UNCHANGED <<corpus, variant, learnt>> /\ step' = step /\ todo' = todo
        /\ trained' = trained
    BY <1>7 DEF finished, vars, learnt
  <2>2. Once' = Once
    BY <2>1 DEF Once
  <2> QED BY <2>1, <2>2, SameLearnt DEF Learnt
<1> QED BY <1>1, <1>2, <1>3, <1>4, <1>5, <1>6, <1>7 DEF Next

LEMMA LearntInit == Init => Learnt
<1> SUFFICES ASSUME Init PROVE Learnt
  OBVIOUS
<1>1. step = "articles" /\ model = Untrained(<<>>)
  BY DEF Init
<1>2. PICK m : m = Untrained(<<>>)
  OBVIOUS
<1>3. Vocabulary(m) = TermsIn({}) /\ TermsIn({}) = {}
  BY <1>2, UntrainedReflects DEF Reflects, TermsIn
<1> QED BY <1>1, <1>2, <1>3 DEF Learnt

(* Counts under each of the labels add up to all of what has a label.      *)
LEMMA LabelSums ==
  ASSUME NEW S, IsFiniteSet(S), NEW D, IsFiniteSet(D), \A p \in D : p[5] \in S,
         NEW f, \A l \in S : f[l] = Cardinality({p \in D : p[5] = l})
  PROVE  SumOf(f, S) = Cardinality(D)
<1>1. PICK key : key = [p \in D |-> p[5]]
  OBVIOUS
<1>2. \A l : With(D, key, l) = {p \in D : p[5] = l}
  BY <1>1 DEF With
<1>3. Within(D, key, S) = D
  BY <1>1 DEF Within
<1>4. \A l \in S : f[l] = Cardinality(With(D, key, l)) /\ f[l] \in Nat
  <2>1. \A l : With(D, key, l) \subseteq D
    BY DEF With
  <2>2. \A l : Cardinality(With(D, key, l)) \in Nat
    BY <2>1, FS_Subset, FS_CardinalityType
  <2> QED BY <1>2, <2>2
<1>5. PICK g : Sums(g, f, S) /\ SumOf(f, S) = g[S]
  BY <1>4, SumSums
<1>6. g[S] = Cardinality(Within(D, key, S))
  BY <1>4, <1>5, SumCounts
<1> QED BY <1>3, <1>5, <1>6

LEMMA LabelsFinite == IsFiniteSet(ToSet(Labels))
<1>1. CASE test.summarize
  <2>1. ToSet(Labels) = ({} \cup {"yes"}) \cup {"no"}
    BY <1>1, SidesLabels
  <2>2. IsFiniteSet({} \cup {"yes"})
    BY FS_EmptySet, FS_AddElement
  <2> QED BY <2>1, <2>2, FS_AddElement
<1>2. CASE ~test.summarize
  BY <1>2, ClassesFinite DEF Labels, ClassSet
<1> QED BY <1>1, <1>2

(* Where the right label is known, it is the one that was counted under.   *)
LEMMA SurelyCounted ==
  ASSUME Split, Predicting
  PROVE  Labelled \subseteq Counted
<1>1. Listed /\ trained \subseteq ToSet(ToTrain)
  BY DEF Split, Predicting, Testing, Reporting
<1> SUFFICES ASSUME NEW item \in Sure PROVE LabelledOf(item) \subseteq CountedOf(item)
  <2>1. Sure \subseteq trained
    BY DEF Sure
  <2> QED BY <2>1 DEF Labelled, Counted
<1>2. Trainable(item)
  BY <1>1, ToTrainTrainable DEF Sure
<1>3. \A i : RightLabel(item, i) = Belongs(item, i)
  <2>1. CASE ~test.summarize
    BY <2>1 DEF RightLabel, Belongs
  <2>2. CASE test.summarize
    <3>1. Standard(corpus.summaries[item.dir][item.ref])
      BY <2>2 DEF Sure
    <3>2. \A sentence :
            sentence \in ToSet(SummarySentences(item.dir, item.ref))
              <=> \E line \in ToSet(corpus.summaries[item.dir][item.ref]) :
                    sentence = <<line>>
      BY <1>2, <2>2, <3>1, StandardApart DEF Trainable
    <3> QED BY <2>2, <3>2 DEF RightLabel, Belongs
  <2> QED BY <2>1, <2>2
<1> QED BY <1>3 DEF LabelledOf, CountedOf

(* The tables are those of the articles trained on.                        *)
LEMMA LearntCounts == Split /\ Learnt => CountsTrainingOnly
<1> SUFFICES ASSUME Split, Learnt, Predicting
             PROVE  CountsTrainingOnly
  BY DEF CountsTrainingOnly
<1>1. Reflects(model, Counted, ToSet(Labels))
  BY DEF Learnt, Predicting
<1>2. PICK C, K, S : C = Counted /\ K = Labelled /\ S = ToSet(Labels)
  OBVIOUS
<1>3. /\ IsFiniteSet(C) /\ \A p \in C : p[5] \in S
      /\ Vocabulary(model) = TermsIn(C)
      /\ \A t : \A l \in S : Seen(model, t, l) = Cardinality(OccurrencesOf(C, t, l))
      /\ \A l \in S : model.word_cnt[l] = Cardinality(Under(C, l))
  BY <1>1, <1>2 DEF Reflects
<1>4. K \subseteq C /\ IsFiniteSet(S)
  BY <1>2, SurelyCounted, LabelsFinite
<1>5. \A T : (T \subseteq C) => IsFiniteSet(T) /\ Cardinality(T) \in Nat
  BY <1>3, FS_Subset, FS_CardinalityType
<1>6. ASSUME NEW t \in Vocabulary(model)
      PROVE  /\ SumOf(model.vocabulary[t], S) = Cardinality({p \in C : p[4] = t})
             /\ \A l \in S : model.vocabulary[t][l] >= Occurrences(K, t, l)
  <2>1. PICK f, D : f = model.vocabulary[t] /\ D = {p \in C : p[4] = t}
    OBVIOUS
  <2>2. \A l \in S : f[l] = Cardinality(OccurrencesOf(C, t, l))
    BY <1>3, <2>1 DEF Seen
  <2>3. \A l : OccurrencesOf(C, t, l) = {p \in D : p[5] = l}
    BY <2>1 DEF OccurrencesOf
  <2>4. D \subseteq C
    BY <2>1
  <2>5. IsFiniteSet(D) /\ \A p \in D : p[5] \in S
    BY <1>3, <1>5, <2>4
  <2>6. SumOf(f, S) = Cardinality(D)
    BY <1>4, <2>2, <2>3, <2>5, LabelSums
  <2>7. ASSUME NEW l \in S PROVE f[l] >= Occurrences(K, t, l)
    <3>1. PICK E, F : E = OccurrencesOf(C, t, l) /\ F = {p \in K : p[4] = t /\ p[5] = l}
      OBVIOUS
    <3>2. F \subseteq E /\ E \subseteq C
      BY <1>4, <3>1 DEF OccurrencesOf
    <3>3. Cardinality(F) <= Cardinality(E) /\ Cardinality(E) \in Nat /\ Cardinality(F) \in Nat
      BY <1>5, <3>2, FS_Subset, FS_CardinalityType
    <3>4. f[l] = Cardinality(E) /\ Occurrences(K, t, l) = Cardinality(F)
      BY <2>2, <3>1 DEF Occurrences
    <3> QED BY <3>3, <3>4
  <2> QED BY <2>1, <2>6, <2>7
<1>7. SumOf(model.word_cnt, S) = Cardinality(C)
  <2>1. PICK f : f = model.word_cnt
    OBVIOUS
  <2>2. \A l \in S : f[l] = Cardinality({p \in C : p[5] = l})
    BY <1>3, <2>1 DEF Under
  <2> QED BY <1>3, <1>4, <2>1, <2>2, LabelSums
<1>8. ASSUME NEW l \in S
      PROVE  model.word_cnt[l] >= Cardinality({p \in K : p[5] = l})
  <2>1. PICK E, F : E = Under(C, l) /\ F = {p \in K : p[5] = l}
    OBVIOUS
  <2>2. F \subseteq E /\ E \subseteq C
    BY <1>4, <2>1 DEF Under
  <2>3. Cardinality(F) <= Cardinality(E) /\ Cardinality(E) \in Nat /\ Cardinality(F) \in Nat
    BY <1>5, <2>2, FS_Subset, FS_CardinalityType
  <2>4. model.word_cnt[l] = Cardinality(E)
    BY <1>3, <2>1
  <2> QED BY <2>1, <2>3, <2>4
<1>9. \A t : MapThenSumSet(LAMBDA l : model.vocabulary[t][l], S)
               = SumOf(model.vocabulary[t], S)
  BY DEF MapThenSumSet, MapThenFoldSet, SumOf, One
<1>10. MapThenSumSet(LAMBDA l : model.word_cnt[l], S) = SumOf(model.word_cnt, S)
  BY DEF MapThenSumSet, MapThenFoldSet, SumOf, One
<1>11. \A t \in Vocabulary(model) :
         MapThenSumSet(LAMBDA l : model.vocabulary[t][l], S)
           = Cardinality({p \in C : p[4] = t})
  BY <1>6, <1>9
<1>12. MapThenSumSet(LAMBDA l : model.word_cnt[l], S) = Cardinality(C)
  BY <1>7, <1>10
<1> QED BY <1>2, <1>3, <1>6, <1>8, <1>11, <1>12 DEF CountsTrainingOnly

(* Once training is over, the tables are those of the texts trained on,    *)
(* for every corpus and every order of its directories: every place of     *)
(* every text is counted once, and those of an article under its class,    *)
(* those of a sentence on the side that the lines of the summary put it    *)
(* on.  Where a summary is no sequence of lines that begin with a capital  *)
(* and end in a stop, the labels of its article are left open: re.sub may  *)
(* leave its lines glued together.  The texts of one test do not leak into *)
(* the next.                                                               *)
THEOREM LearnsWhatItReads == Spec => []CountsTrainingOnly
<1>1. Init => Split /\ Learnt
  BY SplitInit, LearntInit
<1>2. (Split /\ Learnt) /\ [Next]_vars => (Split /\ Learnt)'
  BY SplitStep, LearntStep
<1>3. Split /\ Learnt => CountsTrainingOnly
  BY LearntCounts
<1> QED BY <1>1, <1>2, <1>3, PTL DEF Spec

-----------------------------------------------------------------------------
(* The probabilities are those of the texts trained on.                    *)

OccurrencesSum(C, l, S) ==
  (CHOOSE g : g = [T \in SUBSET S |->
                     IF T = {} THEN 0
                     ELSE (Occurrences(C, One(T), l) + 1) + g[T \ {One(T)}]])[S]

LEMMA OccurrenceSums ==
  ASSUME NEW C, IsFiniteSet(C), NEW l
  PROVE  /\ IsFiniteSet(TermsIn(C))
         /\ OccurrencesSum(C, l, TermsIn(C))
              = Cardinality(Under(C, l)) + Cardinality(TermsIn(C))
<1>1. PICK W, D : W = TermsIn(C) /\ D = Under(C, l)
  OBVIOUS
<1>2. IsFiniteSet(W)
  <2>1. PICK f : f = [p \in C |-> p[4]]
    OBVIOUS
  <2>2. f \in Surjection(C, W)
    BY <1>1, <2>1 DEF Surjection, TermsIn
  <2> QED BY <2>2, FS_Surjection
<1>3. IsFiniteSet(D) /\ D \subseteq C
  <2>1. D \subseteq C
    BY <1>1 DEF Under
  <2> QED BY <2>1, FS_Subset
<1>4. PICK key : key = [p \in D |-> p[4]]
  OBVIOUS
<1>5. \A t : Occurrences(C, t, l) = Cardinality(With(D, key, t))
  <2>1. \A t : {p \in C : p[4] = t /\ p[5] = l} = With(D, key, t)
    BY <1>1, <1>4 DEF With, Under
  <2> QED BY <2>1 DEF Occurrences
<1>6. Within(D, key, W) = D
  BY <1>1, <1>3, <1>4 DEF Within, TermsIn
<1>7. \A t : Cardinality(With(D, key, t)) \in Nat
  <2>1. \A t : With(D, key, t) \subseteq D
    BY DEF With
  <2>2. \A t : IsFiniteSet(With(D, key, t))
    BY <1>3, <2>1, FS_Subset
  <2> QED BY <2>2, FS_CardinalityType
<1>8. PICK f, e : /\ f = [t \in W |-> Occurrences(C, t, l)]
                  /\ e = [t \in W |-> Occurrences(C, t, l) + 1]
  OBVIOUS
<1>9. \A t \in W : /\ f[t] = Cardinality(With(D, key, t)) /\ f[t] \in Nat
                   /\ e[t] = f[t] + 1 /\ e[t] \in Nat
                   /\ e[t] = Occurrences(C, t, l) + 1
  BY <1>5, <1>7, <1>8
<1>10. PICK g : Sums(g, f, W)
  BY <1>2, <1>9, SumExists
<1>11. g[W] = Cardinality(D)
  BY <1>2, <1>3, <1>6, <1>9, <1>10, SumCounts
<1> DEFINE Fold(h) == [T \in SUBSET W |->
                         IF T = {} THEN 0
                         ELSE (Occurrences(C, One(T), l) + 1) + h[T \ {One(T)}]]
           H == CHOOSE h : h = Fold(h)
<1>12. \A T \in SUBSET W : T # {} =>
         One(T) \in W /\ e[One(T)] = Occurrences(C, One(T), l) + 1
  BY <1>9 DEF One
<1>13. \A h : Fold(h) = [T \in SUBSET W |->
                           IF T = {} THEN 0 ELSE e[One(T)] + h[T \ {One(T)}]]
  BY <1>12
<1>14. PICK h : Sums(h, e, W)
  BY <1>2, <1>9, SumExists
<1>15. h = Fold(h)
  BY <1>13, <1>14 DEF Sums
<1>16. H = Fold(H)
  BY <1>15
<1>17. OccurrencesSum(C, l, W) = H[W]
  BY DEF OccurrencesSum
<1> HIDE DEF H
<1>18. Sums(H, e, W)
  BY <1>13, <1>16 DEF Sums
<1>19. H[W] = g[W] + Cardinality(W)
  BY <1>2, <1>9, <1>10, <1>18, SumPlusOne
<1> QED BY <1>1, <1>2, <1>11, <1>17, <1>19

LEMMA PosteriorFactors ==
  ASSUME NEW m, NEW C, NEW S, Reflects(m, C, S), NEW terms, NEW l \in S
  PROVE  Posterior(C, terms, l) = Product(Factors(m, terms, l))
<1>1. PICK all, W : /\ all = MapThenSumSet(LAMBDA t : Occurrences(C, t, l) + 1, TermsIn(C))
                    /\ W = TermsIn(C)
  OBVIOUS
<1>2. /\ IsModel(m, S) /\ IsFiniteSet(C) /\ Vocabulary(m) = W
      /\ \A t : Seen(m, t, l) = Cardinality(OccurrencesOf(C, t, l))
      /\ m.word_cnt[l] = Cardinality(Under(C, l))
  BY <1>1 DEF Reflects
<1>3. all = OccurrencesSum(C, l, W)
  BY <1>1 DEF MapThenSumSet, MapThenFoldSet, OccurrencesSum, One
<1>4. all = m.word_cnt[l] + Cardinality(Vocabulary(m))
  BY <1>1, <1>2, <1>3, OccurrenceSums
<1>5. \A t : Occurrences(C, t, l) + 1 = 1 + Seen(m, t, l)
  <2>1. \A t : Occurrences(C, t, l) = Seen(m, t, l)
    BY <1>2 DEF Occurrences, OccurrencesOf
  <2>2. \A t : Seen(m, t, l) \in Nat
    BY <1>2, SeenNat
  <2> QED BY <2>1, <2>2
<1>6. \A t : Factor(m, t, l) = <<Occurrences(C, t, l) + 1, all>>
  BY <1>4, <1>5 DEF Factor, Seen
<1>7. Factors(m, terms, l) = [i \in DOMAIN terms |-> <<Occurrences(C, terms[i], l) + 1, all>>]
  BY <1>6 DEF Factors
<1> QED BY <1>1, <1>7 DEF Posterior

LEMMA ClassBest ==
  ASSUME NEW C, ~test.summarize, Reflects(model, C, ToSet(Labels)), NEW terms,
         NEW c \in predict_class(model, terms, Classes)
  PROVE  Best(C, terms, c) /\ c \in ClassSet
<1>1. PICK L : L = Classes
  OBVIOUS
<1>2. Labels = L /\ ClassSet = ToSet(L)
  BY <1>1 DEF Labels, ClassSet
<1>3. PICK k \in DOMAIN L :
        /\ c = L[k]
        /\ \A j \in DOMAIN L : ~Above(Product(Factors(model, terms, L[j])),
                                      Product(Factors(model, terms, L[k])))
  BY <1>1 DEF predict_class
<1>4. c \in ToSet(L)
  BY <1>3 DEF ToSet
<1>5. ASSUME NEW l \in ToSet(L)
      PROVE  ~Above(Posterior(C, terms, l), Posterior(C, terms, c))
  <2>1. PICK j \in DOMAIN L : l = L[j]
    BY DEF ToSet
  <2>2. /\ Posterior(C, terms, l) = Product(Factors(model, terms, l))
        /\ Posterior(C, terms, c) = Product(Factors(model, terms, c))
    BY <1>2, <1>4, PosteriorFactors
  <2> QED BY <1>3, <2>1, <2>2
<1> QED BY <1>2, <1>4, <1>5 DEF Best

(* The fraction after each of the factors.                                 *)
Multiplying(h, fractions) ==
  /\ h[0] = <<1, 1>>
  /\ \A i \in 1..Len(fractions) :
       h[i] = <<h[i - 1][1] * fractions[i][1], h[i - 1][2] * fractions[i][2]>>

LEMMA ProductGrows ==
  ASSUME NEW fractions \in Seq(Nat \X Nat)
  PROVE  \E h : Multiplying(h, fractions) /\ Product(fractions) = h[Len(fractions)]
<1>1. PICK n \in Nat : n = Len(fractions)
  OBVIOUS
<1>2. DOMAIN fractions = 1..n
  BY <1>1
<1>3. PICK V : V = Nat \X Nat
  OBVIOUS
<1> DEFINE pick == [U \in SUBSET (1..n) |-> Max(U)]
           Times(v, i) == <<v[1] * fractions[i][1], v[2] * fractions[i][2]>>
           put == [i \in 1..n |-> [v \in V |-> Times(v, i)]]
           Fold(g) == [U \in SUBSET (1..n) |->
                         IF U = {} THEN <<1, 1>> ELSE Times(g[U \ {Max(U)}], Max(U))]
           G == CHOOSE g : g = Fold(g)
<1>4. IsFiniteSet(1..n) /\ <<1, 1>> \in V
  <2>1. IsFiniteSet(1..n)
    BY FS_Interval
  <2>2. <<1, 1>> \in V
    BY <1>3
  <2> QED BY <2>1, <2>2
<1>5. \A U \in SUBSET (1..n) : U # {} => pick[U] = Max(U) /\ pick[U] \in U
  BY MaxPlace
<1>6. ASSUME NEW i \in 1..n, NEW v \in V
      PROVE  Times(v, i) \in V
  <2>1. PICK a, b, c, d \in Nat : /\ v = <<a, b>> /\ fractions[i] = <<c, d>>
    BY <1>2, <1>3
  <2>2. a * c \in Nat /\ b * d \in Nat
    OBVIOUS
  <2>3. Times(v, i) = <<a * c, b * d>>
    BY <2>1
  <2> QED BY <1>3, <2>2, <2>3
<1>7. put \in [1..n -> [V -> V]]
  BY <1>6
<1>8. \A i \in 1..n : \A v \in V : put[i][v] = Times(v, i)
  BY Zenon
<1> HIDE DEF pick, put
<1>9. PICK g \in [SUBSET (1..n) -> V] : FoldsSet(g, <<1, 1>>, put, pick, 1..n)
  BY <1>4, <1>5, <1>7, FoldExists
<1>10. \A U \in SUBSET (1..n) : g[U] = Fold(g)[U]
  <2> SUFFICES ASSUME NEW U \in SUBSET (1..n) PROVE g[U] = Fold(g)[U]
    OBVIOUS
  <2>1. CASE U = {}
    BY <1>9, <2>1 DEF FoldsSet
  <2>2. CASE U # {}
    <3>1. g[U] = put[Max(U)][g[U \ {Max(U)}]] /\ Max(U) \in 1..n
      BY <1>5, <1>9, <2>2 DEF FoldsSet
    <3>2. g[U \ {Max(U)}] \in V
      BY <1>9
    <3>3. g[U] = Times(g[U \ {Max(U)}], Max(U))
      BY <1>8, <3>1, <3>2
    <3> HIDE DEF Times
    <3> QED BY <2>2, <3>3
  <2> QED BY <2>1, <2>2
<1>11. g = Fold(g)
  BY <1>9, <1>10
<1>12. G = Fold(G)
  BY <1>11
<1>13. Product(fractions) = G[1..n]
  BY <1>2 DEF Product, FoldLeft, MapThenFoldSet
<1> HIDE DEF G
<1> DEFINE h == [i \in 0..n |-> G[1..i]]
<1>14. h[0] = <<1, 1>>
  <2>1. 1..0 = {} /\ {} \in SUBSET (1..n) /\ 0 \in 0..n
    OBVIOUS
  <2>2. G[{}] = <<1, 1>>
    BY <1>12, <2>1
  <2> QED BY <2>1, <2>2
<1>15. ASSUME NEW i \in 1..n
       PROVE  h[i] = Times(h[i - 1], i)
  <2>1. /\ 1..i \in SUBSET (1..n) /\ 1..i # {}
        /\ Max(1..i) = i /\ (1..i) \ {i} = 1..(i - 1)
    BY MaxUpto
  <2>2. G[1..i] = Times(G[1..(i - 1)], i)
    BY <1>12, <2>1
  <2>3. i \in 0..n /\ i - 1 \in 0..n
    OBVIOUS
  <2>4. h[i] = G[1..i] /\ h[i - 1] = G[1..(i - 1)]
    BY <2>3
  <2> HIDE DEF h
  <2> QED BY <2>2, <2>4
<1>16. n \in 0..n /\ h[n] = G[1..n]
  OBVIOUS
<1> HIDE DEF h
<1> QED BY <1>1, <1>13, <1>14, <1>15, <1>16 DEF Multiplying

LEMMA ProductTyped ==
  ASSUME NEW fractions \in Seq(Nat \X Nat)
  PROVE  Product(fractions) \in Nat \X Nat
<1>1. PICK n \in Nat : n = Len(fractions) /\ DOMAIN fractions = 1..n
  OBVIOUS
<1>2. PICK h : Multiplying(h, fractions) /\ Product(fractions) = h[n]
  BY <1>1, ProductGrows
<1> DEFINE P == {i \in 0..n : h[i] \in Nat \X Nat}
<1>3. 0 \in P
  <2>1. h[0] = <<1, 1>> /\ 0 \in 0..n
    BY <1>2 DEF Multiplying
  <2>2. <<1, 1>> \in Nat \X Nat
    OBVIOUS
  <2> QED BY <2>1, <2>2
<1>4. ASSUME NEW i \in 1..n, i - 1 \in P
      PROVE  i \in P
  <2>0. h[i - 1] \in Nat \X Nat /\ fractions[i] \in Nat \X Nat /\ i \in 0..n
    BY <1>1, <1>4
  <2> HIDE DEF P
  <2>1. \A p \in Nat \X Nat : \E a, b \in Nat : p = <<a, b>>
    OBVIOUS
  <2>2. PICK a, b \in Nat : h[i - 1] = <<a, b>>
    BY <2>0, <2>1
  <2>3. PICK c, d \in Nat : fractions[i] = <<c, d>>
    BY <2>0, <2>1
  <2>4. h[i] = <<a * c, b * d>>
    BY <1>1, <1>2, <2>2, <2>3 DEF Multiplying
  <2>5. a * c \in Nat /\ b * d \in Nat
    OBVIOUS
  <2>6. h[i] \in Nat \X Nat
    BY <2>4, <2>5
  <2> QED BY <2>0, <2>6 DEF P
<1> HIDE DEF P
<1>5. 0..n \subseteq P
  BY <1>3, <1>4, CountingUp
<1>6. n \in P
  BY <1>5
<1> QED BY <1>2, <1>6 DEF P

LEMMA ProbabilityTyped ==
  ASSUME NEW m, NEW C, NEW S, Reflects(m, C, S), NEW l \in S, NEW T, NEW terms \in Seq(T)
  PROVE  Product(Factors(m, terms, l)) \in Nat \X Nat
<1>1. PICK n \in Nat : n = Len(terms) /\ DOMAIN terms = 1..n
  OBVIOUS
<1>2. IsModel(m, S) /\ IsFiniteSet(C) /\ Vocabulary(m) = TermsIn(C)
  BY DEF Reflects
<1>3. Cardinality(Vocabulary(m)) \in Nat
  BY <1>2, OccurrenceSums, FS_CardinalityType
<1>4. \A t : Factor(m, t, l) \in Nat \X Nat
  <2> SUFFICES ASSUME NEW t PROVE Factor(m, t, l) \in Nat \X Nat
    OBVIOUS
  <2>1. Seen(m, t, l) \in Nat /\ m.word_cnt[l] \in Nat
    BY <1>2, SeenNat
  <2>2. Factor(m, t, l) = <<1 + Seen(m, t, l), m.word_cnt[l] + Cardinality(Vocabulary(m))>>
    BY DEF Factor, Seen
  <2> QED BY <1>3, <2>1, <2>2
<1>5. Factors(m, terms, l) = [i \in 1..n |-> Factor(m, terms[i], l)]
  BY <1>1 DEF Factors
<1>6. Factors(m, terms, l) \in Seq(Nat \X Nat)
  BY <1>4, <1>5
<1> QED BY <1>6, ProductTyped

LEMMA SentenceBest ==
  ASSUME NEW C, test.summarize, Reflects(model, C, ToSet(Labels)),
         NEW T, NEW terms \in Seq(T),
         NEW a \in predict_sentence_in_sum(model, terms)
  PROVE  Best(C, terms, a)
<1>1. ToSet(Labels) = {"yes", "no"}
  BY SidesLabels
<1>2. PICK y, n : /\ y = Product(Factors(model, terms, "yes"))
                  /\ n = Product(Factors(model, terms, "no"))
  OBVIOUS
<1>3. Posterior(C, terms, "yes") = y /\ Posterior(C, terms, "no") = n
  BY <1>1, <1>2, PosteriorFactors
<1>4. /\ a \in {"yes", "no"}
      /\ a = "yes" => ~Above(n, y)
      /\ a # "yes" => ~Above(y, n)
  BY <1>2 DEF predict_sentence_in_sum
<1>5. y \in Nat \X Nat /\ n \in Nat \X Nat
  BY <1>1, <1>2, ProbabilityTyped DEF Reflects
<1>6. \A p \in Nat \X Nat : ~Above(p, p)
  <2> SUFFICES ASSUME NEW p \in Nat \X Nat PROVE ~Above(p, p)
    OBVIOUS
  <2>1. p[1] * p[2] = p[2] * p[1] /\ p[1] * p[2] \in Nat
    OBVIOUS
  <2>2. PICK x \in Nat : x = p[1] * p[2]
    BY <2>1
  <2>3. ~(x > x)
    OBVIOUS
  <2> QED BY <2>1, <2>2, <2>3 DEF Above
<1> QED BY <1>1, <1>3, <1>4, <1>5, <1>6 DEF Best

(* The answers of one result.                                              *)
Right(C, r) ==
  IF test.summarize
  THEN \A j \in DOMAIN TextsOf(r.item) : Best(C, TextsOf(r.item)[j], r.answer[j])
  ELSE Best(C, TextsOf(r.item)[1], r.answer)

LEMMA RightMeans ==
  PredictsTheMostProbable <=> \A i \in DOMAIN results : Right(Counted, results[i])
BY DEF PredictsTheMostProbable, Right

LEMMA SameRight ==
  ASSUME UNCHANGED <<corpus, variant>>
  PROVE  \A C, r : Right(C, r)' <=> Right(C, r)
<1>1. Labels' = Labels /\ test' = test
  BY DEF Labels, test
<1>2. \A C, terms, a : Best(C, terms, a)' <=> Best(C, terms, a)
  BY <1>1 DEF Best
<1>3. \A item : TextsOf(item)' = TextsOf(item)
  BY SameTexts
<1> QED BY <1>1, <1>2, <1>3 DEF Right

LEMMA ToTestThere ==
  ASSUME Listed, NEW item \in ToSet(ToTest)
  PROVE  item.dir \in DOMAIN corpus.articles /\ item.file \in DOMAIN corpus.articles[item.dir]
<1>1. PICK i \in DOMAIN ToTest : item = ToTest[i]
  BY DEF ToSet
<1>2. PICK at : Placed(ToTest, TestPart, at, Dirs)
  BY ToTestIs
<1>3. PICK d, k : d \in Dirs /\ k \in DOMAIN TestPart[d] /\ i = at[d] + k
  BY <1>1, <1>2 DEF Placed
<1>4. item = TestPart[d][k]
  BY <1>1, <1>2, <1>3 DEF Placed
<1>5. PICK f, n, c : f = articles.files[d] /\ n = Len(f) /\ c = Cut(n)
  OBVIOUS
<1>6. /\ n \in Nat /\ c \in 0..n /\ k \in 1..(n - c)
      /\ item = [dir |-> d, ref |-> NoSummary, file |-> f[c + k]]
  BY <1>3, <1>4, <1>5, TestPartIs
<1>7. d \in DOMAIN corpus.articles /\ f \in Seq(DOMAIN corpus.articles[d])
  BY <1>3, <1>5, ListedFiles DEF Enumerates
<1>8. c + k \in 1..n
  BY <1>6
<1>9. f[c + k] \in DOMAIN corpus.articles[d]
  BY <1>5, <1>7, <1>8
<1> QED BY <1>6, <1>7, <1>9

(* The article to predict next.                                            *)
LEMMA NextToTest ==
  ASSUME Split, step = "test", todo # <<>>
  PROVE  /\ corpus \in Corpora /\ Head(todo).dir \in DOMAIN corpus.articles
         /\ Head(todo).file \in DOMAIN corpus.articles[Head(todo).dir]
<1>1. Listed /\ Testing
  BY DEF Split
<1>2. Head(todo) = todo[1] /\ 1 \in DOMAIN todo
  BY <1>1, HeadAndTail DEF Testing
<1>3. todo \in Seq(Items) /\ results \in Seq(ToSet(results)) /\ ToTest \in Seq(Items)
  BY <1>1, ToTestIs DEF Testing, PredictedSoFar
<1>4. Len(results) + Len(todo) = Len(ToTest) /\ todo[1] = ToTest[Len(results) + 1]
  BY <1>1, <1>2 DEF Testing
<1>5. Len(results) + 1 \in DOMAIN ToTest
  <2>1. Len(results) \in Nat /\ Len(todo) \in Nat /\ Len(todo) >= 1
    BY <1>2, <1>3
  <2> QED BY <1>3, <1>4, <2>1
<1>6. Head(todo) \in ToSet(ToTest)
  BY <1>2, <1>4, <1>5 DEF ToSet
<1> QED BY <1>1, <1>6, ToTestThere DEF Listed

LEMMA ClassifyingRight ==
  ASSUME Split, Learnt, classify, ~Fail
  PROVE  \E r : results' = Append(results, r) /\ Right(Counted, r)
<1>1. PICK item, terms : /\ item = Head(todo)
                         /\ terms = ArticleTerms(item.dir, item.file)
  OBVIOUS
<1>2. /\ step = "test" /\ ~test.summarize
      /\ \E c \in predict_class(model, terms, Classes) :
           results' = Append(results, [item |-> item, answer |-> c])
  BY <1>1 DEF classify
<1>3. PICK c \in predict_class(model, terms, Classes) :
        results' = Append(results, [item |-> item, answer |-> c])
  BY <1>2
<1>4. Reflects(model, Counted, ToSet(Labels))
  BY <1>2 DEF Learnt
<1>5. Best(Counted, terms, c)
  BY <1>2, <1>4, ClassBest
<1>6. PICK r : r = [item |-> item, answer |-> c]
  OBVIOUS
<1>7. TextsOf(r.item)[1] = terms /\ r.answer = c
  BY <1>1, <1>2, <1>6 DEF TextsOf
<1> QED BY <1>2, <1>3, <1>5, <1>6, <1>7 DEF Right

LEMMA SummarizingRight ==
  ASSUME Split, Learnt, summarize, ~Fail
  PROVE  \E r : results' = Append(results, r) /\ Right(Counted, r)
<1>1. PICK item, s, terms :
        /\ item = Head(todo) /\ s = Sentences(item.dir, item.file)
        /\ terms = [i \in DOMAIN s |-> SentenceTerms(s[i])]
  OBVIOUS
<1>2. /\ step = "test" /\ test.summarize /\ todo # <<>>
      /\ \E answers \in [DOMAIN terms -> {"yes", "no"}] :
           /\ \A i \in DOMAIN terms :
                answers[i] \in predict_sentence_in_sum(model, terms[i])
           /\ results' = Append(results, [item |-> item, answer |-> answers])
  BY <1>1 DEF summarize
<1>3. PICK answers : /\ \A i \in DOMAIN terms :
                          answers[i] \in predict_sentence_in_sum(model, terms[i])
                     /\ results' = Append(results, [item |-> item, answer |-> answers])
  BY <1>2
<1>4. Reflects(model, Counted, ToSet(Labels))
  BY <1>2 DEF Learnt
<1>5. s \in Seq(Seq(Seq(DOMAIN Lower)))
  BY <1>1, <1>2, NextToTest, SentencesTyped
<1>6. ASSUME NEW i \in DOMAIN terms
      PROVE  Best(Counted, terms[i], answers[i])
  <2>1. i \in DOMAIN s /\ terms[i] = SentenceTerms(s[i])
    BY <1>1
  <2>2. s[i] \in Seq(Seq(DOMAIN Lower))
    BY <1>5, <2>1
  <2>3. WordsOf(s[i]) \in Seq(DOMAIN Lower)
    BY <2>2, WordsTyped
  <2>4. PICK T : terms[i] \in Seq(T)
    BY <2>1, <2>3, TermsOfText DEF SentenceTerms
  <2> QED BY <1>2, <1>3, <1>4, <2>4, SentenceBest
<1>7. PICK r : r = [item |-> item, answer |-> answers]
  OBVIOUS
<1>8. TextsOf(r.item) = terms /\ r.answer = answers
  BY <1>1, <1>2, <1>7 DEF TextsOf
<1> QED BY <1>2, <1>3, <1>6, <1>7, <1>8 DEF Right

LEMMA RightMeansNext ==
  (PredictsTheMostProbable <=> \A i \in DOMAIN results : Right(Counted, results[i]))'
BY RightMeans, PTL

LEMMA RightStep ==
  Split /\ Learnt /\ PredictsTheMostProbable /\ [Next]_vars => PredictsTheMostProbable'
<1> SUFFICES ASSUME Split, Learnt, PredictsTheMostProbable, [Next]_vars
             PROVE  PredictsTheMostProbable'
  OBVIOUS
<1>1. PredictsTheMostProbable' <=> \A i \in DOMAIN results' : Right(Counted, results[i])'
  BY RightMeansNext
<1>2. \A i \in DOMAIN results : Right(Counted, results[i])
  BY RightMeans
<1>3. CASE results' = <<>>
  BY <1>1, <1>3
<1>4. CASE UNCHANGED <<corpus, variant, learnt, results>>
  <2>1. Counted' = Counted /\ \A C, r : Right(C, r)' <=> Right(C, r)
    BY <1>4, SameLearnt, SameRight
  <2>2. \A i \in DOMAIN results' : Right(Counted, results[i])'
    BY <1>2, <1>4, <2>1
  <2> QED BY <1>1, <2>2
<1>5. CASE (classify \/ summarize) /\ ~Fail
  <2>1. UNCHANGED <<corpus, variant, learnt>>
    BY <1>5 DEF classify, summarize
  <2>2. Counted' = Counted /\ \A C, r : Right(C, r)' <=> Right(C, r)
    BY <2>1, SameLearnt, SameRight
  <2>3. PICK r : results' = Append(results, r) /\ Right(Counted, r)
    BY <1>5, ClassifyingRight, SummarizingRight
  <2>4. results \in Seq(ToSet(results))
    BY <1>5 DEF classify, summarize, Split, Testing, PredictedSoFar
  <2>5. ASSUME NEW i \in DOMAIN results'
        PROVE  Right(Counted, results'[i])
    <3>1. \/ i \in DOMAIN results /\ results'[i] = results[i]
          \/ results'[i] = r
      BY <2>3, <2>4
    <3> QED BY <1>2, <2>3, <3>1
  <2>6. \A i \in DOMAIN results' : Right(Counted, results[i])'
    BY <2>2, <2>5
  <2> QED BY <1>1, <2>6
<1>6. CASE Fail
  BY <1>4, <1>6 DEF Fail, outcome
<1>7. CASE split_dataset \/ train_classifier \/ train_summarizer
  <2>1. results = <<>>
    BY <1>7 DEF split_dataset, train_classifier, train_summarizer, Split, Fresh, Training
  <2>2. results' = results
    BY <1>7 DEF split_dataset, train_classifier, train_summarizer, Fail, outcome
  <2> QED BY <1>3, <2>1, <2>2
<1>8. CASE /\ list_articles \/ list_summaries \/ end_training
                \/ report_classifier \/ report_summarizer
           /\ ~Fail
  BY <1>4, <1>8
     DEF list_articles, list_summaries, end_training, report_classifier,
         report_summarizer, outcome
<1>9. CASE next_test
  BY <1>3, <1>9 DEF next_test
<1>10. CASE finished \/ UNCHANGED vars
  BY <1>4, <1>10 DEF finished, vars, outcome
<1> QED BY <1>5, <1>6, <1>7, <1>8, <1>9, <1>10 DEF Next

(* The argmax of the code, which works on the tables and factors of its    *)
(* own, is that of the probabilities of the texts trained on: no label is  *)
(* more probable than the one predicted, for a class or for a sentence     *)
(* (predict_class, predict_sentence_in_sum).                               *)
THEOREM MostProbable == Spec => []PredictsTheMostProbable
<1>1. Init => Split /\ Learnt /\ PredictsTheMostProbable
  <2>1. Init => results = <<>>
    BY DEF Init
  <2>2. results = <<>> => PredictsTheMostProbable
    BY DEF PredictsTheMostProbable
  <2> QED BY <2>1, <2>2, SplitInit, LearntInit
<1>2. Split /\ Learnt /\ PredictsTheMostProbable /\ [Next]_vars
        => (Split /\ Learnt /\ PredictsTheMostProbable)'
  BY SplitStep, LearntStep, RightStep
<1> QED BY <1>1, <1>2, PTL DEF Spec

-----------------------------------------------------------------------------
(* Types.                                                                  *)

(* What the other invariants do not say: the loops go through articles of  *)
(* the corpus, and a result is a hit, a miss, or a summary.                *)
Bounds ==
  /\ variant \in 1..9
  /\ todo \in Seq(Items)
  /\ DOMAIN conf_matrix = ClassSet
  /\ tp \in Nat /\ fp \in Nat /\ tp + fp <= Len(results)

LEMMA BoundsInit == Init => Bounds
<1> SUFFICES ASSUME Init PROVE Bounds
  OBVIOUS
<1>1. /\ variant = 1 /\ todo = <<>> /\ conf_matrix = NoMatrix
      /\ tp = 0 /\ fp = 0 /\ results = <<>>
  BY DEF Init
<1>2. DOMAIN NoMatrix = ClassSet
  BY DEF NoMatrix
<1> QED BY <1>1, <1>2 DEF Bounds

LEMMA BoundsSame ==
  ASSUME Bounds, UNCHANGED <<corpus, variant, todo, results, conf_matrix, tp, fp>>
  PROVE  Bounds'
BY DEF Bounds, Items

LEMMA BoundsStep == Split /\ Tally /\ Bounds /\ [Next]_vars => Bounds'
<1> SUFFICES ASSUME Split, Tally, Bounds, [Next]_vars PROVE Bounds'
  OBVIOUS
<1>1. CASE UNCHANGED <<corpus, variant, todo, results, conf_matrix, tp, fp>>
  BY <1>1, BoundsSame
<1>2. CASE /\ todo' \in Seq(Items)
           /\ UNCHANGED <<corpus, variant, results, conf_matrix, tp, fp>>
  <2>1. Items' = Items
    BY <1>2 DEF Items
  <2> QED BY <1>2, <2>1 DEF Bounds
<1>3. CASE split_dataset /\ ~Fail
  <2>1. Listed
    BY <1>3 DEF split_dataset, Split, Listed
  <2> QED BY <1>2, <1>3, <2>1, ToTrainIs DEF split_dataset, outcome
<1>4. CASE (train_classifier \/ train_summarizer) /\ ~Fail
  <2>1. todo' = Tail(todo) /\ todo # <<>>
    BY <1>4 DEF train_classifier, train_summarizer
  <2>2. Tail(todo) \in Seq(Items)
    BY <2>1, HeadAndTail DEF Bounds
  <2> QED BY <1>2, <1>4, <2>1, <2>2 DEF train_classifier, train_summarizer, outcome
<1>5. CASE end_training
  <2>1. Listed
    BY <1>5 DEF end_training, Split
  <2> QED BY <1>2, <1>5, <2>1, ToTestIs DEF end_training, outcome
<1>6. CASE (classify \/ summarize) /\ ~Fail
  <2>1. /\ todo' = Tail(todo) /\ todo # <<>> /\ UNCHANGED <<corpus, variant>>
        /\ \E r : results' = Append(results, r)
    BY <1>6 DEF classify, summarize
  <2>2. Tail(todo) \in Seq(Items)
    BY <2>1, HeadAndTail DEF Bounds
  <2>3. Items' = Items
    BY <2>1 DEF Items
  <2>4. Len(results') = Len(results) + 1 /\ Len(results) \in Nat
    BY <2>1 DEF Tally
  <2>5. /\ DOMAIN conf_matrix' = ClassSet
        /\ tp' \in Nat /\ fp' \in Nat /\ tp' + fp' <= tp + fp + 1
    <3>1. CASE classify
      <4>0. PICK d : d = Head(todo).dir
        OBVIOUS
      <4>1. PICK c : /\ conf_matrix' = Entered(conf_matrix, d, c)
                     /\ IF c = d THEN tp' = tp + 1 /\ UNCHANGED fp
                                 ELSE fp' = fp + 1 /\ UNCHANGED tp
        BY <1>6, <3>1, <4>0 DEF classify
      <4>2. DOMAIN conf_matrix' = DOMAIN conf_matrix
        BY <4>1 DEF Entered
      <4> QED BY <4>1, <4>2 DEF Bounds
    <3>2. CASE summarize
      BY <1>6, <3>2 DEF summarize, Bounds
    <3> QED BY <1>6, <3>1, <3>2
  <2>6. /\ tp \in Nat /\ fp \in Nat /\ tp' \in Nat /\ fp' \in Nat
        /\ tp + fp <= Len(results)
    BY <2>5 DEF Bounds
  <2>7. tp' + fp' <= Len(results')
    <3>1. PICK a \in Nat, b \in Nat : a = Len(results) /\ b = tp + fp
      BY <2>4, <2>6
    <3>2. PICK c \in Nat, d \in Nat : c = tp' /\ d = fp'
      BY <2>5
    <3>3. Len(results') = a + 1 /\ c + d <= b + 1 /\ b <= a
      BY <2>4, <2>5, <2>6, <3>1, <3>2
    <3>4. c + d <= a + 1
      BY <3>3
    <3> QED BY <3>2, <3>3, <3>4
  <2> QED BY <2>1, <2>2, <2>3, <2>5, <2>7 DEF Bounds
<1>7. CASE next_test
  <2>1. /\ todo' = todo /\ corpus' = corpus /\ conf_matrix' = NoMatrix
        /\ tp' = 0 /\ fp' = 0 /\ results' = <<>>
    BY <1>7 DEF next_test
  <2>2. DOMAIN NoMatrix = ClassSet
    BY DEF NoMatrix
  <2>3. Items' = Items
    BY <2>1 DEF Items
  <2>4. LastTest = 9
    BY DEF LastTest, Tests
  <2>5. variant' \in 1..9
    BY <1>7, <2>4 DEF next_test, Bounds
  <2> QED BY <2>1, <2>2, <2>3, <2>5 DEF Bounds
<1> QED BY <1>1, <1>3, <1>4, <1>5, <1>6, <1>7
        DEF Next, vars, outcome, Fail, list_articles, list_summaries, split_dataset,
            train_classifier, train_summarizer, classify, summarize,
            report_classifier, report_summarizer, finished

LEMMA ItemsTyped ==
  ASSUME Split
  PROVE  /\ trained \subseteq Items /\ ToSet(scored) \subseteq Items
         /\ \A i \in DOMAIN results : results[i].item \in Items
<1>1. CASE Fresh
  BY <1>1 DEF Fresh, ToSet
<1>2. CASE Listed
  <2>1. ToSet(ToTrain) \subseteq Items
    BY <1>2, ToTrainIs DEF ToSet
  <2>2. ToTest \in Seq(Items)
    BY <1>2, ToTestIs
  <2>3. trained \subseteq ToSet(ToTrain) \/ Fresh
    BY DEF Split, Training, Testing, Reporting, Failed
  <2>4. PredictedSoFar \/ results = <<>>
    BY DEF Split, Training, Testing, Reporting, Failed, Fresh
  <2>5. ASSUME PredictedSoFar, NEW i \in DOMAIN results
        PROVE  results[i].item \in Items
    <3>1. /\ results[i].item = ToTest[i]
          /\ Len(results) \in Nat /\ Len(ToTest) \in Nat /\ Len(results) <= Len(ToTest)
          /\ i \in 1..Len(results)
      BY <2>2, <2>5 DEF PredictedSoFar
    <3>2. i \in DOMAIN ToTest
      BY <2>2, <3>1
    <3> QED BY <2>2, <3>1, <3>2
  <2>6. scored = <<>> \/ (test.summarize /\ Reporting)
    BY DEF Split, Training, Testing, Reporting, Failed, Fresh
  <2>7. ASSUME test.summarize, Reporting
        PROVE  scored \in Seq(Items)
    <3>1. ScorePart \in [Dirs -> Seq(Items)]
      BY <1>2, <2>7, ScorePartTyped DEF Reporting
    <3> QED BY <1>2, <2>7, <3>1, ListedFiles, EachDirPlaced DEF Reporting
  <2>8. ToSet(scored) \subseteq Items
    BY <2>6, <2>7 DEF ToSet
  <2> QED BY <2>1, <2>3, <2>4, <2>5, <2>8, <1>1
<1> QED BY <1>1, <1>2 DEF Split, Failed

LEMMA AllTyped == Split /\ Learnt /\ Tally /\ Bounds => TypeOK
<1> SUFFICES ASSUME Split, Learnt, Tally, Bounds PROVE TypeOK
  OBVIOUS
<1>1. ToSet(todo) \subseteq Items
  BY DEF Bounds, ToSet
<1>2. /\ trained \subseteq Items /\ ToSet(scored) \subseteq Items
      /\ \A i \in DOMAIN results : results[i].item \in Items
  BY ItemsTyped
<1>3. Vocabulary(model) = {} \/ IsModel(model, ToSet(Labels))
  BY DEF Split, Learnt, Reflects
<1>4. \A t \in Vocabulary(model) : model.vocabulary[t] \in [ToSet(Labels) -> Nat]
  BY <1>3, ModelParts
<1>5. Len(results) \in Int /\ tp \in 0..Len(results) /\ fp \in 0..Len(results)
  <2>1. Len(results) \in Nat
    BY DEF Tally
  <2> QED BY <2>1 DEF Bounds
<1> QED BY <1>1, <1>2, <1>4, <1>5 DEF TypeOK, Bounds, Split

(* The summarizer keeps its kinds: the tables have a number for every      *)
(* label of the test that runs, and what is trained on, predicted and      *)
(* scored is of the corpus, whatever the test before left behind.          *)
THEOREM DocumentsTyped == Spec => []TypeOK
<1>1. Init => Split /\ Learnt /\ Tally /\ Bounds
  BY SplitInit, LearntInit, BoundsInit, TallyFresh DEF Init
<1>2. Split /\ Learnt /\ Tally /\ Bounds /\ [Next]_vars
        => (Split /\ Learnt /\ Tally /\ Bounds)'
  BY SplitStep, LearntStep, TallyStep, BoundsStep
<1>3. Split /\ Learnt /\ Tally /\ Bounds => TypeOK
  BY AllTyped
<1> QED BY <1>1, <1>2, <1>3, PTL DEF Spec

-----------------------------------------------------------------------------
(* Nothing fails on a sound corpus.                                        *)

SoundDir(d) ==
  /\ d \in ClassSet /\ d \in DOMAIN corpus.summaries
  /\ DOMAIN corpus.summaries[d] = DOMAIN corpus.articles[d]
  /\ Cardinality(DOMAIN corpus.articles[d]) >= 2
  /\ \A f \in DOMAIN corpus.articles[d] :
       /\ corpus.articles[d][f] # <<>>
       /\ \E k \in DOMAIN Sentences(d, f) : Contentful(WordsOf(Sentences(d, f)[k]))

LEMMA SoundDirs ==
  ASSUME Sound
  PROVE  \A d \in DOMAIN corpus.articles : SoundDir(d)
<1> SUFFICES ASSUME NEW d \in DOMAIN corpus.articles PROVE SoundDir(d)
  OBVIOUS
<1>1. /\ d \in ClassSet /\ d \in DOMAIN corpus.summaries
      /\ DOMAIN corpus.summaries[d] = DOMAIN corpus.articles[d]
      /\ Cardinality(DOMAIN corpus.articles[d]) >= 2
      /\ \A f \in DOMAIN corpus.articles[d] :
           /\ corpus.articles[d][f] # <<>>
           /\ \E s \in ToSet(Sentences(d, f)) : Contentful(WordsOf(s))
  BY DEF Sound, Contentful
<1>2. \A f : \A s \in ToSet(Sentences(d, f)) :
        \E k \in DOMAIN Sentences(d, f) : Sentences(d, f)[k] = s
  BY DEF ToSet
<1> QED BY <1>1, <1>2 DEF SoundDir

(* There is an article to learn from and one to predict, with a summary    *)
(* each.                                                                   *)
LEMMA SoundSizes ==
  ASSUME Sound, Listed, NEW d \in Dirs
  PROVE  /\ Cut(Len(articles.files[d])) >= 1
         /\ Len(SecondPart(articles.files[d])) \in Nat \ {0}
         /\ test.summarize =>
              /\ Len(summaries.files[d]) >= 1
              /\ Len(SecondPart(summaries.files[d])) \in Nat \ {0}
<1>1. d \in DOMAIN corpus.articles /\ SoundDir(d)
  BY ListedFiles, SoundDirs
<1>2. ASSUME NEW S, NEW s, Enumerates(s, S), Cardinality(S) >= 2
      PROVE  /\ Len(s) >= 2 /\ Cut(Len(s)) >= 1
             /\ Len(SecondPart(s)) \in Nat \ {0}
  <2>1. s \in Seq(S) /\ Len(s) >= 2
    BY <1>2, EnumerationLen DEF Enumerates
  <2>2. PICK n \in Nat : n = Len(s) /\ n >= 2
    BY <2>1
  <2>3. (3 * n) \div 4 >= 1 /\ n - (3 * n) \div 4 >= 1 /\ n - (3 * n) \div 4 \in Nat
    BY <2>2
  <2>4. Len(SecondPart(s)) = n - (3 * n) \div 4
    BY <2>1, <2>2, Parts DEF Cut
  <2> QED BY <2>1, <2>2, <2>3, <2>4 DEF Cut
<1>3. Enumerates(articles.files[d], DOMAIN corpus.articles[d])
  BY ListedFiles
<1>4. test.summarize => Enumerates(summaries.files[d], DOMAIN corpus.articles[d])
  BY <1>1, ListedFiles DEF SoundDir
<1>5. Cardinality(DOMAIN corpus.articles[d]) >= 2
  BY <1>1 DEF SoundDir
<1>6. /\ Cut(Len(articles.files[d])) >= 1
      /\ Len(SecondPart(articles.files[d])) \in Nat \ {0}
  BY <1>2, <1>3, <1>5
<1>7. ASSUME test.summarize
      PROVE  /\ Len(summaries.files[d]) >= 2
             /\ Len(SecondPart(summaries.files[d])) \in Nat \ {0}
  <2>1. PICK s : s = summaries.files[d]
    OBVIOUS
  <2>2. Enumerates(s, DOMAIN corpus.articles[d])
    BY <1>4, <1>7, <2>1
  <2> QED BY <1>2, <1>5, <2>1, <2>2
<1>8. test.summarize => Len(summaries.files[d]) >= 1
  <2>1. test.summarize => Len(summaries.files[d]) \in Nat
    BY <1>4 DEF Enumerates
  <2> QED BY <1>7, <2>1
<1> QED BY <1>6, <1>7, <1>8

(* An article of a sound corpus has a text that leaves something to count. *)
LEMMA SoundText ==
  ASSUME Sound, corpus \in Corpora, NEW item, item.dir \in DOMAIN corpus.articles,
         item.file \in DOMAIN corpus.articles[item.dir]
  PROVE  CountedOf(item) # {}
<1>1. PICK d, f : d = item.dir /\ f = item.file
  OBVIOUS
<1>2. /\ d \in DOMAIN corpus.articles /\ f \in DOMAIN corpus.articles[d]
      /\ \E k \in DOMAIN Sentences(d, f) : Contentful(WordsOf(Sentences(d, f)[k]))
  BY <1>1, SoundDirs DEF SoundDir
<1>3. PICK k \in DOMAIN Sentences(d, f) : Contentful(WordsOf(Sentences(d, f)[k]))
  BY <1>2
<1>4. PICK text \in Seq(DOMAIN Lower), i \in DOMAIN TextsOf(item) :
        Contentful(text) /\ TextsOf(item)[i] = Terms(text, test)
  <2>1. CASE test.summarize
    <3>1. TextsOf(item) = [j \in DOMAIN Sentences(d, f) |-> SentenceTerms(Sentences(d, f)[j])]
      BY <1>1, <2>1 DEF TextsOf
    <3>2. TextsOf(item)[k] = Terms(WordsOf(Sentences(d, f)[k]), test)
      BY <3>1 DEF SentenceTerms
    <3>3. Sentences(d, f)[k] \in Seq(Seq(DOMAIN Lower))
      <4>1. PICK s : s = Sentences(d, f)
        OBVIOUS
      <4>2. s \in Seq(Seq(Seq(DOMAIN Lower)))
        BY <1>2, <4>1, SentencesTyped
      <4> QED BY <4>1, <4>2
    <3>4. WordsOf(Sentences(d, f)[k]) \in Seq(DOMAIN Lower)
      BY <3>3, WordsTyped
    <3> QED BY <1>3, <3>1, <3>2, <3>4
  <2>2. CASE ~test.summarize
    <3>1. TextsOf(item) = <<ArticleTerms(d, f)>>
      BY <1>1, <2>2 DEF TextsOf
    <3>2. ArticleTerms(d, f) = Terms(ArticleText(d, f), test)
      BY DEF ArticleTerms, ArticleText
    <3>3. ArticleText(d, f) \in Seq(DOMAIN Lower) /\ Contentful(ArticleText(d, f))
      BY <1>2, <1>3, TextTyped, ContentfulArticle
    <3>4. 1 \in DOMAIN TextsOf(item) /\ TextsOf(item)[1] = Terms(ArticleText(d, f), test)
      BY <3>1, <3>2
    <3> QED BY <3>3, <3>4
  <2> QED BY <2>1, <2>2
<1>5. PICK terms : terms = TextsOf(item)[i]
  OBVIOUS
<1>6. terms # <<>> /\ \E T : terms \in Seq(T)
  BY <1>4, <1>5, TermsOfText DEF Contentful
<1>7. 1 \in DOMAIN terms
  BY <1>6, EmptySeq
<1>8. <<item, i, 1, terms[1], Belongs(item, i)>>
        \in CountedText(item, i, terms, Belongs(item, i))
  BY <1>7 DEF CountedText
<1> QED BY <1>5, <1>8 DEF CountedOf

LEMMA SoundLearns ==
  ASSUME Sound, Split, Learnt, step = "test"
  PROVE  Vocabulary(model) # {}
<1>1. Listed /\ trained = ToSet(ToTrain) /\ Reflects(model, Counted, ToSet(Labels))
  BY DEF Split, Testing, Learnt
<1>2. PICK d : d \in Dirs /\ d \in DOMAIN corpus.articles
  BY <1>1, ListedFiles DEF Sound
<1>3. PICK item :
        item = [dir |-> d, file |-> articles.files[d][1],
                ref |-> IF test.summarize THEN summaries.files[d][1] ELSE NoSummary]
  OBVIOUS
<1>4. TrainedOn(d, 1, item)
  <2>1. PICK c : c = Cut(Len(articles.files[d])) /\ c \in Int /\ c >= 1
    BY <1>1, <1>2, SoundSizes, TestPartIs
  <2>2. 1 \in 1..c
    BY <2>1
  <2>3. test.summarize => 1 <= Len(summaries.files[d])
    BY <1>1, <1>2, SoundSizes
  <2> QED BY <1>3, <2>1, <2>2, <2>3 DEF TrainedOn
<1>5. item \in trained
  BY <1>1, <1>2, <1>4, ToTrainIs
<1>6. /\ corpus \in Corpora /\ item.dir \in DOMAIN corpus.articles
      /\ item.file \in DOMAIN corpus.articles[item.dir]
  BY <1>1, <1>5, ToTrainTrainable DEF Trainable
<1>7. CountedOf(item) # {}
  BY <1>6, SoundText
<1>8. Counted # {}
  BY <1>5, <1>7 DEF Counted
<1>9. TermsIn(Counted) # {}
  <2>1. PICK p : p \in Counted
    BY <1>8
  <2>2. p[4] \in TermsIn(Counted)
    BY <2>1 DEF TermsIn
  <2> QED BY <2>2
<1> QED BY <1>1, <1>9 DEF Reflects

LEMMA SameSound ==
  ASSUME corpus' = corpus
  PROVE  Sound' <=> Sound
<1>1. \A d, f : Sentences(d, f)' = Sentences(d, f)
  BY DEF Sentences
<1> QED BY <1>1 DEF Sound

LEMMA SoundLists ==
  ASSUME Sound, Split, list_articles \/ list_summaries
  PROVE  step' # "failed"
<1>1. CASE list_articles
  <2>1. \A d \in DOMAIN corpus.articles : \A f \in DOMAIN corpus.articles[d] :
          corpus.articles[d][f] # <<>>
    BY SoundDirs DEF SoundDir
  <2> QED BY <1>1, <2>1 DEF list_articles
<1> QED BY <1>1 DEF list_summaries

LEMMA SoundSplits ==
  ASSUME Sound, Split, split_dataset
  PROVE  step' # "failed"
<1>1. step = "split" /\ corpus \in Corpora
  BY DEF split_dataset, Split
<1>2. ASSUME test.summarize
      PROVE  Dirs \subseteq ToSet(summaries.dirs)
  <2>1. /\ articles \in ListingsOf(corpus.articles)
        /\ summaries \in ListingsOf(corpus.summaries)
    BY <1>1, <1>2 DEF Split
  <2>2. ToSet(articles.dirs) = DOMAIN corpus.articles
    BY <1>1, <2>1, ListingTyped
  <2>3. ToSet(summaries.dirs) = DOMAIN corpus.summaries
    BY <1>1, <2>1, ListingTyped
  <2>4. DOMAIN corpus.articles \subseteq DOMAIN corpus.summaries
    BY SoundDirs DEF SoundDir
  <2> QED BY <2>2, <2>3, <2>4 DEF Dirs
<1> QED BY <1>2 DEF split_dataset

LEMMA SoundTrains ==
  ASSUME Sound, Split, train_classifier \/ train_summarizer
  PROVE  step' # "failed"
<1>1. /\ step = "train" /\ Listed /\ Training /\ todo # <<>>
  BY DEF train_classifier, train_summarizer, Split
<1>2. Head(todo) \in ToSet(ToTrain)
  BY <1>1, HeadAndTail DEF Training
<1>3. Head(todo).dir \in DOMAIN corpus.articles
  BY <1>1, <1>2, ToTrainTrainable DEF Trainable
<1>4. ~UnknownClass(Head(todo).dir)
  BY <1>3, SoundDirs DEF SoundDir, UnknownClass
<1> QED BY <1>1, <1>4 DEF train_classifier, train_summarizer

LEMMA SoundPredicts ==
  ASSUME Sound, Split, Learnt, classify \/ summarize
  PROVE  step' # "failed"
<1>1. step = "test" /\ todo # <<>>
  BY DEF classify, summarize
<1>2. Vocabulary(model) # {}
  BY <1>1, SoundLearns
<1>3. Head(todo).dir \in DOMAIN corpus.articles
  BY <1>1, NextToTest
<1>4. ~UnknownClass(Head(todo).dir)
  BY <1>3, SoundDirs DEF SoundDir, UnknownClass
<1> QED BY <1>1, <1>2, <1>4 DEF classify, summarize, DividesByZero

(* Every directory has been predicted from.                                *)
LEMMA SoundResults ==
  ASSUME Sound, Listed, Predicted, NEW d \in Dirs
  PROVE  \E i \in DOMAIN results : results[i].item.dir = d
<1>1. ToTest \in Seq(Items) /\ \E at : Placed(ToTest, TestPart, at, Dirs)
  BY ToTestIs
<1>2. PICK at : Placed(ToTest, TestPart, at, Dirs)
  BY <1>1
<1>3. 1 \in DOMAIN TestPart[d] /\ TestPart[d][1].dir = d
  <2>1. PICK f : f = articles.files[d]
    OBVIOUS
  <2>2. PICK n, c : n = Len(f) /\ c = Cut(Len(f)) /\ n \in Nat /\ c \in 0..n
    BY <2>1, TestPartIs
  <2>3. DOMAIN TestPart[d] = 1..(n - c)
    BY <2>1, <2>2, TestPartIs
  <2>4. n - c \in Nat \ {0}
    <3>1. PICK F : f \in Seq(F)
      BY <2>1, ListedFiles DEF Enumerates
    <3>2. Len(SecondPart(f)) = n - c
      BY <2>2, <3>1, Parts
    <3> QED BY <2>1, <3>2, SoundSizes
  <2>5. 1 \in DOMAIN TestPart[d]
    BY <2>3, <2>4
  <2>6. TestPart[d][1] = [dir |-> d, ref |-> NoSummary, file |-> f[c + 1]]
    BY <2>1, <2>2, <2>5, TestPartIs
  <2> QED BY <2>5, <2>6
<1>4. PICK i \in DOMAIN ToTest : ToTest[i].dir = d
  BY <1>2, <1>3 DEF Placed
<1>5. i \in DOMAIN results
  BY <1>1, <1>4 DEF Predicted
<1> QED BY <1>4, <1>5 DEF Predicted

LEMMA AllPredicted ==
  ASSUME Split, step = "test", todo = <<>>
  PROVE  Listed /\ Predicted /\ PredictedSoFar
<1>1. Listed /\ Testing /\ PredictedSoFar
  BY DEF Split, Testing
<1>2. Len(todo) = 0
  OBVIOUS
<1>3. Len(results) = Len(ToTest)
  BY <1>1, <1>2 DEF Testing, PredictedSoFar
<1> QED BY <1>1, <1>3 DEF Predicted, PredictedSoFar

LEMMA SoundClassifies ==
  ASSUME Sound, Split, Tally, report_classifier
  PROVE  step' # "failed"
<1>1. step = "test" /\ ~test.summarize /\ todo = <<>>
  BY DEF report_classifier
<1>2. Listed /\ Predicted /\ PredictedSoFar
  BY <1>1, AllPredicted
<1>3. /\ Dirs = DOMAIN corpus.articles /\ Dirs # {}
  BY <1>2, ListedFiles DEF Sound
<1>4. tp + fp # 0
  <2>1. tp + fp = Len(results)
    BY <1>1, TallyAddsUp DEF MatrixAddsUp
  <2>2. \E i : i \in DOMAIN results
    BY <1>2, <1>3, SoundResults
  <2>3. Len(results) \in Nat /\ DOMAIN results = 1..Len(results)
    BY DEF Tally
  <2> QED BY <2>1, <2>2, <2>3
<1>5. ASSUME NEW d \in Dirs
      PROVE  ~UnknownClass(d) /\ \E c \in ClassSet : conf_matrix[d][c] # 0
  <2>1. d \in ClassSet
    BY <1>3, SoundDirs DEF SoundDir
  <2>2. PICK i \in DOMAIN results : results[i].item.dir = d
    BY <1>2, SoundResults
  <2>3. PICK c \in ClassSet : c = results[i].answer
    BY <1>1, <2>2 DEF Tally
  <2>4. i \in ClassifiedAs(d, c)
    BY <2>2, <2>3 DEF ClassifiedAs
  <2>5. IsFiniteSet(ClassifiedAs(d, c))
    BY PlacesFinite DEF ClassifiedAs, Tally
  <2>6. Cardinality(ClassifiedAs(d, c)) # 0
    BY <2>4, <2>5, FS_EmptySet
  <2>7. conf_matrix[d][c] = Cardinality(ClassifiedAs(d, c))
    BY <1>1, <2>1 DEF Tally
  <2> QED BY <2>1, <2>6, <2>7 DEF UnknownClass
<1> QED BY <1>1, <1>4, <1>5 DEF report_classifier

LEMMA SoundScores ==
  ASSUME Sound, Split, report_summarizer
  PROVE  step' # "failed"
<1>1. step = "test" /\ test.summarize /\ todo = <<>>
  BY DEF report_summarizer
<1>2. Listed /\ Predicted /\ PredictedSoFar
  BY <1>1, AllPredicted
<1>3. PICK d : d \in Dirs
  BY <1>2, ListedFiles DEF Sound
<1>4. PICK pairs : pairs = InEachDir(ScorePart)
  OBVIOUS
<1>5. PICK at : Placed(pairs, ScorePart, at, Dirs)
  <2>1. ScorePart \in [Dirs -> Seq(Items)]
    BY <1>1, <1>2, ScorePartTyped
  <2> QED BY <1>2, <1>4, <2>1, ListedFiles, EachDirPlaced
<1>6. 1 \in DOMAIN ScorePart[d]
  <2>1. ScorePart[d] \in Seq(Items)
    BY <1>1, <1>2, <1>3, ScorePartTyped
  <2>2. PICK m \in Nat \ {0}, n \in Nat \ {0} :
          /\ m = Len(SecondPart(articles.files[d]))
          /\ n = Len(SecondPart(summaries.files[d]))
    BY <1>1, <1>2, <1>3, SoundSizes
  <2>3. Len(ScorePart[d]) = Shorter(m, n)
    BY <1>1, <1>2, <1>3, <2>2, ScorePartTyped
  <2>4. Shorter(m, n) \in Nat \ {0}
    BY DEF Shorter
  <2> QED BY <2>1, <2>3, <2>4
<1>7. pairs # <<>>
  BY <1>3, <1>5, <1>6 DEF Placed
<1> QED BY <1>1, <1>4, <1>7 DEF report_summarizer, ScorePart

LEMMA SoundStep ==
  Split /\ Learnt /\ Tally /\ SoundNeverFails /\ [Next]_vars => SoundNeverFails'
<1> SUFFICES ASSUME Split, Learnt, Tally, SoundNeverFails, [Next]_vars, Sound'
             PROVE  step' # "failed"
  BY DEF SoundNeverFails
<1>1. corpus' = corpus
  BY DEF Next, vars, Fail, list_articles, list_summaries, split_dataset,
         train_classifier, train_summarizer, end_training, classify, summarize,
         report_classifier, report_summarizer, next_test, finished
<1>2. Sound /\ step # "failed"
  BY <1>1, SameSound DEF SoundNeverFails
<1>3. CASE list_articles \/ list_summaries
  BY <1>2, <1>3, SoundLists
<1>4. CASE split_dataset
  BY <1>2, <1>4, SoundSplits
<1>5. CASE train_classifier \/ train_summarizer
  BY <1>2, <1>5, SoundTrains
<1>6. CASE classify \/ summarize
  BY <1>2, <1>6, SoundPredicts
<1>7. CASE report_classifier
  BY <1>2, <1>7, SoundClassifies
<1>8. CASE report_summarizer
  BY <1>2, <1>8, SoundScores
<1>9. CASE end_training \/ next_test \/ finished \/ UNCHANGED vars
  BY <1>2, <1>9 DEF end_training, next_test, finished, vars
<1> QED BY <1>3, <1>4, <1>5, <1>6, <1>7, <1>8, <1>9 DEF Next

(* No test of main raises an exception on a corpus without a defect:       *)
(* however the directories are listed, there is a word to divide by, an    *)
(* article in every row, and a pair to average over.                       *)
THEOREM NothingFails == Spec => []SoundNeverFails
<1>1. Init => Split /\ Learnt /\ Tally /\ SoundNeverFails
  <2>1. Init => SoundNeverFails
    BY DEF Init, SoundNeverFails
  <2> QED BY <2>1, SplitInit, LearntInit, TallyFresh DEF Init
<1>2. Split /\ Learnt /\ Tally /\ SoundNeverFails /\ [Next]_vars
        => (Split /\ Learnt /\ Tally /\ SoundNeverFails)'
  BY SplitStep, LearntStep, TallyStep, SoundStep
<1> QED BY <1>1, <1>2, PTL DEF Spec
=============================================================================
