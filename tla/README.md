# Formal models of ibabalau/ibabalau

The repository holds five small programs that have nothing to do with each
other.  This directory holds TLA+ modules for all of them, the TLC
configurations that check the modules on small instances, and proofs about
them for TLAPS.

    tlc -workers 2 -config <X>.cfg <M>     check a run (see "Runs")
    tlapm <M>Proofs.tla                    check the proofs of a module

## 1. Inventory

| program | language | state it keeps | what acts on it at the same time |
|---|---|---|---|
| `thread-scheduler/` | C library | one shared structure: array of tasks, ready queue, quantum | one POSIX thread per task and the initialising thread, no lock |
| `server-subscriber/` | C++ | broker: clients, subscriptions, stored messages; subscriber: none | broker, subscribers, publishers and operator, over TCP and UDP |
| `weather-api/` | Python, SQL | three PostgreSQL tables | Flask serves every request on its own thread |
| `image-compressor/` | C | files on disk between two commands; a quadtree during one | nothing |
| `doc-summarizer/` | Python | counts and results during a batch run, over files in directories | nothing, but the order of a directory listing is open |

### 1.1 Thread scheduler (`libscheduler.c`, `prio_queue.c`)

A library that lets one thread at a time run.  State: `tScheduler` (array of
tasks `tArr` with priority, timer, device, semaphore, tid; the ready queue
`pq_head`; quantum and number of devices).  Operations: `so_init`, `so_fork`,
`so_exec`, `so_wait`, `so_signal`, `so_end`, and the thread function
`start_thread`.  A thread hands the processor over by posting the next task's
semaphore and then waiting on its own; nothing else orders the threads.

Hard: the post can come before the wait; `realloc` moves the array while
other threads hold its address; `so_fork` of the initialising thread behaves
differently from that of a task; `so_end` walks an array that still grows.

Correct means: one task has the processor; no wakeup is lost; the ready task
of the highest priority runs, first come first served within a priority; a
turn lasts a quantum; `so_signal` wakes every waiter; `so_end` frees nothing
that is in use; nobody starves but by priority.

### 1.2 Publish/subscribe broker and subscriber (`server.cpp`, `subscriber.cpp`)

The broker is one thread around `select`: the operator's keyboard, a listening
TCP socket, a UDP socket, one TCP socket per client.  State: `topics` (who is
subscribed), `sf_clients` (for whom messages are stored), `sf_messages` (what
is stored), `sock_to_id`, `id_to_sock`, `read_fds`.  A subscriber connects,
sends its id, then sends what is typed and prints what arrives.

Hard: descriptors are reused and table entries outlive them; commands sent
separately arrive glued; the recv for a client's id blocks the whole broker;
clients close while they are being sent to; one id may log in twice.

Correct means: each message reaches, or is stored for, exactly the clients it
is for, once, in order; messages are stored for subscribers only; a client
that logs in is served; `exit` ends every subscriber.

### 1.3 Weather API (`api/main.py`, `init.sql`)

Handlers that add, change, delete and list countries (`tari`), cities
(`orase`) and temperatures (`temperaturi`).  Every statement is a transaction
of its own; `add_city` and `add_temp` ask whether the parent exists and insert
afterwards.  Six GET handlers list rows, one SELECT each; those of
temperatures take dates and join the three tables.

Hard: the parent may go between the two statements; a connection may be lost
with the statement executed or not; an inner join leaves out what has no
partner.

Correct means: what was deleted stays deleted whatever is under way on it, no
id comes to mean another row, no row is lost unless it or its parent is
deleted, status codes fit the tables, and every reading is listed under its
city and its country, once.

### 1.4 Image compressor (`quadtree.c`)

Four commands on files: compress, decompress, mirror, overlay.  All of them
build a quadtree whose leaves are squares with a mean squared error up to a
factor.  The tree is written as an array of rows that refer to each other by
index; the indexes are assigned by one breadth-first loop, the rows written by
another.

Hard: integer means and errors; odd sides; trees of different depth laid over
each other; the two loops must agree.

Correct means: what comes back is the approximation the factor asks for,
mirrored or averaged, nothing else.

### 1.5 Document summarizer (`main.py`)

Nine tests in one run: three classify news articles by naive Bayes, six pick
the sentences of an article that belong in its summary.  Each test lists the
directories, trains on the first three quarters of each, predicts the rest and
reports.  State: the two listings, `vocabulary` and `word_cnt`, the results
(`my_summaries`, `conf_matrix`, `tp`, `fp`).  Operations: `train_classifier`,
`train_summarizer`, `predict_class`, `predict_sentence_in_sum`,
`evaluate_classification`, `evaluate_summarization`, the two tests around them.

Hard: articles and summaries are paired by their places in two listings, whose
order nobody promises; sentences are recognised by comparing strings taken
apart in two different ways, those of a summary only where `re.sub` put a space
between them; small or empty directories make divisors zero;
ties between sums of logarithms fall as rounding has it.

Correct means: the counts are those of the texts trained on; each prediction
is the most probable one; nothing predicted was trained on; an article is
compared with its own summary; the matrix adds up; no exception where the
files give no reason for one.

## 2. Modules

| module | models | notes |
|---|---|---|
| `PrioQueue` | `prio_queue.c` | the linked list as a sequence of nodes |
| `Scheduler` | `libscheduler.c` | extends `PrioQueue` |
| `RoundRobin` | the promise in `thread-scheduler/README.md` | abstract, no threads |
| `Orders` | tasks and places in ascending order | used by `RoundRobin` and the mapping |
| `SchedulerRefinement` | the mapping between the two | `RoundRobin` by `INSTANCE ... WITH` |
| `LibraryLemmas` | what folds, sums and concatenations of the community modules compute | extended by the proof modules |
| `SchedulerProofs` | proofs | the queue; types; safety |
| `SchedulerRefinementProofs` | proof that `Scheduler` implements `RoundRobin` | |
| `Connections` | TCP, UDP and the descriptor table, as used here | external |
| `Broker` | `server.cpp` | extends `Connections` |
| `Subscriber` | `subscriber.cpp` | extends `Connections` |
| `PubSub` | broker, subscribers, publishers and operator together | |
| `PubSubTypeProofs`, `PubSubProofs` | proofs | types, tables and descriptors; then connections, order and delivery |
| `Database` | `init.sql` | tables as sets of rows |
| `WeatherApi` | the handlers of `main.py` | extends `Database` |
| `WeatherProofs` | proofs about the tables and the answers | |
| `Quadtree` | the functions of `quadtree.c` | trees keyed by paths |
| `ImageCompressor` | its four commands on files | extends `Quadtree` |
| `ImageCompressorProofs` | proofs: types; files; what each command draws | |
| `NaiveBayes` | words, counts and predictions of `doc-summarizer/main.py` | tokenizer and lemmatizer external |
| `DocSummarizer` | its nine tests | extends `NaiveBayes` |
| `DocSummarizerProofs` | proofs: the split and the pairing; the matrix; counts and predictions; types; no exceptions | |
| `MC_*` | constants for TLC | |

An operator named after another one with a suffix (`dequeueKeepingNode`,
`NewIdFromZero`) or introduced as a mutant is a plausible slip in it.  No run
uses it; put in the place of the original it makes the run fail, which shows
that the property can fail.

### 2.1 Scheduler

A thread is where its `pc` says: `park`, `loaded`, `blocked` are the three
moments of `sem_wait(tArr[t].sem)` (the address of the array is loaded; the
semaphore is read through it; the thread sleeps).  Between two such moments a
thread is alone, since the others sleep or are about to, so the code between
them is one action.  Two exceptions are modelled in full.  The initialising
thread runs beside the tasks, so storing `tid` and every step of `so_end` are
actions of their own; and the loop of `so_signal` is one action per task,
because `so_end` may go on meanwhile.

The use of an address that `realloc` has freed is undefined: `stale` records
who holds such an address, and using it either works or sets `fault`, after
which nothing is claimed.  Handlers are arbitrary: a running task may make any
call at any time or return.  Calls the library refuses change nothing.

### 2.2 Broker

A pass of the loop is `Select` followed by one action per ready descriptor, in
ascending order; loops that send are one action per send, since clients close
meanwhile.  A missing key of a `std::map` reads as 0 or the empty string, as
in the code.  The kernel is modelled as Linux behaves: the lowest free
descriptor is reused; closing with unread data resets the connection; a send
to a closed connection succeeds once and the next raises SIGPIPE; recv takes
all that has arrived, so two commands may be one text, which the code parses
as one.  A record of the broker has a fixed size at both ends, and the model
assumes that TCP does not cut one.

When the broker ends, connections it never accepted, and those with texts it
never received, are reset; what it sent before is still read first.  A
subscriber learns of the reset once.  If recv is told, the program ends
(`ConnectionLost`).  If one of its sends is told, whose results it ignores,
recv returns 0 for ever and the program goes on until another send raises
SIGPIPE: `shut` has the connections where this happened (`Sends`).

Only what `parse_client_comm` does with glued text is kept: "unsubscribe"
anywhere makes it an unsubscription, with the topic at a fixed offset.  A
client id glued to a command is an id nobody else has.

### 2.3 Weather

`Execute` is one statement: done, refused by a constraint, or lost with the
connection (either way).  `Consistent` is the conjunction of the constraints
of `init.sql`.  A request whose body is malformed is answered before the
database is asked and changes nothing.  Lines 151-152, 264-265 and 290-291 of
`main.py` are not valid Python as they stand (a condition is broken over two
lines without brackets); each is read as one condition.

A GET handler is one action and changes nothing but `answer`: the rows as
they are, in a set since the order is that of their ids.  `Within` is the
condition on the dates, with their defaults; `ReadingsOfCity` and
`ReadingsOfCountry` are the joins.  `near`, any set of cities, stands for the
cities at a latitude and longitude.  An error (a lost connection, a date or a
coordinate that is none) is a 500, but 200 and an empty list for readings.

### 2.4 Image compressor

A tree is a function from paths to nodes.  `maketree` makes a node exactly
when all nodes above it were split, `mirror_h` and `mirror_v` rename paths,
`combine_trees` joins two sets of paths, and `Walk` is the loop over the queue.
One action is one command.  Memory from malloc that no leaf covers holds
arbitrary pixels.

Images are squares of a side up to 46340 (`MaxSide`): the code multiplies the
side with itself in an `int`, and `IsImage` keeps to the images where that
does not overflow.  A tree of such an image has fewer than 2^31 nodes, so that
no index overflows either; the sums of colours and errors are `long long`.  The
other integers of this model have no width but for `Colours`, the unsigned
chars, which `TypeOK` keeps.

### 2.5 Document summarizer

A text is what the program tells apart: an article is a sequence of sentences,
a sentence of lines, a line of words; a summary is a sequence of lines.  How
nltk finds words and sentences and what a lemma is are outside: `Lower` and
`Lemma` are functions the instance gives.  What the program does with them is
kept: the title goes with all but the last line of the first sentence
(`Sentences`), and a sentence counts under "yes" if it equals a sentence of
the summary.

A word carries what stands between it and the next word, so that what
`re.sub(r"\.([A-Z])", r". \1", ...)` does can be said of words: `Spaced` are
the words that end in a stop with nothing behind it, `Capitals` those whose
first character is one of A to Z, and where the one stands before the other a
space is put (`Parted`).  Within a line this changes a word (`Respaced`).
Between two lines it lets the tokenizer cut; lines with no space between them
stay glued (`SummarySentences`).  That the tokenizer cuts there and nowhere
else is assumed.

A sum of logarithms is the product of its factors, kept as a fraction, so
that comparing two is exact; where two products are equal but their factors
differ, the sums in floating point may fall either way, and both answers are
allowed.  The equal priors `log(0.2)` and `log(0.5)` are left out.

One action is one directory listing (any order), the split, one document
trained on, one document predicted, or a report.  A division by zero, a
missing key or an empty list where one is indexed ends the program: `failed`.
The score of ROUGE is not modelled, but which pairs are scored is (`scored`).

## 3. Runs

| run | bounds | shows |
|---|---|---|
| `scheduler_safety` | 3 tasks, 2 priorities, quanta 1 and 2, 1 device | mutual exclusion, no lost wakeup, priorities, quanta; the library implements `RoundRobin` |
| `scheduler_grow` | 4 tasks of one priority | the array grows twice after threads exist; teardown; so_signal passes over all |
| `scheduler_liveness` | 3 tasks, 2 priorities | no starvation, a posted task runs, `so_end` ends |
| `scheduler_stale` | as safety | **violated**: an address into the array is used after `realloc` |
| `scheduler_second_fork` | 2 tasks forked by Main | **violated**: the second one may never run |
| `pubsub_safety` | 3 connections, 2 descriptors, 2 ids, 1 topic, 2 datagrams, 2 commands | order, exactly once, tables, no blocking on what select reported |
| `pubsub_liveness` | 2 connections, 2 topics, 1 datagram, 1 command, operator types exit | logins are served, exit ends the subscribers |
| `pubsub_stale_fd` | as safety | **violated**: a message is sent to another client |
| `pubsub_close` | as safety, 3 descriptors | **violated**: a client that closes ends the broker |
| `weather_api` | 2 threads, 2 ids per table, 2 instants, 2 pairs of dates | deletions, ids, status codes, listings |
| `image_compressor` | 2x2, 3x3 and 4x4 images, 2 factors, 2 commands | files and images against a definition without trees |
| `doc_summarizer` | 11 corpora of up to 5 articles, every order of listing | counts, predictions, split, pairing, matrix, no exception on a sound corpus |

Why the bounds are enough.  *Scheduler*: two waiting tasks and a running one
are needed for order within a priority, a second priority for preemption, a
quantum of 2 for a turn of more than one call; four tasks make the array grow
while one thread holds its address, another waits and a third signals.
*Broker*: three connections on two descriptors make a descriptor come back
under another client, or the same id come back on another descriptor, with
two messages to get out of order.  `StoreFlags` is `{TRUE}` in the safety run,
since only stored messages can be doubled or reordered; the liveness run has
both, and a topic that begins with "exit".  The broker's exit is in the
liveness run only, where one connection may be accepted and the other still
wait; that nothing follows the exit record is proved (`DeliveredInOrder`).
*Weather*: a row, the row that clashes with it, and ids that run out;
of the two pairs of dates one has no end and begins after the first instant,
the other ends on it.
*Images*: 4x4 images have trees of three levels, the least at which rows
written in another order than they were numbered are not a renaming; the two
factors are 0, where rounding alone merges squares, and 3000, where a square
may be merged although a quarter of it would be split.  *Summarizer*: two
sound corpora, of two classes with two and three articles and of one class
with four (the split is 1:1, 2:1 and 3:1), with stop words, words of one
letter, capitals, plurals, a title in the first sentence, a title that is a
sentence, summaries glued together because a line begins with no capital or
the one before it ends in no stop, and one with a stop inside a line; and nine
corpora with one thing wrong.

`CHECK_DEADLOCK FALSE`: the scheduler may end in a fault or with a task
waiting for a device nobody signals, the broker ends, the weather model runs
out of ids, and a bounded number of commands comes to an end.  The summarizer
may not: its run checks deadlock, with one stuttering action (`finished`)
where main has returned or an exception has ended it, so that every test gets
to its report or fails.  Its loops only shorten `todo`, and no fairness is
assumed.

Fairness.  *Scheduler*: every thread that can run is run by the kernel, and a
handler gets to its next library call or returns; the initialising thread
finishes `so_fork` and `so_end` but need not call them.  `TaskStep` as a whole
is fair, not each call in it: which calls a handler makes is its own affair.
*Broker*: its thread is run; a subscriber sends its id once connected, and
reads what arrives; nobody has to type, publish or leave.

## 4. Proofs

TLAPS proves, for every number of tasks, every set of priorities, quanta and
devices (`SchedulerProofs`):

* `EnqueueKeeps`: `enqueue` keeps a queue sorted and free of duplicates.
* `TypeCorrect`, the type invariant.
* Under `MainForks <= 1` the inductive invariant `IInv`, and from it `MutualExclusion`, `NoLostWakeup`, `ReadyServed`,
  `PriorityRespected`, `QuantumRespected`, `ArrayLargeEnough`, `TeardownSafe`,
  `SignalComplete`.

The assumption `MainForks <= 1` (the initialising thread forks the first task
only) is needed: `scheduler_second_fork` shows what happens otherwise.  The
invariants of the runs are not inductive by themselves.  `IInv` adds that
the queue is sorted and carries the tasks' priorities (`Ordered`, `Ranked`),
that tasks which are not running have a full timer (`Refilled`), that
so_signal's loop has left no waiter behind it (`Passed`), that tasks beyond
`arr_size` are unborn (`Birth`) and that `so_end` has joined what it has passed
(`Joined`).  Three lemmas carry most actions: `Handover` (the caller gives the
processor away), `Continue` (it keeps it), `Pay` (it does one or the other).

`SchedulerRefinementProofs` proves `Implements`, that the library implements
`RoundRobin`, again under `MainForks <= 1`: the initial states map to initial
states, and every step of `Scheduler` maps to a step of `RoundRobin` or leaves
its state alone.  It uses `IInv` and one invariant more, `Levelled`: a task
that was born has one of the priorities the abstract queues exist for.  The
argument goes through the queues.  The abstract scheduler has one FIFO per
priority, the library a single linked list.  `QueuedAt` reads one from the
other, as the tasks at the places of that priority in ascending order.
`QueuedAtEnqueue` shows that `enqueue` appends to one FIFO and touches no
other, `QueuedAtDequeue` that `dequeue` takes the head of the FIFO with the
highest priority; `ListsUnique`, that an ascending enumeration is unique, is
what both rest on.  `Dispatches` and `Pays` turn `sched` and the accounting
before it into their abstract counterparts, and then there is a lemma for each
call (`ForkImplements`, `SignalImplements` and so on).  `so_signal` is abstractly
one step and concretely a loop: its first step wakes everybody at once
(`AboutToWake`), and each iteration only moves one task from those about to
wake to those queued, in the order they already had (`IterationStutters`).
The semaphores, and all of starting and ending that is not a task's own, are
invisible (`SemWaitStutters`, `Unnoticed`).

For the weather API, for every number of request threads, every set of names
and every number of ids (`WeatherProofs`):

* `TypeCorrect`, the type invariant.
* `GoneForGood`: a row that went does not come back under its id.  Whatever is
  not an insertion leaves the ids or takes some away; an insertion adds one
  above the serial number (`AddsNewIds`), and all ids there ever were are below
  it (`BelowInductive`).
* `IdsAnsweredOnce`: an id answered with 201 is not answered again.  Every id
  that was acknowledged is at most the table's serial number (`AckedBelow`),
  and a new one is above it (`IdsStep`).
* `OnlyDeletes`: no row is lost but by a request that names it or what it
  hangs on.  Everything that is not a deletion keeps the ids (`Keeps`); what a
  deletion takes along has lost its parent (`CascadeNamed`), and since the
  tables were tidy the parent is the row that was named.

* `ReadingsListedOnce`: the joins list each reading of the dates under one
  city and one country.  The keys of the tables leave one city and one country
  to join it with (`ReadingListed`), and the foreign keys, which every
  statement keeps (`Executed`), leave no reading that the join would lose.
* `AnswersTrue`: every status code fits what the request did to the tables.
  Each of the three kinds of row has a lemma (`CountryTold`, `CityTold`,
  `ReadingTold`), which rest on three facts about `Execute`: a statement that
  answers 201 or 200 was executed (`ExecutedAnswer`), one that answers 409 or
  404 was refused and by which constraint (`RefusedCountry` and so on), and a
  deletion with its cascade is never refused (`CascadeAccepted`).  The last
  needs that all ids are below the serial numbers (`IdsBelow`), the
  strengthening over the types.

For the broker with its subscribers, for every number of connections,
descriptors, clients, topics, datagrams and commands:

* `PubSubTypeProofs`: `TypeCorrect`, the type invariant, and
  `StoringIsForSubscribers`.  Inductive with them: which loop variable means
  what in each place of the broker's code (`LoopOK`), and that a descriptor is
  in `read_fds` exactly when a connection has it (`DescriptorsOK`).
* `PubSubProofs`: `PassesNeverBlock`, `BrokerKnowsItsClients`,
  `DeliveredInOrder`, `SentOrStoredExactlyOnce`.  Inductive with the first:
  connections are accepted in the order they were made, and what `select`
  reported still holds when the pass reaches it (`Connected`).  With the
  second: what becomes true of a client at the end of its login already holds
  of its table entries while its messages are flushed, and nothing is stored
  for an id on record as online (`Known`).  With the third: what is stored is
  ordered, and older than what is sent directly; who is not logged in got
  nothing; the exit command comes in the last loop (`Ordered`).  With the
  last: who is still in the loop of a fan-out is among its recipients
  (`OwedInLoop`), and no topic lists a client twice.

For the summarizer, for every corpus of finite directories
(`CorporaAssumption`), every order they may be listed in and every sequence of
classes (`ClassesAssumption`), in `DocSummarizerProofs`:

* `TestedApart` and `OwnSummaries`, from the inductive invariant `Split`.  It
  says how far each loop is: what was trained on and what is left to train on
  make up `ToTrain` (`Training`), the results so far are those of the first
  articles of `ToTest`, in that order (`PredictedSoFar`).  That a listing has
  every file once (`SeqsOfSet`) and the two parts of a directory are disjoint
  (`Parts`) then separates training from testing.  For the pairing,
  `MySummariesComplete` says what `my_summaries[dir]` holds at the report: the
  second part of the directory's listing, in its order.  It is taken from the
  results of all directories, which the loop over `ToTest` has mixed.
* `MatrixSums`, from `Tally`: every cell of the matrix, `tp` and `fp` are the
  numbers of the results that belong there.  The sums of the property are
  folds over sets; `SumCounts` says that such a sum counts the union.

* `LearnsWhatItReads`, from `Split` and `Learnt`.  While a test trains,
  predicts and reports, the tables of the code `Reflect` the set `Counted` of
  all places of all texts that were to be counted: the known words are those
  at the places, each count is the number of places with that word and label.
  `OneCounted` says what `CountTerm` does to the tables, `TextCounted` what a
  text does, place after place, `TextReflected` that they then reflect the
  places of that text as well.  An item is trained on once (`ToTrainOnce`), so
  the places of an article were not there before.  `LabelSums` adds up the
  counts of a word over the labels.  `Counted` has the labels that the code
  gives; `Labelled` those that the lines of the summary say, for the articles
  where these leave no doubt.  That the first has all of the second
  (`SurelyCounted`) comes from `StandardApart`: of a summary whose lines begin
  with a capital and end in a stop every line is a sentence.
* `MostProbable`.  What the code divides by, the words of a label plus the size
  of the vocabulary, is the textbook's sum over the known words of one more
  than each occurs (`OccurrenceSums`, `PosteriorFactors`).  That the argmax of
  the code is that of the property follows (`ClassBest`, `SentenceBest`); the
  second needs the products to be natural numbers (`ProductTyped`), since
  "yes" is not above "no" only if "no" is above or the two are equal.
* `DocumentsTyped`, from the same invariants and `Bounds`.
* `NothingFails`.  A listing of a directory with two articles has at least one
  in each part (`SoundSizes`).  The first part leaves a word or a pair to count
  (`SoundLearns`, by `ContentKept` and `TermsOfText`: two words of content
  survive every kind of preparation), so no divisor is zero; the second leaves
  a result in each row (`SoundResults`) and a pair to score (`SoundScores`).

`CorporaAssumption` says of a corpus that directories are finite, that the
tokenizer leaves no sentence without a line, that a summary has no empty line,
and that every word has a lower case; `SpacedAssumption`, that a word with a
space after its stop is a word; `ConversionsAssumption`, that every word in
lower case has a lemma.

For the image compressor, for every pair of images up to `MaxSide`, every
threshold and any number of commands, in `ImageCompressorProofs`:

* The inductive invariant `IInv` says how each file came about.  The
  compressed file is `Pack` of the tree of the image it was made from
  (`CompressedFile`), an image file is what `makeimg` draws from that tree,
  mirrored or combined with another (`Drawing`).  None of the invariants of the
  run is inductive: each speaks of what was drawn and not of the file that the
  next `decompress` reads.  All seven theorems follow from `IInv` and from what
  the operators compute.
* `TypeCorrect`.  A mean of unsigned chars is one (`MeanTyped`, by
  `SumBetween`), and so is the mean of two (`MixedIs`).
* `Readable` and `RoundTrip`.  `FullTree` is what `maketree` guarantees of a
  tree: every node has its parent and four children or none (`MadeTree`).  For
  such a tree `WalkLists` proves of the loop over the queue, turn after turn,
  that dequeued and queued together list nodes once, each after its parent
  (`Listed`), and that the loop ends with all of them.  So the numbers of
  `set_tree_index` are the places of `create_vector` (`Numbered`), each row
  refers to the rows of the four children (`Packs`), and following the rows
  along a path ends where the path does in the tree (`RowIs`).  The counts of
  the file agree because a tree has four children per inner node
  (`LeavesCounted`).
* `Faithful`.  The promise speaks of squares, the code of paths.  Where the
  side is a power of two, the squares of the promise are the blocks of the
  paths (`SquaresAre`), and the blocks around a pixel are those of the prefixes
  of one path (`PathAround`).  On it lies one leaf (`LastLeaf`), which paints
  the pixel (`Painted`); the blocks above were split for their error, the block
  of the leaf was not (`LeafAllowed`), so that it is the largest square
  allowed (`ApproximationIs`).
* `Reflected`.  Renaming a path reflects its block (`BlockReflects`), hence the
  path around a pixel to the path around its reflection (`AroundReflected`).
* `Averaged`.  The path around a pixel ends in the combined tree where the
  longer of the two does, and the leaf of the shorter is carried down to it
  (`LastBoth`, `CombinedIs`).
* `NeverMoreNodes`.  A leaf that was drawn flat has error 0 (`ConstantBlock`)
  and is a leaf again at any threshold, so that no path gets longer.

The last four are, like the properties, about sides that are powers of two.

The folds of the libraries (`FoldLeft`, `MapThenSumSet`, `SumFunction`,
`FlattenSeq`) are functions on subsets that pick one element after the other.  In
`LibraryLemmas`, `FoldExists` shows that such a function exists and
`Flattened` where each piece ends up in the concatenation; both are proved by
way of a least counterexample (`LeastNumber`), as are `SumCounts` and
`CountingUp`.  From these come the lemmas that turn a loop of the code into
its states one after the other (`KeepsGrow`, `CountGrows`, `GluesGrow`,
`LearnsGrow`, `ProductGrows`, `MySummariesGrow`).  `StepsExist` does the same
for a loop in general, and the image compressor's loops and descents
(`BlockSteps`, `HalvedSteps`, `WalkLists`) come from it.

All invariants and action properties of the passing runs are proved.  Only
model-checked is liveness (`NoStarvation`, `PostedTaskRuns` and `EndTerminates`
of the scheduler, `LoginServed` and `ExitReachesAll` of the broker): it rests on fairness
and `ENABLED`, which the provers do not reach.

## 5. Where the code and its comments disagree

1. `so_fork` moves the array while other threads hold its address
   (`libscheduler.c:149`), although the comment at 160 knows the danger.
2. A second `so_fork` of the initialising thread may queue a task that never
   runs (`libscheduler.c:170`); the header says it is run.
3. An entry of `id_to_sock` outlives its connection, so that messages for one
   client are sent to another that got its descriptor (`server.cpp:85`).
4. A client that closes with a message unread ends the broker
   (`server.cpp:300`).

Each is a run that must find the violation.  The other runs of the same
module hold beside them: with `MainForks = 1` for the second, up to `fault` for
the first, while `ExactlyOnce` counts on whose behalf a message is sent, not
on whose connection, for the third, and up to the broker's death for the
fourth.

Met while reading, certain and in no need of a search:
`get_cities_from_country` (`main.py:246`) adds a string to a list and fails on
every call; a negative factor makes `maketree` divide by zero
(`quadtree.c:109`); a second `so_end` reads a NULL array (`so_end_again`);
a lost connection, a malformed date or coordinate is answered with 200 and no
readings (`main.py:389`).  In the summarizer: "add space after each sentence"
(`main.py:295`) holds only between a stop and one of the letters A to Z, so
that a summary sentence that begins with a digit or a quotation mark, or
follows one that ends in a question mark or a quotation mark, is never
recognised, and one with "U.S." in it is changed and not recognised either
(`CountsTrainingOnly` leaves the labels of such articles open); the comment that
main runs all variants (321) leaves out lemmatizing without removing stop
words; a title that ends in a full stop is a sentence of its own and stays
(287); and where the two listings are in different orders, articles are
trained on and compared with the summaries of other articles (292).  In the
subscriber: the results of `send` are ignored (145, 187) and the loop tests
recv for errors only (166).  A subscriber that still waits to be accepted when
the broker exits therefore hangs, taking recv's 0 for a record again and
again, if its id or a command is sent into the reset; `ExitReachesAll` exempts
exactly these, and fails without the exemption.

## 6. Not modelled, and the plan

* Checking and formatting JSON; coordinates and temperatures as numbers.
* What a subscriber prints (`subscriber.cpp` 44-120), where `setprecision` (88)
  outlives the message it is meant for; a record cut by the network (165).
* Bytes of image and compressed files; allocation and freeing in `quadtree.c`.
* Tokenizer, lemmatizer, ROUGE, and floating point beyond ties.

Worth adding: an abstract broker (a mailbox per client) and the broker as its
implementation, up to the reuse of descriptors.
