SPECIFICATION Spec
CONSTANTS
  Lower <- MCLower
  Lemma <- MCLemma
  STOP_WORDS <- MCStopWords
  OneLetter <- MCOneLetter
  Classes <- MCClasses
  Corpora <- MCCorpora
  Capitals <- MCCapitals
  Spaced <- MCSpaced
  NoSummary = NoSummary
INVARIANTS TypeOK CountsTrainingOnly PredictsTheMostProbable NothingTestedWasTrainedOn ComparedWithOwnSummary MatrixAddsUp SoundNeverFails
