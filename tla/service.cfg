SPECIFICATION FairSpec
CONSTANTS
  w1 = w1
  w2 = w2
  i1 = i1
  i2 = i2
  stubborn = stubborn
  hidden = hidden
  nobody = nobody
  Workers <- MCWorkers
  Insts <- MCInsts
  Others <- MCOthers
  Stubborn <- MCStubborn
  Hidden <- MCHidden
  Nobody = nobody
  brief = brief
  long = long
  Texts <- MCTexts
  Faulty <- MCFaulty
  Size <- MCSize
INVARIANTS TypeOK RunsWhatIsSaved StateFileAgrees
PROPERTIES StartIsNotLost
