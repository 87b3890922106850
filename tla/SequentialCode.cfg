SPECIFICATION SequentialSpec
CONSTANTS
  Values <- MCValues
  Default = 0
  Capacity = 3
  WordBits = 64
  Columns <- MCColumns
  RowCounts <- MCRowCounts
  MaxRows = 13
  IntLimit = 16
  Texts <- MCTexts
  Shapes <- MCShapes
  Axes <- MCAxes
  Factors <- MCFactors
  Arrays <- MCArrays
  Ks <- MCKs
  Waves <- MCWaves
  Widths <- MCWidths
  MaxExtra = 1
  Window = 2
  MinSilence = 4
  SplitSilence = 1
  MinSpeech = 3
  MaxSpeech = 10
  Lengths <- MCLengths
  Inputs <- MCInputs
  StoiLimit <- MCStoiLimit
  Characters <- MCCharacters
INVARIANTS
  TypeOK SizeMatchesIndices EndsAreRight LoadedIsSaved TextsStayWhole TensorsKeepElements WavesAreRead
  VadTypeOK MarksAgree SegmentsInOrder SpeechIsCovered LongPausesSeparate
  ConfigTypeOK LaterArgumentsWin FileConfigUsable
PROPERTY ImplementsFifo
CHECK_DEADLOCK FALSE
