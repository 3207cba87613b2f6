CONSTANTS
  MaxFrames = 5
  Rates = {1, 2, 3}
  AsrRate = 2
  Block = 3
  Delay = 1
  MaxLag = 1
SPECIFICATION RecSpec
CHECK_DEADLOCK FALSE
INVARIANTS
  WholeSpeechRecognized
  OnlySilenceCut
PROPERTIES
  RecognitionReturns
