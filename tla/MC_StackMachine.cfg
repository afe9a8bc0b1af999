\* A program ends in "rejected", "listed", "done" or "undefined".
CONSTANTS
  WordSize = 8
  DataBase = 8000
  StackTop = 20000
  StackWords = 60
  DataWords = 3
  Programs <- Samples
  Wrong <- Messages
  Faulty <- Undefineds
  Texts <- TextsGiven
  Accepted <- Accepts
  Language <- LanguageOfThem
  Image <- Compiled
  Meant <- Meanings
  MainArguments <- TwoArguments
SPECIFICATION Spec
INVARIANT TypeOK
INVARIANT ReturnsItsMeaning
INVARIANT AcceptsTheLanguage
INVARIANT DepthByPlace
PROPERTY CallsReturn
PROPERTY Finishes
CHECK_DEADLOCK FALSE
