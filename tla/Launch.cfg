SPECIFICATION Spec
CONSTANTS
  Builds <- MCBuilds
  CFiles <- MCCFiles
  CppFiles <- MCCppFiles
  Objects <- MCObjects
  BaseName <- MCBaseName
  OWords <- MCOWords
  LongWords <- MCLongWords
  NoFile = NoFile
INVARIANTS TypeOK ToldOrDone OwnWork
PROPERTIES EveryJobEnds ArgumentsRead
CHECK_DEADLOCK FALSE
