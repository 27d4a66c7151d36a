SPECIFICATION FairSpec
CONSTANTS
  Keep = 2
  MaxBooks = 1
  MaxBackups = 3
  MaxKeys = 2
  MaxCrashes = 1
CONSTRAINT MCFocus
INVARIANTS BooksKept KeyHeld UndoKept LatestReadable
PROPERTY StartsAgain
