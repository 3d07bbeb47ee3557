SPECIFICATION Spec
CONSTANTS
  Words = {"a", "b", "xml", "CDATA", "version", "encoding", "standalone"}
  Absent = Absent
  Marks <- MarksValue
  Contents <- ContentsValue
  MaxSize = 4
  Strays = {"&", "!"}
INVARIANTS SavedDocumentsAreReadBack CutFilesAreNoticed FirstInDocumentOrder
CHECK_DEADLOCK FALSE
