SPECIFICATION Spec
CONSTANTS
  MapFiles = {"A", "B", "C"}
  CodFiles = {"a", "b"}
  Names <- MCNames
  NULL = NULL
  Prefix <- MCPrefix
  Lines <- MCLines
  Functions <- MCFunctions
  Directory <- MCDirectory
  Bases <- MCBases
  LinkBase = 16
  Delta = 4
  MaxAddress = 25
  MaxObjects = 2
  MaxEntries = 3
  Buffers = {b1, b2}
PROPERTIES
  UnloadsNamedOnly
