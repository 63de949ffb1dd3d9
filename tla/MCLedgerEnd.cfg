SPECIFICATION Spec
CONSTANTS
  r1 = r1  r2 = r2  r3 = r3  s1 = s1
  Readers <- MCReaders
  Submitters <- MCSubmitters
  MaxAge = 2
  MaxLatency = 1
  MaxEnd = 3
  MaxTime = 3
SYMMETRY Symmetry
PROPERTIES ReadsCoverWrites AnswersAreFresh
