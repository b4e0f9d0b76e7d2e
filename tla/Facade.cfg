SPECIFICATION Spec
CONSTANTS
  Clients = {c1, c2}
  Printers <- MCPrinters
  Neutral <- MCNeutral
  Tried <- MCTried
  Named <- MCNamed
  Wanted <- MCWanted
  Cuts <- MCCuts
  QueryMax = 1
  Null = Null
CONSTRAINT Overlap
INVARIANTS PromisesAreKept PrinterTakesIt
PROPERTY AnswersAdd
SYMMETRY Symmetry
