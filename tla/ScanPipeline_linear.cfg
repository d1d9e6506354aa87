SPECIFICATION Spec
CONSTANTS
  Files = {f1, f2}
  ServiceFiles = {f1}
  MaxCommits = 3
  Invocations <- FourWays
  NoCommit = NoCommit
CONSTRAINT NotLimited
INVARIANTS
  PassMeansVetted
  MandatoryPublished
