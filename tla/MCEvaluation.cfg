SPECIFICATION Spec
CONSTANTS
  Code <- SampleCodes
  MutationProbability = 100
  LifeSlope = 30
  LifeOffset = 20
  Word = 100000
  Founders <- SampleCells
  Evaluators = {"puta", "puta_0", "putchar", "putchar-2", "putchar-3", "puthi",
                "puthi-2", "exit", "exit_0", "exit_1", "init", "hello"}
  MaxDna = 35
  MaxMutants <- FewForLong
INVARIANTS EntryIsCode HundredIsGoal MeantSyscalls EndsByTail
CHECK_DEADLOCK FALSE
