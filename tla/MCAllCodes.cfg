CONSTANTS
  Compound <- Instructions
  ListLen = 2
  Founders <- NoneOrSome
SPECIFICATION CodesSpec
INVARIANTS Fits Genuine Complete
