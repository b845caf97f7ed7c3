CONSTANTS
  Word <- MCWord
  Input <- MCInput
SPECIFICATION Spec
INVARIANTS TypeOK ReadAsDeclared ArgumentsArePairs OneFunctionALine
CHECK_DEADLOCK FALSE
