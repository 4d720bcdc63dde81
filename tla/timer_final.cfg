CONSTANT MaxVersion = 1
SPECIFICATION Spec
INVARIANT FinalSaveMade
