CONSTANT MaxVersion = 3
SPECIFICATION Spec
PROPERTY SignalEndsTimer
