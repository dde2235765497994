CONSTANTS
    Setters = {a, b, c}
    MaxTime = 2
    Period = 1
SPECIFICATION Spec
INVARIANTS TypeOK NoCallForgotten
PROPERTIES SetterEnds RefinesMaxRegister
