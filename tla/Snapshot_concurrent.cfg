SPECIFICATION Spec
CONSTANTS
  a = a
  b = b
  f = f
  Fault = Fault
  Nobody = Nobody
  NoValue = NoValue
  NoAnswer = NoAnswer
  Callers = {a, b}
  Features = {f}
  Outcomes = {"on", "off"}
INVARIANT VariantsRepeat
SYMMETRY Callers2
