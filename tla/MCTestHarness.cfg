SPECIFICATION Spec
CONSTANTS
  Tests = {t1, t2, t3, t4}
  none = none
INVARIANT VerdictIsAboutProgram
