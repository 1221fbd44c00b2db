SPECIFICATION Spec
CONSTANTS
  Tests = {t1, t2}
  none = none
INVARIANT NoJunkLeftOver
