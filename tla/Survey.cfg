CONSTANTS
  Respondents = {r1, r2}
  MaxSurvey = 2
SPECIFICATION FairSpec
INVARIANT ResponseOnce
PROPERTIES EndIsFinal NextReturns
