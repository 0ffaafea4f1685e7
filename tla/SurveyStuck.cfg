SPECIFICATION LiveSpec
CONSTANTS
  c1 = c1
  c2 = c2
  a1 = a1
  Programs = {"SurveyServer2"}
  Respondent = {c1, c2}
  Administrator = {a1}
  Questions = 2
  Answers = {0, 1}
  Opinions <- MCOpinions
  Killable = {c1, a1}
  Garbage = {1, 9}
  Parts = 2
  ThreadLimits = {1}
PROPERTIES
  EveryAdminEnds
CHECK_DEADLOCK FALSE
