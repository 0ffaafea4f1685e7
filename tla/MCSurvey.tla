------------------------------ MODULE MCSurvey ------------------------------
(***************************************************************************)
(* Instance of Survey for TLC: two respondents and one administrator.      *)
(***************************************************************************)
EXTENDS Survey

CONSTANTS c1, c2, a1

\* c1 may answer anything, c2 answers 1.
MCOpinions == ({c1} \X Answers) \union {<<c2, 1>>}
=============================================================================
