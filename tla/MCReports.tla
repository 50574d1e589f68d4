----------------------------- MODULE MCReports -----------------------------
(* Two surveys for Reports: one with a question under another, one alone.  *)
EXTENDS Reports

MCSurvey == <<[subtype |-> "recurring", questions |-> <<1>>],
              [subtype |-> "on_user_creation", questions |-> <<3>>]>>
MCUnder == <<<<2>>, <<>>, <<>>>>
MCLimits == <<0, 2, 4>>
=============================================================================
