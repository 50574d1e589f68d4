--------------------------- MODULE MCSurveyEngine ---------------------------
(* Surveys for SurveyEngine: small trees that interrupt one another, that  *)
(* branch, or that ask nothing.                                            *)
EXTENDS SurveyEngine

CONSTANTS Instance,             \* which survey
          daily, once, welcome, \* schedules
          q1, q2, q3,           \* questions
          c1, c2, s1, s2, m1,   \* conditionals, setters, a message
          yes, no               \* answers

Recurring(send, resend, quantity) ==
    [subtype |-> "recurring", sendHour |-> send, daysOfWeek |-> {}, questionPeriod |-> 1,
     date |-> 0, resendType |-> "hours", resendHour |-> resend, resendQuantity |-> quantity]

OneTime(date, send, resend, quantity) ==
    [Recurring(send, resend, quantity) EXCEPT !.subtype = "one_time", !.date = date]

OnCreation(resend, quantity) ==
    [Recurring(0, resend, quantity) EXCEPT !.subtype = "on_user_creation"]

(* The actions of the nodes that have some.                                *)
Trees ==
    CASE Instance = "interrupt" -> (daily :> <<q1, c2>> @@ q1 :> <<s1>> @@ c2 :> <<q2>> @@ once :> <<q3>>)
      [] Instance = "faults" ->
             (welcome :> <<m1, q1>> @@ q1 :> <<c1, s1>> @@ c1 :> <<s2>>)
      [] Instance = "creation" -> (welcome :> <<q1, q2>> @@ once :> <<q3>>)

MCSchedules == {daily, once, welcome} \cap DOMAIN Trees
AllActions == UNION {Range(Trees[n]) : n \in DOMAIN Trees}
MCQuestions == {q1, q2, q3} \cap AllActions
MCConditionals == {c1, c2} \cap AllActions
MCSetters == {s1, s2} \cap AllActions
MCMessages == {m1} \cap AllActions
MCActions == [n \in MCSchedules \cup MCQuestions \cup MCConditionals |->
                 IF n \in DOMAIN Trees THEN Trees[n] ELSE <<>>]

MCConfig ==
    LET all == daily :> Recurring(1, 1, 1) @@ once :> OneTime(0, 3, 1, 1)
                   @@ welcome :> OnCreation(2, 1)
    IN  [e \in MCSchedules |-> all[e]]
MCAnswers == IF Instance = "faults" THEN {no} ELSE {yes, no}
MCTest == [c \in MCConditionals |->
              IF c = c1 THEN [on |-> "answer", values |-> {no}]
                        ELSE [on |-> "attribute", values |-> MCAnswers]]

MCAssign == [s \in MCSetters |->
                IF s = s1 THEN [attribute |-> "custom", value |-> "answer"]
                          ELSE [attribute |-> "status", value |-> "paused"]]
MCRepeatable == {q1}

(* What the theorems about the order of questions suppose of the trees.    *)
ASSUME TreeAssumption == TreesInOrder
=============================================================================
