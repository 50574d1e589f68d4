SPECIFICATION Spec
CONSTANTS
    First = "a"
    Names = {"a", "b", "c"}
    Kinds = {"create_attribute", "edit_attribute", "edit_user", "create_user", "upload",
             "modify_item", "survey"}
    MaxPages = 2
    MaxSurveys = 1
    MaxUsers = 2
INVARIANTS
    UsersHaveAttributes
    
    
    AnswerKept
CHECK_DEADLOCK FALSE
