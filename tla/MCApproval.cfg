CONSTANTS
    r1 = r1
    r2 = r2
    None = None
    Runs <- const_Runs
    Searching <- const_Searching
    Calls = {"command", "web_search"}
    CallsOf <- const_CallsOf
    Modes = {"ask", "auto"}
    Policies = {FALSE}
    Droppable = {"settings"}
    Grantable = {"command", "web_search"}
    Stoppable <- const_Stoppable
SPECIFICATION Spec
INVARIANTS
    NobodyWaitsInVain
    ModesAgree
PROPERTY
    ReleasesWhatItJudged
