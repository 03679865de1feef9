CONSTANTS
    right = right
    wrong = wrong
    essay = essay
    Answers = {right, wrong, essay}
    NoAnswers = NoAnswers
    Mark <- MCMark
    Grades = {50}
    Sent = {right, wrong, essay, NoAnswers}
    Requests = {r1}
    Endpoints = {"start_multi", "save_progress", "save_activity", "submit", "submit_multi", "list"}
SPECIFICATION Spec
INVARIANTS
    SkillMatchesScore
    ListingIsFresh
