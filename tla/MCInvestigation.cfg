SPECIFICATION InvestigationSpec
CONSTANTS
    d1 = d1  d2 = d2  d3 = d3  official = official  synthetic = synthetic
    n1 = n1  l1 = l1  l2 = l2  NONE = NONE  WRONG = WRONG
    Doc = {d1, d2, d3}
    Source = {official, synthetic}
    Need = {n1}
    Cited = {d1, d2, d3}
    Contradicting = {d1}
    Allowances = {0, 1, 2}
    SourceOf <- MCSourceOf
    Covers <- MCCovers
    Routes <- MCRoutes
    Budgets <- MCBudgets
    Lot = {l1, l2}
    Uncertain = {l2}
    Revisions = {1, 2}
    Recall <- MCRecall
    Matched <- MCMatched
    Trace <- MCTrace
    TurnBudget = 15
    ReadBudget = 5
INVARIANTS ResultIsUninterrupted AnswersRestOnReads FallbackIsForExecution ReviewedEvidenceIsBound ReviewRestsOnAllRoles
PROPERTIES InvestigationEnds
CHECK_DEADLOCK FALSE
