SPECIFICATION Spec
CONSTANTS
    None = None
    Bars <- PortfolioBars
    Answers <- FewAnswers
    MaxStrays = 0
CHECK_DEADLOCK FALSE
INVARIANTS
    LegalStrategySucceeds
