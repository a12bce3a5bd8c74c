SPECIFICATION Spec
CONSTANTS
    None = None
    r1 = r1
    ann = ann
    bob = bob
    cy = cy
    clearance = clearance
    skills = skills
    fit = fit
    polish = polish
    remark = remark
    Requests = {r1}
    Candidates = {ann, bob, cy}
    Criteria <- MCCriteria
    Severity <- MCSeverity
    Judged <- MCJudged
    Facts <- MCFacts
    Threshold = 85
    Verdicts = {"allowed", "blocked"}
    Answers <- MCAnswers
    MaxFaults = 1
INVARIANTS
    QualifiedMeansRubric
CHECK_DEADLOCK FALSE
