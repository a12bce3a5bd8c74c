SPECIFICATION Spec
CONSTANTS
    None = None
    r1 = r1
    ann = ann
    bob = bob
    cy = cy
    clearance = clearance
    skills = skills
    fit = fit
    polish = polish
    remark = remark
    Requests = {r1}
    Candidates = {ann, bob, cy}
    Criteria <- LongCriteria
    Severity <- LongSeverity
    Judged <- LongJudged
    Facts <- MCFacts
    Threshold = 80
    Verdicts = {"allowed", "blocked"}
    Answers <- LongAnswers
    MaxFaults = 1
INVARIANTS
    TypeOK
    SlotsKept
    RepliedIsAudited
    DecisionFollowsRubric
PROPERTIES
    RequestAnswered
CHECK_DEADLOCK FALSE
