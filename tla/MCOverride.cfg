SPECIFICATION Spec
CONSTANTS
    Orgs <- TwoOrgs
    Tokens = {t1, t2}
    Costs <- ReadyOrBlocked
    Named <- Ready
    Remaining = 1
    Ttl = 1
    MaxTime = 2
INVARIANTS OneActionPerToken  AnsweredIsAudited
PROPERTIES LiveTokensReplaced
SYMMETRY Symmetry
