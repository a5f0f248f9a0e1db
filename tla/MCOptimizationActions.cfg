SPECIFICATION ActionsSpec
CONSTANTS
    Writers = {old, new}
    Orgs = {acme, globex}
    Payloads = {q1, q2, q3}
    MaxRows = 3
    Deployments = {web, db}
    MaxReplicas = 2
    Pods = {4}
    Utilizations = {14, 25, 90}
INVARIANTS ChainsBackward ListingsVerify ForksNeedTwo AuditTrail NamedReductions
PROPERTIES ImplementsLedger AdviceIsNearest
SYMMETRY Symmetry
