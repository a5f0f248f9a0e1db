-------------------------- MODULE MCComplianceLedger --------------------------
EXTENDS ComplianceLedger, TLC

Symmetry == Permutations(Writers) \cup Permutations(Orgs) \cup Permutations(Payloads)
===============================================================================
