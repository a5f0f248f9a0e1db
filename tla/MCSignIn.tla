------------------------------ MODULE MCSignIn ------------------------------
(***************************************************************************)
(* Two sessions, and either two sign-ins and two codes in one process or   *)
(* one sign-in and one code in two processes.                              *)
(***************************************************************************)
EXTENDS SignIn, FiniteSets, TLC
Used == {s \in Servers : newest[s] # NoState \/ DOMAIN codes[s] \cup DOMAIN memory[s] # {}}
Within == Cardinality(Used) <= 1 \/ (Cardinality(DOMAIN begun) <= 1 /\ Cardinality(DOMAIN minted) <= 1)
Alike == Permutations(Servers) \cup Permutations(Tokens) \cup Permutations(States) \cup Permutations(Codes)
=============================================================================
