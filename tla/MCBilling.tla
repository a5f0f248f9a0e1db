------------------------------ MODULE MCBilling ------------------------------
(* Two people over two containers, which may serve side by side. *)
EXTENDS Billing
==============================================================================
