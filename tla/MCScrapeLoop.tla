------------------------------ MODULE MCScrapeLoop ------------------------------
(* Two labelled pods and a third one compete for two addresses. *)
EXTENDS ScrapeLoop
=================================================================================
