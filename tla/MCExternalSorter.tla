-------------------------- MODULE MCExternalSorter --------------------------
(* Instances of ExternalSorter for TLC *)
EXTENDS ExternalSorter, TLC

=============================================================================
