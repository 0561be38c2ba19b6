-------------------------- MODULE MC_CertManager --------------------------
(* Instantiates CertManager for one MySQL object with TLS enabled.          *)
EXTENDS CertManager, TLC

=============================================================================
