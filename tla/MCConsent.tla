------------------------------ MODULE MCConsent ------------------------------
(* A small instance of Consent.                                              *)
EXTENDS Consent
=============================================================================
