----------------------------- MODULE MCSecrets -----------------------------
(***************************************************************************)
(* Instances of Secrets for TLC: a key that every release generates and    *)
(* one that a later release added.                                         *)
(***************************************************************************)
EXTENDS Secrets

MCLater == {"admin-api-key"}
MCKeys == {"salt", "admin-api-key"}
=============================================================================
