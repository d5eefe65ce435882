----------------------------- MODULE MCSessions -----------------------------
(* Instances of Sessions for TLC. *)
EXTENDS Sessions, TLC

CONSTANTS u1, u2, u3

\* u1 and u2 are two rows with one email, u3 has its own.
OneEmailForTwo == (u1 :> "a") @@ (u2 :> "a") @@ (u3 :> "b")
=============================================================================
