--------------------------- MODULE MCRequestService ---------------------------
(***************************************************************************)
(* Instance of RequestService: two requests of one client and credential,  *)
(* one of another client and credential, one of a third without a model.   *)
(***************************************************************************)
EXTENDS RequestService, TLC

CONSTANTS r1, r2, r3, r4, k1, k2, k3, c1, c2

MCClient == r1 :> k1 @@ r2 :> k1 @@ r3 :> k2 @@ r4 :> k3
MCCredential == r1 :> c1 @@ r2 :> c1 @@ r3 :> c2 @@ r4 :> NoKey
=============================================================================
