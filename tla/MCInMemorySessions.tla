-------------------------- MODULE MCInMemorySessions --------------------------
(***************************************************************************)
(* Instance of InMemorySessions: two requests of one session, and one      *)
(* request each of two others.                                             *)
(***************************************************************************)
EXTENDS InMemorySessions, TLC

CONSTANTS r1, r2, r3, r4, s1, s2, s3

MCSession == r1 :> s1 @@ r2 :> s1 @@ r3 :> s2 @@ r4 :> s3
=============================================================================
