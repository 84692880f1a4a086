--------------------------- MODULE MCRedisSessions ---------------------------
(***************************************************************************)
(* Instance of RedisSessions: three requests of one session and one of     *)
(* another, served by workers of two data sets.                            *)
(***************************************************************************)
EXTENDS RedisSessions, TLC

CONSTANTS r1, r2, r3, r4, s1, s2

MCSession == r1 :> s1 @@ r2 :> s1 @@ r3 :> s1 @@ r4 :> s2
MCDataset == r1 :> "old" @@ r2 :> "new" @@ r3 :> "new" @@ r4 :> "new"
=============================================================================
