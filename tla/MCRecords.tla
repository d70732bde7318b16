------------------------------ MODULE MCRecords ------------------------------
(***************************************************************************)
(* Instances of Records for TLC.                                           *)
(***************************************************************************)
EXTENDS Records, TLC

CONSTANTS r1, r2, u

\* Two of a kind where they race for something, else one beside the other.
MCErrands ==
    {r1 :> "register" @@ r2 :> "register", r1 :> "register" @@ r2 :> "login",
     r1 :> "register" @@ r2 :> "reset", r1 :> "stats" @@ r2 :> "reset",
     r1 :> "reset" @@ r2 :> "reset"}
=============================================================================
