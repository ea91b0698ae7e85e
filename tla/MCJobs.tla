------------------------------- MODULE MCJobs -------------------------------
(* Small instances of Jobs for TLC.                                        *)
EXTENDS Jobs, TLC

CONSTANTS b1, b2, w1, w2, h1, h2, r1

Credentials == (h1 :> 4 @@ h2 :> 2)
OneCredential == h1 :> 4
=============================================================================
