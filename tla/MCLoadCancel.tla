---------------------------- MODULE MCLoadCancel ----------------------------
(* Three loads of one model and one of another. *)
EXTENDS LoadCancel, TLC

CONSTANTS a, b, c, d, m, n

TwoModels == (a :> m) @@ (b :> m) @@ (c :> m) @@ (d :> n)
Interchangeable == Permutations({a, b, c})
=============================================================================
