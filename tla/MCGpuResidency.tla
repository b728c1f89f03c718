--------------------------- MODULE MCGpuResidency ---------------------------
(***************************************************************************)
(* Instances of GpuResidency: MLX models a and b, llama.cpp models x and y *)
(* sharing one card.                                                       *)
(***************************************************************************)
EXTENDS GpuResidency, TLC
CONSTANTS a, b, x, y

TwoProviders == (a :> "mlx") @@ (b :> "mlx") @@ (x :> "llamacpp") @@ (y :> "llamacpp")
OneCard == (a :> {1}) @@ (b :> {1}) @@ (x :> {1}) @@ (y :> {1})
=============================================================================
