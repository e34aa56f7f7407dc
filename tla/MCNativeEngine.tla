--------------------------- MODULE MCNativeEngine ---------------------------
(* NativeEngine for TLC: two models that share a directory, one of them    *)
(* with a prefix table in a directory of its own.                          *)
EXTENDS NativeEngine, TLC

CONSTANTS m1, m2, d1, d2

SharedDirectory == (m1 :> {d1}) @@ (m2 :> {d1, d2})
=============================================================================
