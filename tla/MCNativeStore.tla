----------------------------- MODULE MCNativeStore -----------------------------
(* An instance of NativeStore: two goroutines use the store at once.          *)
EXTENDS NativeStoreInvariant

CONSTANTS c1, c2, s1, s2

MCCallers == {c1, c2}
MCValues == {s1, s2}
=============================================================================
