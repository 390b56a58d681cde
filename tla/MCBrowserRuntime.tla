---------------------------- MODULE MCBrowserRuntime ----------------------------
(* A small instance of BrowserRuntime for TLC. *)
EXTENDS BrowserRuntimeProps, TLC

CONSTANTS a1, a2, w1, w2

Interchangeable == Permutations({w1, w2}) \cup Permutations({a1, a2})

=============================================================================
