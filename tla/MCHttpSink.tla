------------------------------ MODULE MCHttpSink ------------------------------
(* Small instances of HttpSink for TLC. *)
EXTENDS HttpSink, TLC

CONSTANTS w1, w2

WriterSymmetry == Permutations(Writers)
=============================================================================
