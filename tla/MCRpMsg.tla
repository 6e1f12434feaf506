------------------------------ MODULE MCRpMsg ------------------------------
(***************************************************************************)
(* RPMsg with a queue of two, for model checking.                          *)
(***************************************************************************)
EXTENDS RpMsg, TLC

MCBuffers == 0 .. 1
MCFirstPool == <<0, 1>>

\* Contexts, addresses and endpoint structures are interchangeable; nothing
\* in the model or its safety properties distinguishes one from another.
Symmetry == Permutations(Sender) \cup Permutations(Addr) \cup Permutations(Ctx)
=============================================================================
