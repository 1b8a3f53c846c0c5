-------------------------------- MODULE MCEngine --------------------------------
(***************************************************************************)
(* Instances of the engine for TLC: a handful of frames and opcodes, all   *)
(* the ways of calling, two contexts.                                      *)
(***************************************************************************)
EXTENDS EngineProperties, TLC

MCCalls == CallKinds
MCSizes == {2}
ContextSymmetry == Permutations(Contexts)
DirectCalls == {k \in CallKinds : k.via = "call"}
LoopCalls == {k \in CallKinds : k.via \in {"call", "iter"}}
BuiltinCalls == {k \in CallKinds : k.via \in {"call", "builtin"}}
===============================================================================
