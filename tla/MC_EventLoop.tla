---------------------------- MODULE MC_EventLoop ----------------------------
(* Model-checking instance of EventLoop: two foreign threads and three     *)
(* functors, enough for a push to land between the loop's swap and its    *)
(* next poll, for two producers to interleave, and for a functor to queue  *)
(* another one from inside dePendingFunctors().                            *)
EXTENDS EventLoop

CONSTANTS f1, f2, lt

MCForeign == {f1, f2}
=============================================================================
