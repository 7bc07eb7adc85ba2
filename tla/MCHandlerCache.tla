--------------------------- MODULE MCHandlerCache ---------------------------
(* HandlerCache on small sets; readers are interchangeable. *)
EXTENDS HandlerCache, TLC

ReaderSymmetry == Permutations(Reader)
=============================================================================
