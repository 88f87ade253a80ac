---------------------------- MODULE MCHandleUse -----------------------------
(* Two blocks of three items: the free list is emptied, extended, emptied  *)
(* again and reordered by frees; exhaustion is reached.                    *)
EXTENDS HandleUse
=============================================================================
