----------------------------- MODULE HugePages -----------------------------
(***************************************************************************)
(* The unit of DMA memory.                                                 *)
(***************************************************************************)
EXTENDS Integers

CONSTANTS HUGE,     \* the size of a huge page, 2 MB
          NULL

\* round up to multiples of 2 MB if necessary
RoundUp(size) == IF size % HUGE # 0 THEN ((size \div HUGE) + 1) * HUGE ELSE size
=============================================================================
