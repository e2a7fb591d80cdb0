------------------------------- MODULE MCStream -------------------------------
(* A small pool with every counter, stride and mask splitmix64 may yield; of a mask only
   the bits the width uses matter. *)
EXTENDS StreamCycle

AllSeeds == Words \X Words \X Words \X Words \X (0..(Pow2[Width - WordBits] - 1)) \X Words
=============================================================================
