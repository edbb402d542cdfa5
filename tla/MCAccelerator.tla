--------------------------- MODULE MCAccelerator ---------------------------
(* Accelerators for TLC, one of each class and a decoder without reference *)
(* frames.  As in the code, a frame is a whole number of output chunks, a  *)
(* P-frame splits evenly into tenths, and a chunk of output fits in the    *)
(* buffer more than once.                                                  *)
EXTENDS GemDroidAccelerator

Video == [class |-> "decoder", isVD |-> TRUE, computeLatency |-> 2,
          inBufferSize |-> 3, outBufferSize |-> 5, coding_ratio |-> 2,
          targetOutputChunkSizeInCL |-> 1, frames |-> {5, 10}]

MCAccelerators ==
  {Video,
   [Video EXCEPT !.isVD = FALSE, !.frames = {2, 3}],
   [Video EXCEPT !.class = "encoder", !.isVD = FALSE, !.computeLatency = 4,
                 !.targetOutputChunkSizeInCL = 2, !.frames = {4, 8}],
   [Video EXCEPT !.class = "nocoder", !.isVD = FALSE, !.coding_ratio = 1,
                 !.targetOutputChunkSizeInCL = 2, !.frames = {2, 6}]}
=============================================================================
