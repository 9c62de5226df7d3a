------------------------- MODULE MCAsyncHostTransfer -------------------------
(* A small instance of AsyncHostTransfer: buffers of two chunks can be     *)
(* written in either order, twice, with other bytes, or in part.           *)
EXTENDS AsyncHostTransfer

CONSTANTS i1, i2, x1, x2, v1
=============================================================================
