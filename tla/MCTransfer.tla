----------------------------- MODULE MCTransfer -----------------------------
(* Files of up to five segments around every boundary of the last segment,  *)
(* and files whose size does not fit in its field.  All sizes are real but  *)
(* ListedWhole, which is small enough for the list of segments to be cut.   *)
EXTENDS Transfer

MCFileSizes ==
  {0, 1, 15, 16, 17, 28, 29, 30, 31, 32, 33, 47, 48, 63, 64, 80, 92, 93, 96, 112, 127, 144,
   65535 + 1, 65535 + 2, 65535 + 33, 65535 + 49, 65535 + 94}
=============================================================================
