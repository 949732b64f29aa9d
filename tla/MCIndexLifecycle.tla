--------------------------- MODULE MCIndexLifecycle ---------------------------
(* Instances of IndexLifecycle for TLC: a fixed and a variable column. *)
EXTENDS IndexLifecycle

TwoColumns == <<1, 0>>
ShortAndLong == {<<1, 0>>, <<1, 1>>}
=============================================================================
