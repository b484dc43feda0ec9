---------------------------- MODULE MCFuseCache ----------------------------
(* Instance of FuseCache: an empty file, a short one and a longer one.     *)
EXTENDS FuseCache

CONSTANTS b0, b1, b2    \* byte values

mcByte == {b0, b1, b2}
mcTags == 1..3
mcFile == <<(<<>>), <<b0>>, <<b1, b2>>>>
\* Negative, inside, at the end of and past the end of the files.
mcOffsets == {-1, 0, 1, 3}
mcSizes == {1, 4}
=============================================================================
