------------------------------ MODULE MCVolume ------------------------------
(* A 13-byte image: partition 0 of 2 pages and a spare byte in its middle,  *)
(* partition 1 reaching past the end of the image, partition 2 empty.       *)
EXTENDS Volume

mcLetters == -1..4

mcLabel == [magic |-> TRUE, secsize |-> 0, nparts |-> 3,
            parts |-> [i \in 0..3 |->
              CASE i = 0 -> [p_offset |-> 1, p_size |-> 7]
                [] i = 1 -> [p_offset |-> 8, p_size |-> 9]
                [] i = 2 -> [p_offset |-> 2, p_size |-> 0]
                [] i = 3 -> [p_offset |-> 0, p_size |-> 5]]]
=============================================================================
