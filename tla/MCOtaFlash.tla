------------------------------ MODULE MCOtaFlash ------------------------------
(* The flash on a small instance: two bits in a byte, two pages of eight.  *)
EXTENDS OtaFlash

old == [a \in Addresses |-> IF a % 3 = 0 THEN {1} ELSE IF a % 3 = 1 THEN {2} ELSE {1, 2}]
oldContents == {old}

images == {<<0, 8>>, <<0, 9>>, <<8, 8>>, <<3, 9>>, <<5, 0>>}
areas == {<<0, 0>>, <<0, 11>>, <<3, 4>>, <<6, 9>>, <<9, 3>>}
starts == {0, 1, 3, 6, 10, 15, 17}
blocks == {<<>>, <<{1}>>, <<{1}, {2}, {}>>, <<{2}, {1}, {}, {1}, {2}, {2}>>}

===============================================================================
