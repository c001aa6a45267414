---------------------------- MODULE MCTaskStorage ----------------------------
(* Small instances of TaskStorage for TLC.                                 *)
EXTENDS TaskStorage

MCWorkloads == {<<4, 0>>, <<1, 1>>, <<0, 2>>}

MCAccepts == {{id \in 1..MaxId : id % 2 = parity} : parity \in {0, 1}}
=============================================================================
