----------------------------- MODULE MCChannel -----------------------------
(* Small instances of Channel for TLC.                                     *)
EXTENDS Channel

\* A rendezvous channel and one with a buffer slot, with room for both tasks
\* to wait, and a rendezvous channel with room for one.
MCLimits == {<<0, 2>>, <<1, 2>>, <<0, 1>>}
=============================================================================
