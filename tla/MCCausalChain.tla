-------------------------- MODULE MCCausalChain --------------------------
(* One process, which may start a second thread.                           *)
EXTENDS CausalChain

MCTask == {<<1, 1>>, <<1, 2>>}
MCBoot == {<<1, 1>>}
=============================================================================
