---------------------------- MODULE MCDeployment ----------------------------
(* Instances of Deployment for TLC: the two-region pipeline of MCDfxMng.    *)
EXTENDS Deployment, MCDfxMng

(* The result goes to the last block of the address space.                 *)
PipelinedToTop == {[Pipelined EXCEPT ![2].des_addr = AddrMod - 1]}
=============================================================================
