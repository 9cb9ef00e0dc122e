---------------------------- MODULE MCEventLoop ----------------------------
(* Events of which one passes the filters and one does not.                *)
EXTENDS EventLoop

MCFlow == [duration_ns : {20}, src_port : {443}, dst_port : {1}, retransmit_count : {0, 1},
           chain_id : {2, 3}]
MCPorts == {443}
=============================================================================
