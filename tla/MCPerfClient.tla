---------------------------- MODULE MCPerfClient ----------------------------
(* Small setups of the performance client for TLC; it also evaluates the     *)
(* assumptions of the modules on the data of requests and measurements.      *)
EXTENDS PerfClient, ClientRequests, PerfMeasure, Endpoints

Setup(transport, sequence, threads, first, last) ==
  [transport |-> transport, sequence |-> sequence, threads |-> threads,
   first |-> first, last |-> last]

MCSetups ==
  {Setup("http", FALSE, 1, 1, 2), Setup("grpc", FALSE, 1, 1, 2),
   Setup("stream", FALSE, 1, 2, 3), Setup("stream", TRUE, 1, 1, 1),
   Setup("http", FALSE, 2, 1, 2), Setup("grpc", FALSE, 2, 3, 3)}

MCLengths == {1, 2}
=============================================================================
