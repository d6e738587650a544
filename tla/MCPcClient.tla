---- MODULE MCPcClient ----
(* HTTP tasks that reconnect, at any time of main's connect and shutdown. *)
EXTENDS PcClient

CONSTANTS h1, h2

MCTasks == {h1, h2}
====
