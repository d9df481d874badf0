----------------------------- MODULE MCRuntime -----------------------------
(* The agent with a late daemon, and the agent beside a second caller of    *)
(* create and start, as in tests/docker_runtime.rs.                         *)
EXTENDS ContainerRuntime
=============================================================================
