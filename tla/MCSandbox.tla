------------------------------- MODULE MCSandbox -------------------------------
(* A small instance of Sandbox: two programs that share the semaphore. *)
EXTENDS Sandbox

CONSTANTS x1, x2
================================================================================
