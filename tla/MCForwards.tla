---------------------------- MODULE MCForwards -----------------------------
(* Small instances of Forwards. *)
EXTENDS Forwards

CONSTANTS api, wrk, http, db, e1, e2

\* A service and a worker that declare the same forward.
MCService == [u \in Ups |-> IF u = wrk THEN "worker" ELSE "api"]
MCLocalPort == [u \in Ups |-> IF u = wrk THEN Nobody ELSE http]
MCWants == [u \in Ups |-> <<db>>]
=============================================================================
