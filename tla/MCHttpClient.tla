---------------------------- MODULE MCHttpClient ----------------------------
(* Requests to a host under TLS and in the clear, and to another host, each with *)
(* a sensitive header and a custom one.                                          *)
EXTENDS HttpClient

TwoHosts == {[tls |-> TRUE, host |-> "feed"], [tls |-> FALSE, host |-> "feed"],
             [tls |-> TRUE, host |-> "cdn"]}

AllHeaders == [r \in Requests |-> Headers]
=============================================================================
