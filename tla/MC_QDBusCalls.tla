---------------------------- MODULE MC_QDBusCalls ----------------------------
(* A call of one of two proxies, whose reply, timeout and cancellation race*)
(* with a signal both may hear and with an invocation.  A proxy addresses  *)
(* the service by its well-known name, by the unique name of another one,  *)
(* or, without an interface, only listens.                                 *)
EXTENDS QDBusCalls, TLC

CONSTANTS c1, p1, p2, i1

Listening == [service |-> "org.service", path |-> "/obj", interface |-> ""]
Calling   == [Listening EXCEPT !.interface = "org.Iface"]
Elsewhere == [Calling EXCEPT !.service = ":1.9"]

MCReceiver   == c1 :> p1
MCAim        == {Listening, Calling, Elsewhere}
MCUniqueName == {":1.7", ":1.9"}
MCSignal     == {[sender |-> ":1.7", path |-> "/obj", interface |-> "org.Iface"]}
MCTarget     == i1 :> "/"

=============================================================================
