------------------------------ MODULE MCMirroring ------------------------------
(* Instances of Mirroring: two TLS stacks, one of which reorders and has a   *)
(* platform that is not probed; a browser seen in two orders, an app with a  *)
(* resumption that carries an extension httpcloak does not model.            *)
EXTENDS Mirroring

CONSTANTS cw, ca, fw, fixture

Probed == <<cw, fw>>
HeadsOf == [n \in {cw, ca, fw} |-> IF n = fw THEN "firefox" ELSE "chrome"]
Sent(n) ==
    IF n = fw THEN {[family |-> "firefox", order |-> 3]}
    ELSE {[family |-> "chrome", order |-> o] : o \in {1, 2}}
AllSent == [n \in {cw, ca, fw} |-> Sent(n)]
CurlHello == [family |-> "curl", order |-> 4]
GarbledHello == [family |-> "garbled", order |-> 5]

Fresh(order) == [id |-> "a", psk |-> FALSE, order |-> order, quic |-> FALSE]
App == [id |-> "f", psk |-> FALSE, order |-> 3, quic |-> FALSE]
Resuming == [id |-> "r", psk |-> TRUE, order |-> 3, quic |-> FALSE]

FourHellos == {Fresh(1), Fresh(2), App, Resuming}
TwoClients == {{Fresh(1), Fresh(2)}, {App, Resuming}}
JustResuming == {Resuming}
Family == [i \in {"a", "f", "r"} |-> IF i = "a" THEN "chrome" ELSE "firefox"]

\* The app's preset, exported by an earlier run in which it showed `h2`.
Exported(h2) ==
    [name |-> [id |-> "f", base |-> fw, psk |-> FALSE, permute |-> FALSE],
     doc |-> [hello |-> App, psk_hello |-> NoHello, h2 |-> h2, base |-> fw,
              blunt |-> FALSE, permute |-> FALSE]]

ExportedFile == {Exported(NoPreface)}
=============================================================================
