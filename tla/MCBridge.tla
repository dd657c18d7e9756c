------------------------------- MODULE MCBridge -------------------------------
(* Instances of Bridge: two connections, one of which may be idle, and the  *)
(* few option values each question needs.                                   *)
EXTENDS Bridge, TLC

CONSTANTS c1, c2, f1, f2, h1, x1

OneClient == c1 :> "laptop" @@ c2 :> "laptop"
TwoClients == c1 :> "laptop" @@ c2 :> "phone"

ConnOfFlow == f1 :> c1 @@ f2 :> c2
OneFlow == f1 :> c1
OneHost == f1 :> h1 @@ f2 :> h1
ItsHost == f1 :> h1
NoFactory == h1 :> {}
SuppliedForHost == h1 :> {x1}

\* A client's fresh hello in two orders, its resumption, and its QUIC hello.
Fresh(order) == [id |-> "a", psk |-> FALSE, order |-> order, quic |-> FALSE]
Resuming == [id |-> "r", psk |-> TRUE, order |-> 1, quic |-> FALSE]
Quic == [id |-> "q", psk |-> FALSE, order |-> 1, quic |-> TRUE]

Nothing == [c \in {c1, c2} |-> {}]
FreshOnly == {Fresh(1)}
SaysFresh == [c \in {c1, c2} |-> FreshOnly]
TwoOrders == {Fresh(1), Fresh(2)}
SaysAnOrderEach == c1 :> {Fresh(1)} @@ c2 :> {Fresh(2)}
Three == {Fresh(1), Resuming, Quic}
SaysResumption == c1 :> {Fresh(1), Resuming} @@ c2 :> {Quic}

\* What an earlier run exported for the fresh hello.
ExportedFile ==
    {[name |-> [id |-> "a", base |-> "chrome", psk |-> FALSE, permute |-> FALSE],
      doc |-> [hello |-> Fresh(1), psk_hello |-> NoHello, h2 |-> NoPreface,
               base |-> "chrome", blunt |-> FALSE, permute |-> FALSE]]}

Defaults ==
    [mode |-> {"auto"}, preset |-> {"chrome"}, http_version |-> {"auto"},
     session_scope |-> {"origin"}, transport |-> {"direct"}]
Pooling ==
    [Defaults EXCEPT !.http_version = {"auto", "h2"},
                     !.session_scope = {"origin", "client", "connection"}]
JustMirror == [Defaults EXCEPT !.mode = {"mirror"}]
EitherVersion == [Defaults EXCEPT !.http_version = {"auto", "h3"}]

\* An httpcloak that replays, one that does not, and one that cannot be asked.
Sound == {[replays |-> TRUE, fixture |-> TRUE]}
AnyInstall ==
    Sound \cup {[replays |-> FALSE, fixture |-> TRUE], [replays |-> FALSE, fixture |-> FALSE]}

Symmetry == Permutations(Owned)
===============================================================================
