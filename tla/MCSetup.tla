-------------------------------- MODULE MCSetup --------------------------------
(* Instances of Setup: a user without a config, one with a script and the   *)
(* eager strategy, one who set the mode by hand.                            *)
EXTENDS Setup

CONSTANTS path, s1, r1, f1, d1

Configs ==
    {Empty, [scripts |-> <<s1>>, mode |-> Unset, strategy |-> "eager"],
     [scripts |-> <<>>, mode |-> "mirror", strategy |-> "lazy"]}

Regular == [upstream |-> Unset]
Chained == [upstream |-> [host |-> "x", scheme |-> Unset]]
Explicit == [host |-> "y", scheme |-> "socks5"]
SomeListeners == {<<Regular>>, <<Chained>>, <<Regular, Chained>>}
SomeProxies == {Unset, Explicit}

Sets ==
    {{"rule", "bypass", "preset_file", "max_sessions", "export_dir", "catalogue_dir"},
     {"bypass", "max_sessions"}, {"strategy"}, {"listeners", "proxy"}}
=============================================================================
