------------------------------ MODULE MCSession ------------------------------
(* Instances of StratumSession for TLC: the lines of each flavour.          *)
EXTENDS StratumSession

NoEx == [v |-> 0, n |-> 0, text |-> "none"]
\* "a"; "az", of which stoul reads "a"; "z".
Ex == [v |-> 10, n |-> 1, text |-> "digits"]
ExPart == [v |-> 10, n |-> 2, text |-> "part"]
ExNone == [v |-> 0, n |-> 1, text |-> "none"]
Msg(k) == [kind |-> k, job |-> 1, text |-> "ok", seed |-> 0, block |-> 1,
           boundary |-> -1, epoch |-> -1, ex |-> NoEx, ok |-> TRUE, result |-> ""]

Common ==
  {Msg("bye"), Msg("unknown"), Msg("999")}
  \cup {[Msg("authorized") EXCEPT !.ok = b] : b \in BOOLEAN}
  \cup {[Msg("share") EXCEPT !.result = r] : r \in {"true", "stale"}}

Notifications(blocks, seeds) ==
  {[Msg("notify") EXCEPT !.job = j, !.text = t, !.block = b, !.seed = s, !.boundary = 1] :
     j \in 1..2, t \in {"ok", "badblock", "badhash"}, b \in blocks, s \in seeds}

MCMessages(m) ==
  Common \cup
  CASE m = ETHEREUMSTRATUM2 ->
         Notifications({1}, {0})
         \cup {[Msg("set") EXCEPT !.ex = e, !.epoch = n] : n \in {-1, 1}, e \in {NoEx, Ex}}
         \cup {[Msg("set") EXCEPT !.ex = ExPart, !.epoch = 1, !.text = t] :
                 t \in {"ok", "badepoch", "badhash"}}
    [] m = ETHEREUMSTRATUM ->
         Notifications({1}, {1})
         \cup {[Msg("set_extranonce") EXCEPT !.ex = e] : e \in {NoEx, Ex, ExPart, ExNone}}
         \cup {[Msg("set_difficulty") EXCEPT !.boundary = 1]}
    [] OTHER ->
         Notifications({1, TooHigh}, {1, 2})
         \cup {[Msg("work") EXCEPT !.seed = 1, !.boundary = 1]}
=============================================================================
