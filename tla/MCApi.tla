-------------------------------- MODULE MCApi --------------------------------
(***************************************************************************)
(* TLC instance of ApiServer.  A client tries one of two plans: every      *)
(* method, with parameters that are right, absent, malformed and out of    *)
(* bounds, one by one in one session; or passwords and one change, also    *)
(* several at once, in two sessions.  The plan limits only what peers do:  *)
(* whether they connect, and what they send when.                          *)
(***************************************************************************)
EXTENDS ApiServer

VARIABLE plan

Req(m, p, v, w) == [form |-> "ok", method |-> m, param |-> p, v |-> v, w |-> w]

MCRequests ==
  {[Req("miner_ping", "ok", -1, -1) EXCEPT !.form = f] :
     f \in {"nojson", "noobject", "noid", "norpc"}}
  \cup {Req("miner_ping", "ok", -1, -1), Req("no_such_method", "ok", -1, -1)}
  \cup {Req("api_authorize", p, v, -1) : p \in {"ok", "missing"}, v \in {0, 1}}
  \cup {Req("miner_shuffle", "ok", 1, -1), Req("miner_restart", "ok", -1, -1),
        Req("miner_reboot", "ok", 0, -1), Req("miner_reboot", "ok", 1, -1)}
  \cup {Req("miner_addconnection", p, v, -1) : p \in {"ok", "badtype"}, v \in {0, 1}}
  \cup {Req("miner_setactiveconnection", "ok", v, -1) : v \in 0..2}
  \cup {Req("miner_setactiveconnection", "ok", -1, w) : w \in 1..2}
  \cup {Req("miner_setactiveconnection", p, -1, -1) : p \in {"noparams", "badtype"}}
  \cup {Req("miner_removeconnection", "ok", v, -1) : v \in 0..2}
  \cup {Req("miner_removeconnection", "missing", -1, -1)}
  \cup {Req("miner_setscramblerinfo", "ok", v, w) : v \in {-2, -1}, w \in {-2, 9, 51}}
  \cup {Req("miner_setscramblerinfo", "ok", 1, w) : w \in {-1, 10, 50}}
  \cup {Req("miner_setscramblerinfo", p, -1, -1) : p \in {"noparams", "badhex", "object", "missing"}}
  \cup {Req("miner_pausegpu", "ok", v, w) : v \in 1..2, w \in 0..1}
  \cup {Req("miner_pausegpu", "missing", -1, -1)}
  \cup {Req("miner_setverbosity", "ok", v, -1) : v \in {LOG_NEXT - 1, LOG_NEXT}}

MCInit == Init /\ plan \in {"methods", "sessions"}

\* Only one peer connects, and it waits for a reply before it sends on.
OnePeer ==
  /\ accepted' => accepting' = 1
  /\ \A i \in Sessions :
       sess'[i].lines > sess[i].lines => sess'[i].lines = 1 /\ sess[i].writes = <<>>

\* No request but passwords and miner_restart, on any port.
FewMethods ==
  /\ mach' \in {mach, [mach EXCEPT !.restart = TRUE]}
  /\ \A i \in Sessions :
       sess'[i].code \in {Answered, WrongPassword, NotAuthorized, MethodNotFound}

MCNext ==
  /\ Next
  /\ plan = "methods" => OnePeer
  /\ plan = "sessions" => FewMethods
  /\ UNCHANGED plan

MCSpec == MCInit /\ [][MCNext]_<<apiVars, plan>> /\ Fairness
=============================================================================
