------------------------------- MODULE MCPool -------------------------------
(***************************************************************************)
(* TLC instance of PoolManager: a plain and a TLS pool, and "exit".        *)
(***************************************************************************)
EXTENDS PoolManager

CONSTANTS plain, tls, quit

MCURIs == {plain, tls, quit}
MCSecure == {tls}
MCConfigured == <<plain, tls>>
MCSettings == {[maxRetries |-> 0, failover |-> TRUE, reportHr |-> FALSE],
               [maxRetries |-> 1, failover |-> TRUE, reportHr |-> TRUE]}
=============================================================================
