--------------------------- MODULE ClientLifecycle ---------------------------
(***************************************************************************)
(* What PoolManager relies on in a PoolClient (libpoolprotocols/           *)
(* PoolClient.h), whatever the protocol: a client makes one attempt; the   *)
(* attempt comes up at most once; it goes down once, whether it had come   *)
(* up or not; onDisconnected then posts rotateConnect, once, and nothing   *)
(* else brings the client back; rotateConnect replaces it by a new one.    *)
(* The program may also end, by the use of a client that is gone.          *)
(***************************************************************************)
EXTENDS Naturals

VARIABLES
  phase,      \* "trying", "up", "gone" (m_conn was unset) or "ended"
  rotations   \* calls of rotateConnect that are posted

lifecycle == <<phase, rotations>>

Init == phase = "trying" /\ rotations = 0

\* The session is there: the manager starts or resumes the farm.
ComesUp == phase = "trying" /\ phase' = "up" /\ UNCHANGED rotations

\* onDisconnected: the definition is unset and the next choice is posted.
GoesDown ==
  /\ phase \in {"trying", "up"}
  /\ phase' = "gone" /\ rotations' = rotations + 1

\* rotateConnect: a new client, the only call that was posted is used up.
Replaced ==
  /\ phase = "gone" /\ rotations = 1
  /\ phase' = "trying" /\ rotations' = 0

Fails == phase # "ended" /\ phase' = "ended" /\ UNCHANGED rotations

Next == ComesUp \/ GoesDown \/ Replaced \/ Fails

\* What a client may do ...
Safety == Init /\ [][Next]_lifecycle

\* ... and that one that is gone is replaced, unless the program ends.
Spec == Safety /\ WF_lifecycle(Replaced)
=============================================================================
