------------------------------- MODULE MCEvt -------------------------------
(* Small systems of client components for Evt. *)
EXTENDS Evt, TLC

CONSTANTS t1, t2, app, net

\* One thread in each of two components.
Homes == [t \in Threads |-> IF t = t2 THEN net ELSE app]

\* A component that owns events, and one that only triggers them, as the
\* network stack and the timed blocking component do for their clients.
Owner == [s \in Spds |-> IF s = net THEN {"trigger"}
                         ELSE {"split", "wait", "trigger", "free"}]
=============================================================================
