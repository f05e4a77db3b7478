----------------------------- MODULE BexSession -----------------------------
(***************************************************************************)
(* What the base exchange promises an initiator I and its responder R,     *)
(* seen from above the packets: I commits to one session (the keying       *)
(* material it derives from the puzzle it solved) and keeps it; each host  *)
(* that holds an established association holds that session; a host       *)
(* leaves its association only as a whole.  HipBex is shown to implement  *)
(* it (HipBex!BexRefinesSession) for one initiator whose daemon keeps      *)
(* running.                                                                *)
(***************************************************************************)
CONSTANTS
    I, R,     \* the initiator and the responder
    Keys,     \* the sessions (keying material) there can be
    NoKeys    \* no session

ASSUME NoKeys \notin Keys

VARIABLES
    sess,     \* the session I has committed to, or NoKeys
    est       \* est[h]: the session h's established association holds, or NoKeys

Ends == {I, R}

Init == sess = NoKeys /\ est = [h \in Ends |-> NoKeys]

\* I commits to a session, once.
Commit ==
    /\ sess = NoKeys
    /\ \E k \in Keys : sess' = k
    /\ UNCHANGED est

\* Host h establishes the committed session.
Establish(h) ==
    /\ sess # NoKeys
    /\ est' = [est EXCEPT ![h] = sess]
    /\ UNCHANGED sess

\* Host h loses its association.
Drop(h) ==
    /\ est[h] # NoKeys
    /\ est' = [est EXCEPT ![h] = NoKeys]
    /\ UNCHANGED sess

Next == Commit \/ \E h \in Ends : Establish(h) \/ Drop(h)

Spec == Init /\ [][Next]_<<sess, est>>

\* The liveness BexSession promises: I eventually commits to a session, and
\* each host that does not hold the committed session eventually
\* establishes it, unless it keeps dropping its association.
LiveSpec ==
    /\ Spec
    /\ WF_<<sess, est>>(Commit)
    /\ \A h \in Ends : WF_<<sess, est>>(Establish(h))

=============================================================================
