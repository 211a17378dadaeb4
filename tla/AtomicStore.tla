---------------------------- MODULE AtomicStore ----------------------------
\* What src/src/domain/session/hash-store.ts promises of withStore and
\* withStoreAsync: the writes of a call commit together or not at all, and the
\* caller is told which.
CONSTANTS Call, Part        \* a call writes every part once

VARIABLES store,            \* the committed writes
          answer            \* per call: none, ok, failed or lost

vars == <<store, answer>>

WritesOf(c) == {c} \X Part

Init ==
    /\ store = {}
    /\ answer = [c \in Call |-> "none"]

Commit(c) ==
    /\ answer[c] = "none"
    /\ store' = store \cup WritesOf(c)
    /\ answer' = [answer EXCEPT ![c] = "ok"]

Refuse(c) ==
    /\ answer[c] = "none"
    /\ answer' = [answer EXCEPT ![c] = "failed"]
    /\ UNCHANGED store

\* A process dies with its calls.
Die(C) ==
    /\ \A c \in C : answer[c] = "none"
    /\ answer' = [c \in Call |-> IF c \in C THEN "lost" ELSE answer[c]]
    /\ UNCHANGED store

Next ==
    \/ \E c \in Call : Commit(c) \/ Refuse(c)
    \/ \E C \in SUBSET Call : Die(C)

Spec == Init /\ [][Next]_vars
=============================================================================
