----------------------------- MODULE LspServers -----------------------------
\* What the manager of the language servers promises its callers about each
\* language: it is off, booting, serving or refused; a boot comes to an end; once
\* closed nothing ever boots again.
CONSTANT Language
VARIABLES phase, closed

vars == <<phase, closed>>

Init == phase = [l \in Language |-> "off"] /\ closed = FALSE

Move(from, to) ==
    /\ ~closed
    /\ \E l \in Language : phase[l] \in from /\ phase' = [phase EXCEPT ![l] = to]
    /\ UNCHANGED closed

\* A caller's wish, when the server is off, or refused and due again.
Boot == Move({"off", "refused"}, "booting")

\* One boot ends, in service or refused.
Serve(l) == ~closed /\ phase[l] = "booting" /\ phase' = [phase EXCEPT ![l] = "serving"] /\ UNCHANGED closed
Refuse(l) == ~closed /\ phase[l] = "booting" /\ phase' = [phase EXCEPT ![l] = "refused"] /\ UNCHANGED closed

\* An idle server is reclaimed.
Retire == Move({"serving"}, "off")

\* A new search clears every refusal.
Rescan ==
    /\ ~closed
    /\ phase' = [l \in Language |-> IF phase[l] = "refused" THEN "off" ELSE phase[l]]
    /\ UNCHANGED closed

Close ==
    /\ ~closed /\ closed' = TRUE
    /\ phase' = [l \in Language |-> "off"]

Next == Boot \/ Retire \/ Rescan \/ Close \/ \E l \in Language : Serve(l) \/ Refuse(l)

Safe == Init /\ [][Next]_vars
BootsEnd == \A l \in Language : WF_vars(Serve(l) \/ Refuse(l))

Spec == Safe /\ BootsEnd
=============================================================================
