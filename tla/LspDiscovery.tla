---------------------------- MODULE LspDiscovery ----------------------------
\* The search for language servers: src/src/lsp/discovery.ts.  It asks the disk
\* about one place at a time, so servers may be installed while it runs.
EXTENDS Naturals, Sequences, FiniteSets, SequencesExt

CONSTANTS Place,        \* directories searched, in order: project, installed, PATH
          Installable,  \* pairs of a command and a place it may appear in
          Config        \* languages for which the settings may name a server

\* KNOWN_SERVERS: each command and the languages it serves.
KnownServers == <<
    [command |-> "typescript-language-server", languages |-> {"typescript", "tsx", "javascript"}],
    [command |-> "pyright-langserver", languages |-> {"python"}],
    [command |-> "gopls", languages |-> {"go"}],
    [command |-> "rust-analyzer", languages |-> {"rust"}],
    [command |-> "clangd", languages |-> {"c", "cpp"}],
    [command |-> "jdtls", languages |-> {"java"}],
    [command |-> "csharp-ls", languages |-> {"c-sharp"}],
    [command |-> "intelephense", languages |-> {"php"}],
    [command |-> "metals", languages |-> {"scala"}],
    [command |-> "bash-language-server", languages |-> {"bash"}],
    [command |-> "haskell-language-server-wrapper", languages |-> {"haskell"}],
    [command |-> "ocamllsp", languages |-> {"ocaml"}],
    [command |-> "solargraph", languages |-> {"ruby"}],
    [command |-> "elixir-ls", languages |-> {"elixir"}],
    [command |-> "svelteserver", languages |-> {"svelte"}]>>

VARIABLES disk,         \* pairs of a command and a place where it is executable
          atStart,      \* the disk when the search began
          configured,   \* the languages the settings name a working server for
          server, place,    \* where the search stands
          out           \* the servers found so far

vars == <<disk, atStart, configured, server, place, out>>

Init ==
    /\ disk \in SUBSET Installable
    /\ atStart = disk
    /\ configured \in SUBSET Config
    /\ server = 1 /\ place = 1
    /\ out = IF configured = {} THEN <<>>
             ELSE <<[command |-> "configured", languages |-> configured, place |-> "configured"]>>

Searching == server <= Len(KnownServers)
Known == KnownServers[server]

\* A server is skipped when the settings cover one of its languages.
Covered(k) == k.languages \cap configured # {}
Skip ==
    /\ Searching /\ Covered(Known)
    /\ server' = server + 1 /\ place' = 1
    /\ UNCHANGED <<disk, atStart, configured, out>>

AtReversed(n) == Place[Len(Place) + 1 - n]
At(n) == Place[n]
More(n) == n < Len(Place)

\* One executable is looked for in one place; the first hit wins.
Look ==
    /\ Searching /\ ~Covered(Known)
    /\ IF <<Known.command, At(place)>> \in disk
       THEN /\ out' = Append(out, [command |-> Known.command, languages |-> Known.languages,
                                   place |-> At(place)])
            /\ server' = server + 1 /\ place' = 1
       ELSE /\ IF More(place) THEN place' = place + 1 /\ UNCHANGED server
                                     ELSE server' = server + 1 /\ place' = 1
            /\ UNCHANGED out
    /\ UNCHANGED <<disk, atStart, configured>>

\* The user installs one meanwhile.
Install ==
    /\ Searching
    /\ \E i \in Installable \ disk : disk' = disk \cup {i}
    /\ UNCHANGED <<atStart, configured, server, place, out>>

Next == Skip \/ Look \/ Install

Spec == Init /\ [][Next]_vars

\* serverForLanguage.
Serving(l) ==
    LET fit == {i \in 1..Len(out) : l \in out[i].languages} IN
    IF fit = {} THEN <<>> ELSE <<out[CHOOSE i \in fit : \A j \in fit : i <= j]>>
-----------------------------------------------------------------------------
Languages == UNION {KnownServers[i].languages : i \in 1..Len(KnownServers)}
PlaceRank(p) == CHOOSE i \in 1..Len(Place) : Place[i] = p

\* Nothing is missed and nothing is made up: a server that was there when the search
\* began, of whose languages the settings cover none, is found, and what is found was
\* there or was installed since.  The result as a whole need not be the disk of any
\* one moment: of two servers installed meanwhile it may hold the later one alone.
NothingMissed ==
    ~Searching =>
        LET found == {out[i].command : i \in 1..Len(out)} \ {"configured"} IN
        /\ found \subseteq {i[1] : i \in disk}
        /\ \A k \in 1..Len(KnownServers) :
            /\ KnownServers[k].languages \cap configured = {}
            /\ KnownServers[k].command \in {i[1] : i \in atStart}
            => KnownServers[k].command \in found

\* "A project bin beats a global one", and one the plugin installed beats PATH: no
\* place that ranks before the one chosen held the server when the search began, and
\* the settings beat every place.
FirstHitWins ==
    \A l \in Languages : Serving(l) # <<>> =>
        LET s == Serving(l)[1] IN
        IF l \in configured THEN s.command = "configured"
        ELSE \A i \in atStart : i[1] = s.command => PlaceRank(s.place) <= PlaceRank(i[2])
=============================================================================
