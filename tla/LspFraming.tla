----------------------------- MODULE LspFraming -----------------------------
\* The reader of src/src/lsp/framing.ts: messages framed by Content-Length come in
\* chunks cut anywhere.  A byte is a token: a header is its length, or Junk without
\* one; two NL end it, and may be cut between or occur in a body; a body with Bad
\* in it is no JSON.
EXTENDS Naturals, Sequences, SequencesExt

CONSTANTS Bodies,       \* the bodies a server may write
          MaxFrames,    \* bound: frames of the stream
          MaxBody,      \* #maxBodyBytes
          MaxHeader     \* MAX_HEADER_BYTES

VARIABLES frames,       \* what the server writes, fixed at the start
          arrived,      \* bytes that have come
          buffer,       \* #buffer
          out,          \* messages handed to the session
          failed        \* the last push threw

vars == <<frames, arrived, buffer, out, failed>>

NL == 100
Bad == 101
Junk == 102
Terminator == <<NL, NL>>

\* encodeMessage, or a header without a length.
Encoded(f) == (IF f.sized THEN <<Len(f.body)>> ELSE <<Junk>>) \o Terminator \o f.body
Stream == FlattenSeq([i \in 1..Len(frames) |-> Encoded(frames[i])])

Init ==
    /\ frames \in UNION {[1..n -> [sized : BOOLEAN, body : Bodies]] : n \in 1..MaxFrames}
    /\ arrived = 0
    /\ buffer = <<>> /\ out = <<>> /\ failed = FALSE

Starts(b) == {k \in 1..(Len(b) - 1) : SubSeq(b, k, k + 1) = Terminator}
HeaderEnd(b) == CHOOSE k \in Starts(b) : \A j \in Starts(b) : k <= j

\* parseContentLength: of the first token that is a length.
IsLength(tok) == tok < NL
Length(b) == b[1]

\* The loop of push over a buffer: what is complete now, and where it stops.
Partial(b, len) == Len(b) < HeaderEnd(b) + 1 + len
RestDropped(b, next) == <<>>
Rest(b, next) == SubSeq(b, next, Len(b))

RECURSIVE Loop(_, _)
Loop(b, got) ==
    IF Starts(b) = {} THEN [rest |-> b, got |-> got, ok |-> Len(b) <= MaxHeader]
    ELSE IF ~IsLength(b[1]) \/ HeaderEnd(b) = 1 THEN [rest |-> b, got |-> <<>>, ok |-> FALSE]
    ELSE LET len == Length(b)
             next == HeaderEnd(b) + 2 + len IN
        IF len > MaxBody THEN [rest |-> b, got |-> <<>>, ok |-> FALSE]
        ELSE IF Partial(b, len) THEN [rest |-> b, got |-> got, ok |-> TRUE]
        ELSE LET body == SubSeq(b, HeaderEnd(b) + 2, next - 1)
                 rest == Rest(b, next) IN
            IF Bad \in {body[i] : i \in 1..Len(body)}
            THEN [rest |-> rest, got |-> <<>>, ok |-> FALSE]
            ELSE Loop(rest, Append(got, body))

\* A chunk of n bytes arrives.  A throw loses what the same push had collected.
Push(n) ==
    /\ arrived + n <= Len(Stream)
    /\ LET r == Loop(buffer \o SubSeq(Stream, arrived + 1, arrived + n), <<>>) IN
        /\ buffer' = r.rest
        /\ out' = out \o r.got
        /\ failed' = ~r.ok
    /\ arrived' = arrived + n
    /\ UNCHANGED frames

Next == \E n \in 1..Len(Stream) : Push(n)

Spec == Init /\ [][Next]_vars
-----------------------------------------------------------------------------
Good(f) == f.sized /\ Bad \notin {f.body[i] : i \in 1..Len(f.body)} /\ Len(f.body) <= MaxBody
AllGood == \A i \in 1..Len(frames) : Good(frames[i])

\* Where frame i ends in the stream.
End(i) == Len(FlattenSeq([j \in 1..i |-> Encoded(frames[j])]))

\* However the stream is cut, the session has been given exactly the messages
\* that are wholly there, and nothing is held back but the rest of the next.
CutsDoNotMatter ==
    AllGood =>
        LET whole == {i \in 1..Len(frames) : End(i) <= arrived} IN
        /\ out = [i \in 1..Len(out) |-> frames[i].body]
        /\ Len(out) = IF whole = {} THEN 0 ELSE CHOOSE i \in whole : \A j \in whole : j <= i
        /\ ~failed

\* Before the first frame that is not well formed nothing but messages of the
\* server is handed out, in their order.
NoneInvented ==
    \A n \in 1..Len(out) :
        (\A i \in 1..Len(frames) : Good(frames[i]) \/ i > n) =>
            out[n] = frames[n].body
=============================================================================
