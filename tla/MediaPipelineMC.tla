--------------------------- MODULE MediaPipelineMC ---------------------------
(***************************************************************************)
(* MediaPipeline for TLC: three voice packets for a channel of one place   *)
(* and a callback that may hang; a packet of another kind beside one of    *)
(* voice; an event; one outgoing message of each way.                      *)
(***************************************************************************)
EXTENDS MediaPipeline

CONSTANTS v1, v2, x, o

MCPackets == {v1, v2, x}

Load(in1, in2, in3, outgoing, early) ==
    [in |-> [p \in MCPackets |-> CASE p = v1 -> in1 [] p = v2 -> in2 [] p = x -> in3],
     out |-> [q \in {o} |-> outgoing],
     handler |-> early]

MCLoads ==
    {Load("voice", "voice", "voice", "none", TRUE)}
        \cup {Load("voice", "none", other, "none", TRUE) :
                other \in {"webcam", "screen", "chat", "unknown"}}
        \cup {Load("none", "none", "event", "none", early) : early \in BOOLEAN}
        \cup {Load("none", "none", "none", outgoing, TRUE) :
                outgoing \in {"event", "datagram", "stream"}}
=============================================================================
