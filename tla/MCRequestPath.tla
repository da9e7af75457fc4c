--------------------------- MODULE MCRequestPath ---------------------------
EXTENDS RequestPath

\* Two students behind the tunnel, the first of them on two machines of one /64,
\* and someone who reaches uvicorn directly with an address of it in his header.
Nginx == << "nginx", 1 >>

MCRequests == {"message", "goal", "again", "others", "forged", "preview", "reply"}

MCKind == [r \in Requests |-> CASE r = "message" -> "tutor" [] r \in {"preview", "reply"} -> "ask"
                          [] OTHER -> "create"]

MCPeer == [r \in Requests |-> IF r = "forged" THEN << "stranger", 1 >> ELSE Nginx]

MCForwarded ==
    [r \in Requests |-> CASE r = "others" -> << "bruno", 1 >> [] r = "forged" -> << "ana", 3 >>
                          [] r \in {"again", "reply"} -> << "ana", 2 >> [] OTHER -> << "ana", 1 >>]

MCProxies == {Nginx}

\* Forty-two seconds and a half of one attempt, twenty-nine and a half of a wait.
MCSpans == {85}

MCPoolWaits == {59}
=============================================================================
