---------------------------- MODULE MCHTTPServer ----------------------------
(* Small instances of HTTPServer for TLC. *)
EXTENDS HTTPServer

Message(url, body) == [url |-> url, body |-> body]

\* Every endpoint, an unknown one, what the parser rejects, and the bodies
\* that /completions tells apart; /diagnostics reads its own the same way.
AllMessages ==
  {Message(u, "good") : u \in Urls}
    \cup {Message("/completions", b) : b \in {"hollow", "garbage"}}

\* What the integration test posts, and a probe of the server.
GarbageJSON == {Message("/completions", "garbage"), Message("/status", "good")}
=============================================================================
