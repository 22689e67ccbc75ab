---------------------------- MODULE HTTPExchange ----------------------------
(***************************************************************************)
(* What the HTTP server promises a client, whatever threads, queues and    *)
(* timers serve it: on each connection the responses come in the order of  *)
(* the requests, none is left out, and each is the response of the         *)
(* endpoint its own request named.                                         *)
(*                                                                         *)
(* It does not promise that a response comes once, nor that its body is    *)
(* the endpoint's: the latest response may come again, and the last copy   *)
(* of it may have a body of other bytes ("torn"), end too early ("cut")    *)
(* or, if it is a repeated one, have a body of another length than its     *)
(* header says ("misframed").                                              *)
(***************************************************************************)
EXTENDS Naturals, Sequences

CONSTANTS Connections,  \* client connections
          Messages      \* what a client may send

VARIABLES asked,  \* per connection, the requests sent, oldest first
          answer  \* per connection, the latest response received: to which
                  \* request, which copy of it, its status and its body

\* The response to a request, by the name of its endpoint.
Response(m) ==
  CASE m.url = "/status" -> [status |-> 200, body |-> "empty"]
    [] m.url = "/shutdown" -> [status |-> 200, body |-> "empty"]
    [] m.url = "/slow_test" -> [status |-> 200, body |-> "Hello World"]
    [] m.url = "/completions" -> [status |-> 200, body |-> "candidates"]
    [] m.url = "/diagnostics" -> [status |-> 200, body |-> "diagnostics"]
    [] OTHER -> [status |-> 404, body |-> "not found"]

Init ==
  /\ asked = [c \in Connections |-> <<>>]
  /\ answer = [c \in Connections |->
                 [to |-> 0, copy |-> 0, status |-> 0, body |-> "none"]]

Ask(c, m) ==
  /\ asked' = [asked EXCEPT ![c] = Append(@, m)]
  /\ UNCHANGED answer

\* Copy k of the response to request n, with that response's status.
Receive(c, n, k, body) ==
  /\ answer' = [answer EXCEPT ![c] =
                  [to |-> n, copy |-> k, body |-> body,
                   status |-> Response(asked[c][n]).status]]
  /\ UNCHANGED asked

\* The response to the next request.
Answer(c) ==
  LET n == answer[c].to + 1 IN
  /\ n <= Len(asked[c])
  /\ \E body \in {Response(asked[c][n]).body, "torn", "cut"} :
       Receive(c, n, 1, body)

\* The latest response once more, if it was not spoilt.
Repeat(c) ==
  LET n == answer[c].to IN
  /\ n > 0
  /\ answer[c].body = Response(asked[c][n]).body
  /\ \E body \in {Response(asked[c][n]).body, "torn", "cut", "misframed"} :
       Receive(c, n, answer[c].copy + 1, body)

Next ==
  \E c \in Connections :
    Answer(c) \/ Repeat(c) \/ \E m \in Messages : Ask(c, m)

Spec == Init /\ [][Next]_<<asked, answer>>
=============================================================================
