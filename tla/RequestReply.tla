---------------------------- MODULE RequestReply ----------------------------
(***************************************************************************)
(* What http-hello promises its clients (docs/test-apps.md: "responds with *)
(* "Hello, <client-ip>" to every request"): each request a client makes is *)
(* answered, once, and nothing is answered that was not asked.             *)
(***************************************************************************)
EXTENDS Naturals

CONSTANT Clients

VARIABLES asked, answered    \* per client, how many requests and answers

vars == <<asked, answered>>

Init == asked = [c \in Clients |-> 0] /\ answered = [c \in Clients |-> 0]

Ask(c) ==
  /\ asked[c] = answered[c]
  /\ asked' = [asked EXCEPT ![c] = @ + 1]
  /\ UNCHANGED answered

Answer(c) ==
  /\ answered[c] < asked[c]
  /\ answered' = [answered EXCEPT ![c] = @ + 1]
  /\ UNCHANGED asked

Next == \E c \in Clients : Ask(c) \/ Answer(c)

Spec == Init /\ [][Next]_vars /\ \A c \in Clients : WF_vars(Answer(c))
=============================================================================
