---------------------------- MODULE MCHttpHello ----------------------------
(* Two clients, with addresses of one, two and three digits and responses  *)
(* of even and odd length, whose sequence numbers wrap around.             *)
EXTENDS HttpHello

CONSTANTS c1, c2, NULL

MCClients == {c1, c2}
MCip   == [c \in MCClients |-> IF c = c1 THEN <<10, 0, 2, 2>>
                               ELSE <<192, 168, 255, 101>>]
MCport == [c \in MCClients |-> IF c = c1 THEN 40000 ELSE 255]
MCrequests == [c \in MCClients |-> IF c = c1 THEN 2 ELSE 1]
MCSeqMod == 2^16
MCiss  == [c \in MCClients |-> IF c = c1 THEN 2^16 - 2 ELSE 2^16 - 6]
MCFirstIsn == {2^16 - 1}

(* One frame for each of the loop's early exits. *)
MCNoise ==
  LET syn == [Tcp(NULL, 0, 0, {"SYN"}, 0) EXCEPT !.length = 60]
  IN  {[syn EXCEPT !.length = 53], [syn EXCEPT !.protocol = 17],
       [syn EXCEPT !.dst_port = 8080], [syn EXCEPT !.type = "other"],
       Arp(NULL, "reply")}
=============================================================================
