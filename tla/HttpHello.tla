----------------------------- MODULE HttpHello -----------------------------
(***************************************************************************)
(* The HTTP server of apps/http-hello/http_hello.c.  It keeps no           *)
(* connections: each frame is answered from the frame alone, with the      *)
(* client's own acknowledgement as sequence number; the only state is the  *)
(* counter of initial sequence numbers.                                    *)
(*                                                                         *)
(* Its peers are ordinary TCP clients (external), each of which looks the  *)
(* server up by ARP, connects, makes its requests one after the other and  *)
(* closes, with the close possibly on the segment of the last request.     *)
(* The network, and the transmit calls whose result the server ignores,    *)
(* lose, repeat and reorder frames.                                        *)
(***************************************************************************)
EXTENDS Codec, FiniteSets

CONSTANTS
  Clients,
  ip,            \* per client, the four bytes of its address
  port,          \* per client, its TCP port
  iss,           \* per client, its initial sequence number
  SeqSpace,      \* 2^32: the range of sequence numbers
  FirstIsn,      \* values isn_counter may have when a client connects
  ReqLen,        \* bytes of a request
  requests,      \* per client, how many requests it makes
  MaxTrouble,    \* bound on open connections plus faults: frames lost,
                 \* repeated, or sent again too early
  Noise          \* frames that are not for the server

ASSUME HttpAssumption ==
  /\ ip \in [Clients -> [1 .. 4 -> Byte]]
  /\ port \in [Clients -> Word]
  /\ requests \in [Clients -> Nat]
  /\ SeqSpace \in Nat /\ FirstIsn \subseteq 0 .. SeqSpace - 1
  /\ iss \in [Clients -> 0 .. SeqSpace - 1]
  \* No connection uses up the sequence numbers of one of its directions.
  /\ \A c \in Clients : /\ SeqSpace > 192 * (requests[c] + 1)
                        /\ SeqSpace > ReqLen * requests[c] + 2
  \* A request fits a packet.
  /\ ReqLen \in Nat /\ 40 + ReqLen \in Word
  \* A FIN that carries the request is acknowledged one byte of the request
  \* at a time: fewer faults than bytes, or the answer may never be sent again.
  /\ MaxTrouble \in Nat /\ ReqLen > MaxTrouble

HTTP_HELLO_PORT == 80
server_ip == <<10, 0, 2, 15>>

Plus(a, b)  == (a + b) % SeqSpace
Minus(a, b) == (a + SeqSpace - b) % SeqSpace

VARIABLES
  isn_counter,   \* static in app_http_hello
  to_server,     \* frames on their way to the server
  to_client,     \* frames on their way to the clients
  tcb,           \* per client: state and sequence variables
  asked, answered,
  faults         \* how many so far

httpVars == <<isn_counter, to_server, to_client, tcb, asked, answered, faults>>

(***************************************************************************)
(* Frames.  length is what netdev_receive reports: short frames arrive     *)
(* padded to 60 bytes.                                                     *)
(***************************************************************************)
Arp(c, opcode) ==
  [type |-> "arp", client |-> c, opcode |-> opcode, length |-> 60]

Tcp(c, seq, ack, flags, payload_len) ==
  [type |-> "ip", client |-> c, protocol |-> IPPROTO_TCP,
   dst_port |-> HTTP_HELLO_PORT, seq |-> seq, ack |-> ack, flags |-> flags,
   data_offset |-> 5, total_length |-> 40 + payload_len,
   length |-> IF payload_len < 6 THEN 60 ELSE 54 + payload_len]

(* A frame of the server: send_tcp_packet, arp_build_reply. *)
Reply(c, seq, ack, flags, payload) ==
  [type |-> "ip", client |-> c, seq |-> seq, ack |-> ack, flags |-> flags,
   payload |-> payload]

(* The response and its length, per client. *)
http_buf == [c \in Clients |-> build_http_response(ip[c])]
http_len == [c \in Clients |-> Len(http_buf[c])]
LenOf(s) == IF s.payload THEN http_len[s.client] ELSE 0

HttpInit ==
  /\ isn_counter \in FirstIsn
  /\ to_server = {}
  /\ to_client = {}
  /\ tcb = [c \in Clients |-> [state |-> "idle", snd_una |-> iss[c],
                               snd_nxt |-> iss[c], rcv_nxt |-> 0,
                               fin |-> FALSE]]
  /\ asked = [c \in Clients |-> 0]
  /\ answered = [c \in Clients |-> 0]
  /\ faults = 0

----------------------------------------------------------------------------
(* The server.                                                             *)

(* Seeded fault: the payload is what the frame holds after the headers. *)
tcp_payload_len_padded(f) == f.length - 14 - 20 - f.data_offset * 4

tcp_payload_len(f) == (f.total_length + 2^16 - 20 - f.data_offset * 4) % 2^16

(* What the loop body lets through to the TCP part. *)
ForServer(f) ==
  /\ f.type = "ip"
  /\ f.length >= 14 + 20 + 20
  /\ f.protocol = IPPROTO_TCP
  /\ f.dst_port = HTTP_HELLO_PORT

ASSUME NoiseAssumption ==
  \A f \in Noise : ~ForServer(f) /\ (f.type = "arp" => f.opcode # "request")

SynAck(f) ==
  IF "SYN" \in f.flags
  THEN {Reply(f.client, isn_counter, Plus(f.seq, 1), {"SYN", "ACK"}, FALSE)}
  ELSE {}

(* Seeded fault: the acknowledgement counts the TCP header too. *)
Response_total(f) ==
  IF tcp_payload_len(f) > 0
  THEN {Reply(f.client, f.ack, Plus(f.seq, f.total_length - 20),
              {"PSH", "ACK"}, TRUE)}
  ELSE {}

Response(f) ==
  IF tcp_payload_len(f) > 0
  THEN {Reply(f.client, f.ack, Plus(f.seq, tcp_payload_len(f)),
              {"PSH", "ACK"}, TRUE)}
  ELSE {}

(* Seeded fault: the FIN itself is not counted. *)
FinAck_same(f) ==
  IF "FIN" \in f.flags /\ "SYN" \notin f.flags
  THEN {Reply(f.client, f.ack, f.seq, {"ACK"}, FALSE)}
  ELSE {}

FinAck(f) ==
  IF "FIN" \in f.flags /\ "SYN" \notin f.flags
  THEN {Reply(f.client, f.ack, Plus(f.seq, 1), {"ACK"}, FALSE)}
  ELSE {}

(* One pass of app_http_hello's loop over the received frame. *)
Replies(f) ==
  CASE f.type = "arp" /\ f.opcode = "request" -> {Arp(f.client, "reply")}
    [] ForServer(f) -> SynAck(f) \cup Response(f) \cup FinAck(f)
    [] OTHER -> {}

Syns(f) == ForServer(f) /\ "SYN" \in f.flags

Open(c) ==
  /\ tcb[c].state # "idle"
  /\ ~(tcb[c].fin /\ tcb[c].snd_una = tcb[c].snd_nxt)

Room == Cardinality({c \in Clients : Open(c)}) + faults < MaxTrouble

Fault == Room /\ faults' = faults + 1

(* A delivered frame leaves the network, or is to arrive once more. *)
Deliver(net, f) ==
  \/ net' = net \ {f} /\ UNCHANGED faults
  \/ f \in net /\ Fault /\ UNCHANGED net

(* Frames of others arrive at any time; to see that they change nothing it *)
(* is enough to let them in when nothing else waits.                       *)
Receive ==
  \E f \in IF to_server = {} THEN Noise ELSE to_server :
    /\ Deliver(to_server, f)
    /\ to_client' = to_client \cup Replies(f)
    /\ isn_counter' = IF Syns(f) THEN Plus(isn_counter, 1) ELSE isn_counter
    /\ UNCHANGED <<tcb, asked, answered>>

----------------------------------------------------------------------------
(* The clients (external): TCP as RFC 793 has it, one request at a time.   *)

Send(fs) == to_server' = to_server \cup fs

(* What client c has sent and not had acknowledged, as one segment. *)
Unacked(c) ==
  LET t   == tcb[c]
      len == Minus(t.snd_nxt, t.snd_una) - (IF t.fin THEN 1 ELSE 0)
  IN  CASE t.state = "arp" -> {Arp(c, "request")}
        [] t.state = "syn_sent" -> {Tcp(c, iss[c], 0, {"SYN"}, 0)}
        [] t.state = "established" /\ t.snd_una # t.snd_nxt ->
             {Tcp(c, t.snd_una, t.rcv_nxt,
                  {"ACK"} \cup (IF t.fin THEN {"FIN"} ELSE {}), len)}
        [] OTHER -> {}

Connect(c) ==
  /\ tcb[c].state = "idle"
  /\ Room
  /\ tcb' = [tcb EXCEPT ![c].state = "arp"]
  /\ Send({Arp(c, "request")})
  /\ UNCHANGED <<isn_counter, to_client, asked, answered, faults>>

(* A request, with or without the FIN when it is the last one. *)
Request(c) ==
  LET t == tcb[c]
  IN  /\ t.state = "established"
      /\ asked[c] = answered[c]
      /\ asked[c] < requests[c]
      /\ \E fin \in IF asked[c] = requests[c] - 1 THEN BOOLEAN ELSE {FALSE} :
           /\ tcb' = [tcb EXCEPT ![c].fin = fin, ![c].snd_nxt =
                        Plus(@, ReqLen + (IF fin THEN 1 ELSE 0))]
           /\ Send({Tcp(c, t.snd_nxt, t.rcv_nxt, {"ACK", "PSH"} \cup
                          (IF fin THEN {"FIN"} ELSE {}), ReqLen)})
      /\ asked' = [asked EXCEPT ![c] = @ + 1]
      /\ UNCHANGED <<isn_counter, to_client, answered, faults>>

Close(c) ==
  LET t == tcb[c]
  IN  /\ t.state = "established"
      /\ answered[c] = requests[c]
      /\ ~t.fin
      /\ tcb' = [tcb EXCEPT ![c].fin = TRUE, ![c].snd_nxt = Plus(@, 1)]
      /\ Send({Tcp(c, t.snd_nxt, t.rcv_nxt, {"ACK", "FIN"}, 0)})
      /\ UNCHANGED <<isn_counter, to_client, asked, answered, faults>>

(* The retransmission timer: longer than a frame lives, unless it fails.   *)
InFlight(c) == \E f \in to_server \cup to_client : f.client = c

Timeout(c) ==
  /\ Unacked(c) # {}
  /\ \/ ~InFlight(c) /\ UNCHANGED faults
     \/ InFlight(c) /\ Fault
  /\ Send(Unacked(c))
  /\ UNCHANGED <<isn_counter, to_client, tcb, asked, answered>>

(* A new acknowledgement: of something sent and not yet acknowledged. *)
Advances(t, ack) == Minus(ack, t.snd_una) \in 1 .. Minus(t.snd_nxt, t.snd_una)

Accept(c, f) ==
  LET t == tcb[c]
  IN  CASE t.state = "arp" /\ f.type = "arp" ->
             /\ tcb' = [tcb EXCEPT ![c].state = "syn_sent",
                                   ![c].snd_nxt = Plus(iss[c], 1)]
             /\ Send({Tcp(c, iss[c], 0, {"SYN"}, 0)})
             /\ UNCHANGED answered
        [] /\ t.state = "syn_sent" /\ f.type = "ip"
           /\ f.flags = {"SYN", "ACK"} /\ f.ack = t.snd_nxt ->
             /\ tcb' = [tcb EXCEPT ![c].state = "established",
                          ![c].snd_una = f.ack, ![c].rcv_nxt = Plus(f.seq, 1)]
             /\ Send({Tcp(c, f.ack, Plus(f.seq, 1), {"ACK"}, 0)})
             /\ UNCHANGED answered
        [] /\ t.state = "established" /\ f.type = "ip"
           /\ "SYN" \notin f.flags /\ f.seq = t.rcv_nxt ->
             /\ tcb' = [tcb EXCEPT
                          ![c].snd_una =
                            IF Advances(t, f.ack) THEN f.ack ELSE @,
                          ![c].rcv_nxt = Plus(@, LenOf(f))]
             /\ answered' = [answered EXCEPT
                               ![c] = @ + (IF f.payload THEN 1 ELSE 0)]
             /\ UNCHANGED to_server
        [] OTHER -> UNCHANGED <<tcb, to_server, answered>>

ClientReceive(c) ==
  \E f \in to_client :
    /\ f.client = c
    /\ Deliver(to_client, f)
    /\ Accept(c, f)
    /\ UNCHANGED <<isn_counter, asked>>

Lose ==
  /\ Fault
  /\ \/ /\ \E f \in to_server : to_server' = to_server \ {f}
        /\ UNCHANGED to_client
     \/ /\ \E f \in to_client : to_client' = to_client \ {f}
        /\ UNCHANGED to_server
  /\ UNCHANGED <<isn_counter, tcb, asked, answered>>

HttpNext ==
  \/ Receive
  \/ \E c \in Clients : \/ Connect(c) \/ Request(c) \/ Close(c)
                        \/ Timeout(c) \/ ClientReceive(c)
  \/ Lose

HttpSpec == HttpInit /\ [][HttpNext]_httpVars

(* The server's loop runs; what is in flight arrives, the faults excepted; *)
(* a client goes on, and its timer goes off when nothing is in flight.     *)
HttpFairSpec ==
  /\ HttpSpec
  /\ WF_httpVars(Receive)
  /\ \A c \in Clients : /\ WF_httpVars(ClientReceive(c))
                        /\ WF_httpVars(Connect(c) \/ Request(c) \/ Close(c))
                        /\ WF_httpVars(Timeout(c))

----------------------------------------------------------------------------
(***************************************************************************)
(* The frame of a reply as send_tcp_packet lays it out behind the Ethernet *)
(* header, and what its receiver checks of it: reference definitions, by   *)
(* arithmetic modulo 2^16 - 1.                                             *)
(***************************************************************************)
send_tcp_packet(s) ==
  LET payload == IF s.payload THEN http_buf[s.client] ELSE <<>>
  IN  ipv4_build_header(server_ip, ip[s.client], IPPROTO_TCP,
                        20 + Len(payload), 64)
      \o tcp_build_header([port |-> HTTP_HELLO_PORT, ip |-> server_ip],
                          [port |-> port[s.client], ip |-> ip[s.client]],
                          s.seq, s.ack, s.flags, 2^16 - 1, payload)
      \o payload

Ones == 2^16 - 1

BigEndian(b) ==
  LET n[i \in 0 .. Len(b)] ==
        IF i = 0 THEN 0 ELSE (n[i - 1] * 256 + b[i]) % Ones
  IN  n[Len(b)]

Padded(b) == IF Len(b) % 2 = 1 THEN Append(b, 0) ELSE b

Verifies(packet) ==
  LET header  == SubSeq(packet, 1, 20)
      segment == SubSeq(packet, 21, Len(packet))
      pseudo  == SubSeq(header, 13, 20) \o <<0, header[10]>>
                   \o write_htons_unaligned(Len(segment))
  IN  /\ BigEndian(header) = 0
      /\ BigEndian(pseudo \o Padded(segment)) = 0
      /\ header[3] * 256 + header[4] = Len(packet)

(* The number the Content-Length digits denote. *)
ContentLength(b) ==
  LET n == Len(b) - HeaderText - 4
      digits == CHOOSE k \in 1 .. 4 :
                  \A i \in 1 .. 4 : b[HeaderText + i] \in 48 .. 57 <=> i <= k
      value[i \in 0 .. digits] ==
        IF i = 0 THEN 0 ELSE value[i - 1] * 10 + (b[HeaderText + i] - 48)
  IN  [value |-> value[digits], body |-> n - digits]

(* Every segment the server puts on the wire verifies at its receiver:     *)
(* both checksums, over payloads of odd and even length, and the length;   *)
(* the Content-Length it announces is the length of the body that follows, *)
(* and the response fits http_buf[192] and its body body[32].              *)
FramesVerify ==
  \A s \in to_client : s.type = "ip" =>
    /\ Verifies(send_tcp_packet(s))
    /\ s.payload =>
         /\ ContentLength(http_buf[s.client]).value =
              ContentLength(http_buf[s.client]).body
         /\ http_len[s.client] <= 192
         /\ Len(write_hello_ip(ip[s.client])) <= 32

(* No frame on its way to a client is a response the client would take     *)
(* although it has asked for nothing, whatever was lost, repeated or       *)
(* reordered; and none acknowledges what the client has not sent.          *)
Streams ==
  \A s \in to_client :
    /\ s.client \in Clients
    /\ s.type = "ip" =>
         LET t == tcb[s.client]
         IN  /\ Minus(s.ack, iss[s.client]) <= Minus(t.snd_nxt, iss[s.client])
             /\ (/\ s.payload
                 /\ t.state = "established"
                 /\ s.seq = t.rcv_nxt) => answered[s.client] < asked[s.client]

(* The clients get the service of module RequestReply: every request is    *)
(* answered exactly once, though the server remembers nothing between two  *)
(* frames and the sequence numbers wrap around.                            *)
Abstract == INSTANCE RequestReply
Service == Abstract!Spec

(* docs/test-apps.md: "FIN -> ACK".  A client that closes is acknowledged  *)
(* to the last byte, also when the FIN came with a request.                *)
Closes == \A c \in Clients : tcb[c].fin ~> (tcb[c].snd_una = tcb[c].snd_nxt)

=============================================================================
