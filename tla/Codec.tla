------------------------------- MODULE Codec -------------------------------
(***************************************************************************)
(* The bytes the network applications put on the wire: byte order          *)
(* (common/byteorder.h, .c), the IPv4 and TCP headers with their checksums *)
(* (apps/network/ipv4, apps/network/tcp), and the HTTP response of         *)
(* apps/http-hello.  Memory is a sequence of bytes; every supported CPU is *)
(* little-endian, so a plain 16-bit store puts the low byte first.  Fixed  *)
(* text is any text of its length: only lengths, digits and sums matter.   *)
(***************************************************************************)
EXTENDS Naturals, Sequences

Byte == 0 .. 2^8 - 1
Word == 0 .. 2^16 - 1

(* A store and a load of a uint16_t on a little-endian CPU. *)
store16(v)    == <<v % 256, v \div 256>>
load16(b, i)  == b[i] + 256 * b[i + 1]

(* htonl, htons, ntohl and ntohs swap bytes on these CPUs. *)
htons(v) == (v % 256) * 256 + v \div 256
ntohs(v) == htons(v)

(* write_htons_unaligned, write_htonl_unaligned: byte by byte. *)
write_htons_unaligned(v) == <<(v \div 256) % 256, v % 256>>
write_htonl_unaligned(v) ==
  <<(v \div 2^24) % 256, (v \div 2^16) % 256, (v \div 2^8) % 256, v % 256>>

(* The sum of the 16-bit words of b read in network order, the odd byte    *)
(* at the end as a high byte.                                              *)
word_sum(b) ==
  LET half[i \in 0 .. Len(b) \div 2] ==
        IF i = 0 THEN 0 ELSE half[i - 1] + ntohs(load16(b, 2 * i - 1))
      odd == IF Len(b) % 2 = 1 THEN b[Len(b)] * 256 ELSE 0
  IN  half[Len(b) \div 2] + odd

(* while (sum >> 16) sum = (sum & 0xFFFF) + (sum >> 16) *)
fold[sum \in Nat] ==
  IF sum < 2^16 THEN sum ELSE fold[(sum % 2^16) + (sum \div 2^16)]

complement16(v) == 2^16 - 1 - v

ipv4_checksum(header) == htons(complement16(fold[word_sum(header)]))

IPPROTO_TCP == 6

(* Addresses are the four bytes of the frame, copied as they are. *)
ipv4_build_header(src_ip, dst_ip, protocol, payload_length, ttl) ==
  LET before == <<69, 0>> \o store16(htons(20 + payload_length))
                  \o store16(htons(1)) \o <<0, 0, ttl, protocol>>
      after  == src_ip \o dst_ip
  IN  before \o store16(ipv4_checksum(before \o <<0, 0>> \o after)) \o after

(* Seeded fault: the odd last byte is left out of the sum. *)
tcp_checksum_even(src_ip, dst_ip, segment) ==
  LET sum == word_sum(src_ip) + word_sum(dst_ip) + IPPROTO_TCP + Len(segment)
               + word_sum(SubSeq(segment, 1, 2 * (Len(segment) \div 2)))
  IN  htons(complement16(fold[sum]))

(* Over the pseudo-header and the segment, whose checksum field is 0. *)
tcp_checksum(src_ip, dst_ip, segment) ==
  LET sum == word_sum(src_ip) + word_sum(dst_ip) + IPPROTO_TCP + Len(segment)
               + word_sum(segment)
  IN  htons(complement16(fold[sum]))

TCP_FLAG == [FIN |-> 1, SYN |-> 2, RST |-> 4, PSH |-> 8, ACK |-> 16]

(* The flag byte of a set of flags. *)
flag_byte(flags) ==
  LET Bit(f) == IF f \in flags THEN TCP_FLAG[f] ELSE 0
  IN  Bit("FIN") + Bit("SYN") + Bit("RST") + Bit("PSH") + Bit("ACK")

(* The header, with the checksum over it and the payload that follows; src *)
(* and dst are the port and the address of the two ends.                   *)
tcp_build_header(src, dst, seq, ack, flags, window, payload) ==
  LET before == write_htons_unaligned(src.port)
                  \o write_htons_unaligned(dst.port)
                  \o write_htonl_unaligned(seq) \o write_htonl_unaligned(ack)
                  \o <<80, flag_byte(flags)>> \o write_htons_unaligned(window)
      segment == before \o <<0, 0, 0, 0>> \o payload
  IN  before \o store16(tcp_checksum(src.ip, dst.ip, segment)) \o <<0, 0>>

----------------------------------------------------------------------------
Text(n) == [i \in 1 .. n |-> 120]

Digit(d) == 48 + d

write_decimal_u8(v) ==
  CASE v >= 100 ->
         <<Digit(v \div 100), Digit((v % 100) \div 10), Digit(v % 10)>>
    [] v >= 10 /\ v < 100 -> <<Digit(v \div 10), Digit(v % 10)>>
    [] v < 10 -> <<Digit(v)>>

(* "Hello, A.B.C.D\n" *)
write_hello_ip(ip) ==
  Text(7) \o write_decimal_u8(ip[1]) \o Text(1) \o write_decimal_u8(ip[2])
    \o Text(1) \o write_decimal_u8(ip[3]) \o Text(1) \o write_decimal_u8(ip[4])
    \o Text(1)

(* Digits from the least significant one, then turned round. *)
write_decimal_size(v) ==
  LET digits[w \in 0 .. v] ==
        IF w = 0 THEN <<>> ELSE Append(digits[w \div 10], Digit(w % 10))
  IN  IF v = 0 THEN <<Digit(0)>> ELSE digits[v]

(* 83 bytes of status line and headers up to "Content-Length: ".           *)
HeaderText == 83
build_http_response(client_ip) ==
  LET body == write_hello_ip(client_ip)
  IN  Text(HeaderText) \o write_decimal_size(Len(body)) \o Text(4) \o body
=============================================================================
