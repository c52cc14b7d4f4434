-------------------------------- MODULE Packets --------------------------------
(***************************************************************************)
(* The payloads of the exchange as bytes: what write_payload composes of   *)
(* the conversations' messages and how read_payload cuts the server's into *)
(* the conversations' buffers (mongosql-auth.c).  MongosqlAuth has the     *)
(* frames, this module the packets they travel in.                         *)
(***************************************************************************)
EXTENDS Integers, Sequences, SequencesExt

CONSTANT MaxFrame      (* MONGOSQL_AUTH_MAX_BUF_SIZE *)

ASSUME PacketsAssumption == MaxFrame \in Nat

(* A length is copied as it is in memory, least significant byte first. *)
LengthOf(n) ==
  <<n % 256, (n \div 256) % 256, (n \div 65536) % 256, (n \div 16777216) % 256>>
NumberOf(bytes) == bytes[1] + 256 * bytes[2] + 65536 * bytes[3] + 16777216 * bytes[4]

---------------------------------------------------------------------------
(* _mongosql_auth_write_payload *)

PayloadSize(frames) ==
  LET size[n \in 0 .. Len(frames)] ==
        IF n = 0 THEN 0 ELSE size[n - 1] + Len(frames[n].message) + 5
  IN  size[Len(frames)]

ClientFrame(f) == <<f.done>> \o LengthOf(Len(f.message)) \o f.message

(* The room that is made, and the bytes that are put there one after the      *)
(* other.                                                                     *)
WritePayload(frames) ==
  [room |-> PayloadSize(frames), bytes |-> FlattenSeq([n \in DOMAIN frames |-> ClientFrame(frames[n])])]

---------------------------------------------------------------------------
(* _mongosql_auth_read_payload *)

(* Mutant: the place moves on by the message, not by its length before it.    *)
BehindMessage(place, len) == place + len

BehindFrame(place, len) == place + 4 + len

(* The place of the packet behind n conversations and what they took.  A      *)
(* frame that is too large ends the loop.                                     *)
Take(pkt, n) ==
  LET take[c \in 0 .. n] ==
        IF c = 0 THEN [place |-> 1, taken |-> <<>>, error |-> FALSE]
        ELSE LET s   == take[c - 1]
                 len == NumberOf(SubSeq(pkt, s.place, s.place + 3))
             IN  IF s.error THEN s
                 ELSE IF len > MaxFrame THEN [s EXCEPT !.error = TRUE]
                 ELSE [s EXCEPT !.place = BehindFrame(@, len),
                                !.taken = Append(@, SubSeq(pkt, s.place + 4, s.place + 3 + len))]
  IN  take[n]

---------------------------------------------------------------------------
(* The server's side of the protocol: a length and a message for each         *)
(* conversation in its payloads, and the place of each in the client's.       *)

ServerFrame(m) == LengthOf(Len(m)) \o m

ServerPayload(messages) == FlattenSeq([n \in DOMAIN messages |-> ServerFrame(messages[n])])

(* The frames a payload of the client consists of. *)
ClientFrames(pkt, n) ==
  LET cut[c \in 0 .. n] ==
        IF c = 0 THEN [place |-> 1, frames |-> <<>>]
        ELSE LET s   == cut[c - 1]
                 len == NumberOf(SubSeq(pkt, s.place + 1, s.place + 4))
             IN  [place  |-> s.place + 5 + len,
                  frames |-> Append(s.frames,
                    [done |-> pkt[s.place], message |-> SubSeq(pkt, s.place + 5, s.place + 4 + len)])]
  IN  cut[n].frames
===============================================================================
