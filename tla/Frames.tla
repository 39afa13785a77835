------------------------------- MODULE Frames -------------------------------
(***************************************************************************)
(* The binary frames of the program and the decoders that take them apart: *)
(* UDP relay requests and responses (src/udp_relay.go), mirror chunks      *)
(* (src/mirror_transport.go), upload frames, upload answers and datagram   *)
(* batches (src/tunnel.go), and SOCKS5 UDP headers (src/udp_assoc.go).     *)
(* A frame may arrive cut short or with a wrong byte.                      *)
(*                                                                         *)
(* All decoders work alike: a minimal length is tested, and then fields    *)
(* follow one another, each with a length in front of it or of a fixed     *)
(* size.  A decoder is therefore given as the list of its fields with the  *)
(* tests it makes, and run by one cursor.  What is encrypted is modelled   *)
(* after decryption.                                                       *)
(***************************************************************************)
EXTENDS Integers, Sequences

CONSTANTS
    Base,        \* values of a byte, 256 in the code
    minPadding,  \* 512 in the code
    Parts        \* what a field may hold: byte sequences

Byte == 0..(Base - 1)

\* A byte can hold an address type, and a length is a number of at most four
\* bytes.
ASSUME FramesAssumption ==
    /\ Base \in Nat /\ Base > 4 /\ minPadding \in Nat
    /\ Parts \subseteq Seq(Byte) /\ \A p \in Parts : Len(p) < Base * Base * Base * Base

VARIABLES
    kind,        \* which frame
    sent,        \* the fields put into it
    bytes,       \* the frame as it arrives
    mishap,      \* history: "none", "cut", "altered"
    o, got,      \* the decoder's offset, and the fields it has taken
    verdict      \* "sent", "reading", then "ok", "rejected" or "panic"

fvars == <<kind, sent, bytes, mishap, o, got, verdict>>

-----------------------------------------------------------------------------
(* Numbers: big endian, w bytes                                            *)

PutUint(w, n) ==
    LET n1 == n \div Base
        n2 == n1 \div Base
        n3 == n2 \div Base
    IN CASE w = 0 -> <<>> [] w = 1 -> <<n % Base>> [] w = 2 -> <<n1 % Base, n % Base>>
         [] w = 4 -> <<n3 % Base, n2 % Base, n1 % Base, n % Base>>

Uint(s) ==
    CASE Len(s) = 0 -> 0 [] Len(s) = 1 -> s[1] [] Len(s) = 2 -> s[1] * Base + s[2]
      [] Len(s) = 4 -> ((s[1] * Base + s[2]) * Base + s[3]) * Base + s[4]

\* One more than the largest of them.
Limit(w) ==
    CASE w = 0 -> 1 [] w = 1 -> Base [] w = 2 -> Base * Base [] w = 4 -> Base * Base * Base * Base

Zeros(n) == [i \in 1..n |-> 0]

\* A field with its length in front.
Field(w, x) == PutUint(w, Len(x)) \o x

-----------------------------------------------------------------------------
(* Encoders.  The last field of an upload and of a SOCKS5 frame, the       *)
(* payload, has no length.                                                 *)

\* Magic, request id and type are nine bytes.
udpEncodeRequest(f) == Zeros(9) \o (Field(2, f[1]) \o (Field(2, f[2]) \o Field(4, f[3])))

udpEncodeResponse(f) == Zeros(9 + 2) \o Field(4, f[1])

mirrorEncodeFound(f) == Zeros(9) \o Field(4, f[1])

\* Type, conn id and seq.
buildUploadPlain(f) == Zeros(1 + 16 + 4) \o (Field(2, f[1]) \o f[2])

\* Padded to minPadding.
buildUploadResponse(f) ==
    Field(4, f[1]) \o Zeros(IF Len(f[1]) < minPadding THEN minPadding - Len(f[1]) ELSE 0)

\* The server's side, with no datagram or two.
EncodeBatch(f) ==
    PutUint(4, Len(f)) \o (IF f = <<>> THEN <<>> ELSE Field(4, f[1]) \o Field(4, f[2]))

atypIPv4 == 1
atypDomain == 3
atypIPv6 == 4

\* An address of four bytes or of sixteen, then port and payload.
buildSOCKS5UDPHeader(f) ==
    <<0, 0, 0, IF Len(f[1]) = 4 THEN atypIPv4 ELSE atypIPv6>> \o (f[1] \o (f[2] \o f[3]))

\* A name, as a client may put it.
NameHeader(f) == <<0, 0, 0, atypDomain>> \o (Field(1, f[1]) \o (f[2] \o f[3]))

-----------------------------------------------------------------------------
(* Decoders                                                                *)

\* A field whose length is in w bytes; the test of that length also covers
\* the next bytes, which follow it.
Prefixed(w, next) == [w |-> w, size |-> 0, next |-> next, tested |-> FALSE]

\* The w bytes are themselves tested to be there.
Tested(w) == [w |-> w, size |-> 0, next |-> 0, tested |-> TRUE]
Fixed(n)  == [w |-> 0, size |-> n, next |-> 0, tested |-> TRUE]

Decoder(min, start, fields, rest) == [min |-> min, start |-> start, fields |-> fields, rest |-> rest]

udpDecodeRequest == Decoder(9 + 2 + 2 + 4, 9, <<Prefixed(2, 2), Prefixed(2, 4), Prefixed(4, 0)>>, FALSE)

udpDecodeResponse == Decoder(4 + 4 + 1 + 2 + 4, 9 + 2, <<Prefixed(4, 0)>>, FALSE)

mirrorDecodeFound == Decoder(4 + 4 + 1 + 4, 9, <<Prefixed(4, 0)>>, FALSE)

parseUploadFrame == Decoder(1 + 16 + 4 + 2, 1 + 16 + 4, <<Prefixed(2, 0)>>, TRUE)

parseResponse == Decoder(4, 0, <<Prefixed(4, 0)>>, FALSE)

\* As many frames as the first four bytes say; more than can be there are
\* enough to be rejected.
decodeDatagramBatch(d) ==
    LET n == Uint(SubSeq(d, 1, 4)) IN
    Decoder(4, 4, [i \in 1..(IF n > Len(d) THEN Len(d) ELSE n) |-> Tested(4)], FALSE)

\* The resolution of a name is left out.
parseSOCKS5UDPHeader(d) ==
    LET address == CASE d[4] = atypIPv4 -> <<Fixed(4)>> [] d[4] = atypIPv6 -> <<Fixed(16)>>
                     [] d[4] = atypDomain -> <<Tested(1)>> [] OTHER -> <<>>
    IN Decoder(4, 4, IF address = <<>> THEN <<>> ELSE address \o <<Fixed(2)>>, TRUE)

TheDecoder ==
    CASE kind = "request" -> udpDecodeRequest [] kind = "response" -> udpDecodeResponse
      [] kind = "chunk" -> mirrorDecodeFound [] kind = "upload" -> parseUploadFrame
      [] kind = "answer" -> parseResponse
      [] kind = "batch" ->
            IF Len(bytes) < 4 THEN Decoder(4, 4, <<>>, FALSE) ELSE decodeDatagramBatch(bytes)
      [] OTHER -> IF Len(bytes) < 4 THEN Decoder(4, 4, <<>>, TRUE) ELSE parseSOCKS5UDPHeader(bytes)

-----------------------------------------------------------------------------
\* A field fits the bytes of its length.
Fitting(w) == {p \in Parts : Len(p) < Limit(w)}

Messages ==
    [request |-> {<<p, t, b>> : p \in Fitting(2), t \in Fitting(2), b \in Parts},
     response |-> {<<b>> : b \in Parts}, chunk |-> {<<b>> : b \in Parts},
     upload |-> {<<t, b>> : t \in Fitting(2), b \in Parts}, answer |-> {<<b>> : b \in Parts},
     batch |-> {<<>>} \cup {<<a, b>> : a, b \in Parts},
     socks |-> {<<Zeros(n), <<0, 1>>, b>> : n \in {4, 16}, b \in Parts},
     name |-> {<<a, <<0, 1>>, b>> : a \in Fitting(1), b \in Parts}]

Encode(k, f) ==
    CASE k = "request" -> udpEncodeRequest(f) [] k = "response" -> udpEncodeResponse(f)
      [] k = "chunk" -> mirrorEncodeFound(f) [] k = "upload" -> buildUploadPlain(f)
      [] k = "answer" -> buildUploadResponse(f) [] k = "batch" -> EncodeBatch(f)
      [] k = "socks" -> buildSOCKS5UDPHeader(f) [] k = "name" -> NameHeader(f)

FInit ==
    /\ kind \in DOMAIN Messages /\ sent \in Messages[kind] /\ bytes = Encode(kind, sent)
    /\ mishap = "none" /\ o = 0 /\ got = <<>> /\ verdict = "sent"

\* On the way to the decoder.
Cut ==
    /\ verdict = "sent" /\ mishap = "none" /\ mishap' = "cut"
    /\ \E n \in 0..(Len(bytes) - 1) : bytes' = SubSeq(bytes, 1, n)
    /\ UNCHANGED <<kind, sent, o, got, verdict>>

Alter ==
    /\ verdict = "sent" /\ mishap = "none" /\ mishap' = "altered"
    /\ \E i \in 1..Len(bytes), b \in Byte : bytes' = [bytes EXCEPT ![i] = b]
    /\ UNCHANGED <<kind, sent, o, got, verdict>>

\* No data at all is an empty answer, and an empty batch.
Begin ==
    LET empty == bytes = <<>> /\ kind \in {"answer", "batch"} IN
    /\ verdict = "sent"
    /\ verdict' = CASE empty -> "ok"
                    [] ~empty /\ Len(bytes) < TheDecoder.min -> "rejected"
                    [] ~empty /\ kind \in {"socks", "name"} /\ TheDecoder.fields = <<>> -> "rejected"
                    [] OTHER -> "reading"
    /\ o' = TheDecoder.start
    /\ UNCHANGED <<kind, sent, bytes, mishap, got>>

\* Mutant: a length that is too large is cut down to what there is.
LengthClamped(field) ==
    LET n == field.size + Uint(SubSeq(bytes, o + 1, o + field.w))
        most == Len(bytes) - o - field.w - field.next
    IN IF n > most /\ most >= 0 THEN most ELSE n

Length(field) == field.size + Uint(SubSeq(bytes, o + 1, o + field.w))

\* The next field.  A length outside the data is a panic.
ReadField ==
    LET field == TheDecoder.fields[Len(got) + 1]
        there == o + field.w <= Len(bytes)
        start == o + field.w
    IN
    /\ verdict = "reading" /\ Len(got) < Len(TheDecoder.fields)
    /\ CASE ~there ->
                verdict' = (IF field.tested THEN "rejected" ELSE "panic") /\ UNCHANGED <<o, got>>
         [] there /\ start + Length(field) + field.next > Len(bytes) ->
                verdict' = "rejected" /\ UNCHANGED <<o, got>>
         [] OTHER ->
                /\ got' = Append(got, SubSeq(bytes, start + 1, start + Length(field)))
                /\ o' = start + Length(field) /\ UNCHANGED verdict
    /\ UNCHANGED <<kind, sent, bytes, mishap>>

\* What is left is the payload, or padding.
Finish ==
    /\ verdict = "reading" /\ Len(got) = Len(TheDecoder.fields) /\ verdict' = "ok"
    /\ got' = IF TheDecoder.rest THEN Append(got, SubSeq(bytes, o + 1, Len(bytes))) ELSE got
    /\ UNCHANGED <<kind, sent, bytes, mishap, o>>

FNext == Cut \/ Alter \/ Begin \/ ReadField \/ Finish

-----------------------------------------------------------------------------
\* No decoder looks past the end of what it was given, however the frame was cut
\* or altered: every length is read where an earlier test has made sure of it.
NeverPastTheEnd == verdict # "panic"

\* What one end puts into a frame is what the other takes out of it, for empty
\* fields too: an undamaged frame is accepted with the fields it was built from.
RoundTrip == mishap = "none" => verdict # "rejected" /\ (verdict = "ok" => got = sent)

\* A frame cut short is rejected, or taken for what it is: only the payload at
\* its end, which has no length, may be shorter, and only padding may be missing.
\* No data at all stands for no answer.
CutIsNoticed ==
    mishap = "cut" /\ verdict = "ok" /\ bytes # <<>> =>
        IF TheDecoder.rest
        THEN \E n \in 0..Len(sent[Len(sent)]) : got = [sent EXCEPT ![Len(sent)] = SubSeq(@, 1, n)]
        ELSE got = sent

\* Both ends agree on every frame: the decoders accept what the encoders build,
\* notice what is cut and never look past the end.
FramesSound == NeverPastTheEnd /\ RoundTrip /\ CutIsNoticed
=============================================================================
