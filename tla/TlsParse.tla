------------------------------ MODULE TlsParse ------------------------------
(***************************************************************************)
(* The parsers of flow-sensor-ebpf/src/tls.rs, and what they leave in the  *)
(* texts of a row as one buffer after another goes through them.           *)
(*                                                                         *)
(* A buffer is copied into the scratch area of the CPU, over what the last *)
(* one left there; the parsers read the first len bytes of it and write    *)
(* into texts that are never cleared.  Offsets count from 0, as in the     *)
(* code.  The limits of the parsers are constants, so that short messages  *)
(* reach them.                                                             *)
(*                                                                         *)
(* calls, latest, longest and misled are history: how many calls there     *)
(* were, and what they said.                                               *)
(***************************************************************************)
EXTENDS Integers, Sequences

CONSTANTS
  ScratchLen,      \* TLS_SCRATCH_LEN: 256
  TextLen,         \* HOST_LEN and PATH_LEN: 256
  RandomLen,       \* bytes of a hello's random: 32
  MaxSession,      \* longest session id: 32
  MaxCiphers,      \* longest list of cipher suites: 200
  MaxCompression,  \* longest list of compression methods: 32
  MaxExtTotal,     \* longest block of extensions: 220
  MaxExtLen,       \* longest extension: 128
  MaxExts,         \* extensions looked at: 24
  HostScan,        \* offsets at which a Host header is looked for: 400
  Written,         \* messages that SSL_write passes
  Received,        \* messages that SSL_read returns
  MaxCalls         \* bound on the calls

BYTE == 0..255
MethodLen == 8

Texts == {"tls_sni", "http_method", "http_path", "http_host"}
Fields == Texts \cup {"http_status"}

\* A message, where in it is what the fields of a row are to show, and where the
\* extensions of a hello start; last is 0 where there is nothing to show.
Message ==
  [bytes : Seq(BYTE), parts : [Fields -> [first : Nat \ {0}, last : Nat]], exts : Seq(Nat \ {0})]

VARIABLES
  scratch,  \* TLS_UPROBE_SCRATCH
  row,      \* the TLS and HTTP fields of a row
  calls,    \* the calls so far
  latest,   \* the last thing that they said of each field
  longest,  \* the length of the longest
  misled    \* some other header was taken for the Host of a request

parseVars == <<scratch, row, calls, latest, longest, misled>>

Text(n) == [0..(n - 1) -> BYTE]
Blank(n) == [i \in 0..(n - 1) |-> 0]

ParseInit ==
  /\ scratch = Blank(ScratchLen)
  /\ row = [tls_sni |-> Blank(TextLen), http_host |-> Blank(TextLen),
            http_path |-> Blank(TextLen), http_method |-> Blank(MethodLen),
            http_status |-> 0, has_tls |-> 0, has_http |-> 0]
  /\ calls = 0
  /\ latest = [f \in Fields |-> <<>>] /\ longest = [f \in Fields |-> 0]
  /\ misled = FALSE

-----------------------------------------------------------------------------
(* Reading and copying.  m is a buffer in the scratch area: its data, and  *)
(* how much of it is the buffer's.                                         *)

\* read_u8, with the 0 that every caller takes for a byte outside.
ByteAt(m, i) == IF i < m.len /\ i < ScratchLen THEN m.data[i] ELSE 0

WordAt(m, i) == 256 * ByteAt(m, i) + ByteAt(m, i + 1)

\* Some bytes of a buffer: where, and how many.
Span(at, count) == [at |-> at, count |-> count]
Nowhere == Span(1, 0)

\* copy_bytes_bounded
CopyBytes(out, m, span) ==
  [i \in DOMAIN out |->
     IF i < span.count /\ span.at + i < m.len THEN m.data[span.at + i] ELSE out[i]]

Least(S) == CHOOSE x \in S : \A y \in S : x <= y
Lower(a, b) == IF a < b THEN a ELSE b

\* The first offset from lo on that holds one of the bytes, or hi.
FirstOf(bytes, m, lo, hi) ==
  Least({i \in lo..(hi - 1) : ByteAt(m, i) \in bytes} \cup {hi})

-----------------------------------------------------------------------------
(* parse_tls_clienthello_sni                                               *)

SessionAt == 11 + RandomLen
CiphersAt(m) == SessionAt + 1 + ByteAt(m, SessionAt)
CompressionAt(m) == CiphersAt(m) + 2 + WordAt(m, CiphersAt(m))
ExtTotalAt(m) == CompressionAt(m) + 1 + ByteAt(m, CompressionAt(m))
ExtensionsAt(m) == ExtTotalAt(m) + 2
ExtensionsEnd(m) == ExtensionsAt(m) + WordAt(m, ExtTotalAt(m))

\* A client hello that is whole and within the limits.
IsHello(m) ==
  /\ m.len >= SessionAt
  /\ ByteAt(m, 0) = 22 /\ ByteAt(m, 1) = 3
  /\ WordAt(m, 3) <= m.len - 5
  /\ ByteAt(m, 5) = 1
  /\ SessionAt < m.len /\ ByteAt(m, SessionAt) <= MaxSession
  /\ CiphersAt(m) + 2 <= m.len /\ WordAt(m, CiphersAt(m)) <= MaxCiphers
  /\ CompressionAt(m) < m.len /\ ByteAt(m, CompressionAt(m)) <= MaxCompression
  /\ ExtTotalAt(m) + 2 <= m.len /\ WordAt(m, ExtTotalAt(m)) <= MaxExtTotal
  /\ ExtensionsEnd(m) <= m.len

\* Where each extension starts: after type, length and body of the last one.
MutExtStartForgetsHeader(m) ==
  LET start[n \in 0..MaxExts] ==
        IF n = 0 THEN ExtensionsAt(m) ELSE start[n - 1] + WordAt(m, start[n - 1] + 2)
  IN start
ExtStart(m) ==
  LET start[n \in 0..MaxExts] ==
        IF n = 0 THEN ExtensionsAt(m) ELSE start[n - 1] + 4 + WordAt(m, start[n - 1] + 2)
  IN start

WholeExt(m, p) ==
  /\ p \in ExtensionsAt(m)..(ExtensionsEnd(m) - 4)
  /\ WordAt(m, p + 2) <= MaxExtLen
  /\ p + 4 + WordAt(m, p + 2) <= ExtensionsEnd(m)

\* The extension at p is a server_name with a host name.
NamesHost(m, p) ==
  LET elen == WordAt(m, p + 2)
      list_len == WordAt(m, p + 4)
      name_len == WordAt(m, p + 7)
  IN /\ WordAt(m, p) = 0 /\ elen >= 5
     /\ list_len >= 3 /\ 2 + list_len <= elen
     /\ ByteAt(m, p + 6) = 0
     /\ name_len \in 1..TextLen /\ 5 + name_len <= elen

\* The name in the first such extension, if all before it are whole.
Sni(m) ==
  LET start == ExtStart(m)
      named == {n \in 0..(MaxExts - 1) :
                  /\ \A j \in 0..n : WholeExt(m, start[j])
                  /\ NamesHost(m, start[n])}
  IN IF IsHello(m) /\ named # {}
     THEN Span(start[Least(named)] + 9, WordAt(m, start[Least(named)] + 7))
     ELSE Nowhere

-----------------------------------------------------------------------------
(* parse_http_request                                                      *)

SP == 32
CR == 13
LF == 10

\* GET POS PUT DEL PAT HEA OPT
MethodStart ==
  {<<71, 69, 84>>, <<80, 79, 83>>, <<80, 85, 84>>, <<68, 69, 76>>, <<80, 65, 84>>,
   <<72, 69, 65>>, <<79, 80, 84>>}

IsRequest(m) ==
  m.len >= 4 /\ <<ByteAt(m, 0), ByteAt(m, 1), ByteAt(m, 2)>> \in MethodStart

FirstSpace(m) == FirstOf({SP}, m, 0, m.len)

MutMethodFillsArray(m) == Span(0, Lower(FirstSpace(m), MethodLen))
Method(m) == Span(0, Lower(FirstSpace(m), MethodLen - 1))

MutPathToEnd(m) ==
  LET from == FirstSpace(m) + 1 IN
  IF from < m.len THEN Span(from, Lower(from + TextLen, m.len) - from) ELSE Nowhere
Path(m) ==
  LET from == FirstSpace(m) + 1 IN
  IF from < m.len
  THEN Span(from, FirstOf({SP}, m, from, Lower(from + TextLen, m.len)) - from)
  ELSE Nowhere

\* Host: in capitals or not, at any offset.
HostLetters == <<{72, 104}, {111, 79}, {115, 83}, {116, 84}, {58}, {SP}>>
IsHostLine(m, p) == \A i \in DOMAIN HostLetters : ByteAt(m, p + i - 1) \in HostLetters[i]

Host(m) ==
  LET lines == {p \in 0..Lower(HostScan - 1, m.len - 6) : IsHostLine(m, p)}
      from == Least(lines) + 6
  IN IF lines # {} /\ from < m.len
     THEN Span(from, FirstOf({CR, LF}, m, from, Lower(from + TextLen, m.len)) - from)
     ELSE Nowhere

-----------------------------------------------------------------------------
(* parse_http_status                                                       *)

HttpSlash == <<72, 84, 84, 80, 47>>

MutStatusReadsPastEnd(m) ==
  LET from == FirstOf({SP}, m, 5, m.len) + 1
      digit == [i \in 0..2 |-> (IF from + i < ScratchLen THEN m.data[from + i] ELSE 0) - 48]
  IN IF /\ m.len >= 12
        /\ \A i \in DOMAIN HttpSlash : ByteAt(m, i - 1) = HttpSlash[i]
        /\ \A i \in 0..2 : digit[i] \in 0..9
     THEN 100 * digit[0] + 10 * digit[1] + digit[2]
     ELSE 0
Status(m) ==
  LET from == FirstOf({SP}, m, 5, m.len) + 1
      digit == [i \in 0..2 |-> ByteAt(m, from + i) - 48]
  IN IF /\ m.len >= 12
        /\ \A i \in DOMAIN HttpSlash : ByteAt(m, i - 1) = HttpSlash[i]
        /\ from + 3 <= m.len
        /\ \A i \in 0..2 : digit[i] \in 0..9
     THEN 100 * digit[0] + 10 * digit[1] + digit[2]
     ELSE 0

-----------------------------------------------------------------------------
(* Messages, by the grammars of TLS and HTTP and not by the parsers.       *)

StartsAs(msg, bytes) ==
  Len(msg.bytes) >= Len(bytes) /\ \A i \in DOMAIN bytes : msg.bytes[i] = bytes[i]
Lacks(msg, field) == msg.parts[field].last = 0

Word(msg, i) == 256 * msg.bytes[i] + msg.bytes[i + 1]

\* A hello's blocks, each behind its length, which is there.
SessionPlace == 12 + RandomLen
CiphersPlace(msg) == SessionPlace + 1 + msg.bytes[SessionPlace]
CompressionPlace(msg) == CiphersPlace(msg) + 2 + Word(msg, CiphersPlace(msg))
ExtensionsPlace(msg) == CompressionPlace(msg) + 1 + msg.bytes[CompressionPlace(msg)]

ClientHello(msg) ==
  StartsAs(msg, <<22, 3>>) /\ Len(msg.bytes) >= 6 /\ msg.bytes[6] = 1

\* Where the i-th extension starts, or the last one ends.
ExtPlace(msg, i) ==
  IF i = 1 THEN ExtensionsPlace(msg) + 2 ELSE msg.exts[i - 1] + 4 + Word(msg, msg.exts[i - 1] + 2)

\* The message is the one record of the hello, and the extensions fill its end.
HelloMessage(msg) ==
  LET size == Len(msg.bytes)
      count == Len(msg.exts)
  IN /\ SessionPlace <= size /\ CiphersPlace(msg) < size
     /\ CompressionPlace(msg) <= size /\ ExtensionsPlace(msg) < size
     /\ Word(msg, 4) = size - 5
     /\ Word(msg, ExtensionsPlace(msg)) = size - (ExtensionsPlace(msg) + 1)
     /\ \A i \in 1..count : /\ msg.exts[i] = ExtPlace(msg, i) /\ msg.exts[i] + 3 <= size
                           /\ ExtPlace(msg, i + 1) <= size + 1
     /\ ExtPlace(msg, count + 1) = size + 1

\* An extension at p with a host name and nothing else.
ServerName(msg, p) ==
  LET name_len == Word(msg, p + 2) - 5 IN
  /\ name_len > 0
  /\ Word(msg, p + 4) = name_len + 3 /\ msg.bytes[p + 6] = 0 /\ Word(msg, p + 7) = name_len
  /\ \A i \in (p + 9)..(p + 8 + name_len) : msg.bytes[i] # 0

\* The name is shown of the first server_name, if all up to it keeps to the limits.
WithinLimits(msg) ==
  /\ msg.bytes[SessionPlace] <= MaxSession
  /\ Word(msg, CiphersPlace(msg)) <= MaxCiphers
  /\ msg.bytes[CompressionPlace(msg)] <= MaxCompression
  /\ Word(msg, ExtensionsPlace(msg)) <= MaxExtTotal

FirstName(msg, i) ==
  /\ Word(msg, msg.exts[i]) = 0 /\ \A j \in 1..(i - 1) : Word(msg, msg.exts[j]) # 0
  /\ i <= MaxExts /\ \A j \in 1..i : Word(msg, msg.exts[j] + 2) <= MaxExtLen

NamedMessage(msg) ==
  /\ \A i \in DOMAIN msg.exts : Word(msg, msg.exts[i]) = 0 => ServerName(msg, msg.exts[i])
  /\ IF WithinLimits(msg) /\ \E i \in DOMAIN msg.exts : FirstName(msg, i)
     THEN \E i \in DOMAIN msg.exts :
            /\ FirstName(msg, i)
            /\ msg.parts["tls_sni"].first = msg.exts[i] + 9
            /\ msg.parts["tls_sni"].last = msg.exts[i] + 8 + Word(msg, msg.exts[i] + 7)
     ELSE Lacks(msg, "tls_sni")

\* A field of the message: from there up to a stop or to the end.
Holds(msg, field, from, stops) ==
  LET last == msg.parts[field].last IN
  /\ msg.parts[field].first = from
  /\ last \in (from - 1)..Len(msg.bytes)
  /\ \A i \in from..last : msg.bytes[i] \notin stops \cup {0}
  /\ last < Len(msg.bytes) => msg.bytes[last + 1] \in stops

\* What looks like a Host header with its one space and starts within the offsets
\* scanned, and what is one: it starts a line, before the empty line that ends the
\* headers.
HostLines(msg) ==
  {p \in 1..HostScan : /\ p + 5 <= Len(msg.bytes)
                       /\ \A i \in DOMAIN HostLetters : msg.bytes[p + i - 1] \in HostLetters[i]}
HostHeaders(msg) ==
  {p \in HostLines(msg) :
     /\ p > 1 /\ msg.bytes[p - 1] = LF
     /\ \A e \in 1..(p - 4) : SubSeq(msg.bytes, e, e + 3) # <<CR, LF, CR, LF>>}

Misleading(msg) ==
  \E o \in HostLines(msg) \ HostHeaders(msg) : \A p \in HostHeaders(msg) : o < p

RequestMessage(msg) ==
  LET method == msg.parts["http_method"] IN
  /\ Holds(msg, "http_method", 1, {SP})
  /\ IF method.last < Len(msg.bytes)
     THEN Holds(msg, "http_path", method.last + 2, {SP})
     ELSE Lacks(msg, "http_path")
  /\ IF HostHeaders(msg) # {}
     THEN \E p \in HostHeaders(msg) : /\ \A o \in HostHeaders(msg) : p <= o
                                      /\ Holds(msg, "http_host", p + 6, {CR, LF})
     ELSE Lacks(msg, "http_host")

\* A status line with its space at p, and a status of three digits behind it.
DIGIT == 48..57
StatusLine(msg, p) ==
  /\ StartsAs(msg, HttpSlash)
  /\ p > 5 /\ p + 3 <= Len(msg.bytes)
  /\ msg.bytes[p] = SP /\ \A i \in 6..(p - 1) : msg.bytes[i] # SP
  /\ \A i \in (p + 1)..(p + 3) : msg.bytes[i] \in DIGIT

ResponseMessage(msg) ==
  LET status == msg.parts["http_status"] IN
  IF \E p \in 1..Len(msg.bytes) : StatusLine(msg, p)
  THEN /\ StatusLine(msg, status.first - 1) /\ status.last = status.first + 2
       /\ msg.bytes[status.first] # 48
  ELSE Lacks(msg, "http_status")

ASSUME ParseAssumption ==
  /\ ScratchLen \in Nat \ {0} /\ TextLen \in Nat /\ ScratchLen <= TextLen
  /\ RandomLen \in Nat /\ MaxSession \in Nat /\ MaxCiphers \in Nat
  /\ MaxCompression \in Nat /\ MaxExtTotal \in Nat /\ MaxExtLen \in Nat
  /\ MaxExts \in Nat \ {0} /\ HostScan \in Nat /\ MaxCalls \in Nat
  /\ Written \subseteq Message /\ Received \subseteq Message
  /\ \A msg \in Written :
       IF ClientHello(msg) THEN HelloMessage(msg) /\ NamedMessage(msg) ELSE Lacks(msg, "tls_sni")
  /\ \A msg \in Written :
       IF \E method \in MethodStart : StartsAs(msg, method)
       THEN RequestMessage(msg)
       ELSE \A f \in {"http_method", "http_path", "http_host"} : Lacks(msg, f)
  /\ \A msg \in Received : ResponseMessage(msg)

-----------------------------------------------------------------------------
(* The calls.                                                              *)

\* bpf_probe_read_user of the first len bytes into the scratch area.
Filled(msg, len) ==
  [i \in 0..(ScratchLen - 1) |-> IF i < len THEN msg.bytes[i + 1] ELSE scratch[i]]

\* What the first len bytes of a message say: a name when it is whole, a request
\* from four bytes on, a status from twelve and with all its digits.
Says(msg, len, field) ==
  LET part == msg.parts[field]
      seen == SubSeq(msg.bytes, part.first, Lower(part.last, len))
  IN CASE field = "tls_sni" -> IF len = Len(msg.bytes) THEN seen ELSE <<>>
       [] field = "http_method" -> IF len >= 4 THEN SubSeq(seen, 1, Lower(MethodLen - 1, Len(seen))) ELSE <<>>
       [] field = "http_status" -> IF len >= 12 /\ part.last <= len THEN seen ELSE <<>>
       [] OTHER -> IF len >= 4 THEN seen ELSE <<>>

Say(msg, len, fields) ==
  LET said == [f \in Fields |-> IF f \in fields THEN Says(msg, len, f) ELSE <<>>] IN
  /\ latest' = [f \in Fields |-> IF said[f] # <<>> THEN said[f] ELSE latest[f]]
  /\ longest' = [f \in Fields |-> IF Len(said[f]) > longest[f] THEN Len(said[f]) ELSE longest[f]]

\* A hello by its first and its sixth byte, whatever else is in it.
LooksLikeHello(m) == m.len >= 6 /\ ByteAt(m, 0) = 22 /\ ByteAt(m, 5) = 1

\* ssl_write_return, for a call with len bytes of msg.
SslWrite(msg, len) ==
  LET m == [data |-> Filled(msg, len), len |-> len]
      http == IsRequest(m)
  IN /\ scratch' = m.data
     /\ row' = [row EXCEPT
          !.tls_sni = CopyBytes(@, m, Sni(m)),
          !.http_method = IF http THEN CopyBytes(@, m, Method(m)) ELSE @,
          !.http_path = IF http THEN CopyBytes(@, m, Path(m)) ELSE @,
          !.http_host = IF http THEN CopyBytes(@, m, Host(m)) ELSE @,
          !.has_tls = IF Sni(m).count > 0 \/ LooksLikeHello(m) THEN 1 ELSE @,
          !.has_http = IF http THEN 1 ELSE @]
     /\ Say(msg, len, Texts)
     /\ misled' = (misled \/ (http /\ Misleading(msg)))

\* ssl_read_return, for a call that returned len bytes of msg.
SslRead(msg, len) ==
  LET m == [data |-> Filled(msg, len), len |-> len]
  IN /\ scratch' = m.data
     /\ row' = [row EXCEPT !.http_status = IF Status(m) # 0 THEN Status(m) ELSE @]
     /\ Say(msg, len, {"http_status"})
     /\ UNCHANGED misled

ParseNext ==
  /\ calls < MaxCalls
  /\ calls' = calls + 1
  /\ \/ \E msg \in Written : \E num \in 1..Len(msg.bytes) : SslWrite(msg, Lower(num, ScratchLen))
     \/ \E msg \in Received : \E num \in 1..Len(msg.bytes) : SslRead(msg, Lower(num, ScratchLen))

ParseSpec == ParseInit /\ [][ParseNext]_parseVars

\* A text as the accessors of FlowEvent return it: up to the first NUL, and
\* empty when there is none.
Shown(field) ==
  LET text == row[field]
      ends == {i \in DOMAIN text : text[i] = 0}
  IN IF ends = {} THEN <<>> ELSE [i \in 1..Least(ends) |-> text[i - 1]]

-----------------------------------------------------------------------------
(* Properties.                                                             *)

\* What is shown starts with the last text that was said, and is no longer than
\* the longest: copy_bytes_bounded leaves the end of a longer one behind a
\* shorter (tls.rs:48-52).
StartsWithLast(f) ==
  /\ Len(Shown(f)) = longest[f]
  /\ SubSeq(Shown(f), 1, Len(latest[f])) = latest[f]

\* The SNI that is shown starts with the server name of the last hello that was
\* passed whole and keeps within the limits, behind whatever other extensions
\* and fields of any length, and is that name when no longer one came before; a
\* hello cut short, an extension that is too long or too far back, or bytes
\* that an earlier buffer left in the scratch area add nothing (tls.rs:101-221).
SniShown == StartsWithLast("tls_sni")

\* In the same way method, path and host start with those of the last request
\* that had them, as far as it was passed; the host unless a header whose name
\* only ends like Host came before the one that is meant (tls.rs:258-338).
RequestShown ==
  /\ StartsWithLast("http_method") /\ StartsWithLast("http_path")
  /\ ~ misled => StartsWithLast("http_host")

\* The status is the one of the last response whose status line came with its
\* three digits and at least twelve bytes (tls.rs:344-379).
StatusShown ==
  LET digits == latest["http_status"] IN
  row.http_status = IF digits = <<>> THEN 0
                    ELSE 100 * (digits[1] - 48) + 10 * (digits[2] - 48) + digits[3] - 48

\* The last byte of every array stays zero, so that the accessors find a NUL and
\* never fall back on the empty text (tls.rs:283, 288, 317; lib.rs:219).
TextsEnd ==
  /\ \A f \in {"tls_sni", "http_host", "http_path"} : row[f][TextLen - 1] = 0
  /\ row.http_method[MethodLen - 1] = 0

\* lib.rs:94-97: "TLS SNI", "HTTP Host header", "GET, POST, etc.", "request
\* path".  A text that is shown is that of one hello or request, the last.
ShowsTheLast == \A f \in Texts : Shown(f) = latest[f]
=============================================================================
