----------------------------- MODULE MCTlsParse -----------------------------
(* Messages with every part at its shortest, at its limit and past it, each *)
(* passed in all its lengths, two calls after each other.                   *)
EXTENDS TlsParse, SequencesExt

Part(name, bytes) == [name |-> name, bytes |-> bytes]
Glue(bytes) == Part("glue", bytes)
Zeros(n) == [i \in 1..n |-> 0]

\* n letters that no parser looks for, from the one numbered c on.
Letters(c, n) == [i \in 1..n |-> c + i]

\* The parts one after another, and where the first one with a name is.
BytesOf(parts) == FlattenSeq([i \in DOMAIN parts |-> parts[i].bytes])
Place(parts, name) ==
  LET named == {i \in DOMAIN parts : parts[i].name = name}
      before == Len(BytesOf(SubSeq(parts, 1, Least(named) - 1)))
  IN IF named = {} THEN [first |-> 1, last |-> 0]
     ELSE [first |-> before + 1, last |-> before + Len(parts[Least(named)].bytes)]

\* Where all with a name are.
Places(parts, name) ==
  LET named == SelectSeq([i \in DOMAIN parts |-> i], LAMBDA i : parts[i].name = name)
  IN [k \in DOMAIN named |-> Len(BytesOf(SubSeq(parts, 1, named[k] - 1))) + 1]
Of(parts) ==
  [bytes |-> BytesOf(parts),
   parts |-> [f \in Fields |-> Place(parts, f)],
   exts |-> Places(parts, "ext")]

\* A block of the parts, behind its length in k bytes.
Block(k, parts) == <<Glue(Zeros(k - 1) \o <<Len(BytesOf(parts))>>)>> \o parts

\* An extension without meaning, of n bytes, and one with a name.
OtherExt(n) == <<Part("ext", <<0, 10>>)>> \o Block(2, <<Glue(Zeros(n))>>)
NameExt(name) ==
  <<Part("ext", <<0, 0>>)>> \o Block(2, Block(2, <<Glue(<<0>>)>> \o Block(2, <<Part("tls_sni", name)>>)))

\* A hello with a session id of s bytes and cipher suites of c bytes.
Hello(within, s, c, exts) ==
  LET body == <<Glue(Zeros(2 + RandomLen))>> \o Block(1, <<Glue(Zeros(s))>>)
                \o Block(2, <<Glue(Zeros(c))>>) \o Block(1, <<Glue(<<0>>)>>) \o Block(2, exts)
      hello == Of(<<Glue(<<22, 3, 1>>)>> \o Block(2, <<Glue(<<1>>)>> \o Block(3, body)))
  IN IF within THEN hello ELSE [hello EXCEPT !.parts["tls_sni"] = [first |-> 1, last |-> 0]]

Hellos ==
  {Hello(TRUE, 1, 2, OtherExt(0) \o NameExt(Letters(96, 2))),
   Hello(TRUE, 0, 0, NameExt(Letters(98, 1))),
   Hello(TRUE, 0, 0, OtherExt(7)),
   Hello(FALSE, 2, 0, NameExt(Letters(99, 1))),
   Hello(FALSE, 0, 3, NameExt(Letters(99, 1))),
   Hello(FALSE, 0, 0, NameExt(Letters(99, 3))),
   Hello(FALSE, 0, 0, OtherExt(4) \o NameExt(Letters(99, 2))),
   Hello(FALSE, 0, 0, OtherExt(0) \o OtherExt(0) \o NameExt(Letters(99, 1)))}

\* A request line, then headers: a name that ends like Host, and a value.
LineEnd == <<CR, LF>>
Header(like, name, value) ==
  <<Glue(LineEnd \o like \o <<72, 111, 115, 116, 58, SP>>), Part(name, value)>>
Request(method, path, headers) ==
  Of(<<Part("http_method", method), Glue(<<SP>>), Part("http_path", path), Glue(<<SP, 49>>)>>
       \o headers \o <<Glue(LineEnd)>>)

Requests ==
  {Request(<<71, 69, 84>>, Letters(100, 2), Header(<<>>, "http_host", Letters(102, 1))),
   Request(<<80, 79, 83, 84>>, Letters(104, 4), Header(<<>>, "http_host", Letters(108, 2))),
   Request(<<80, 85, 84>>, Letters(110, 1),
           Header(<<88, 45>>, "like_host", Letters(111, 1)) \o Header(<<>>, "http_host", Letters(112, 1))),
   Request(<<80, 65, 84>>, Letters(113, 1),
           Header(<<>>, "http_host", Letters(114, 1)) \o Header(<<88, 45>>, "like_host", Letters(115, 2))),
   Request(<<72, 69, 65, 68>>, Letters(106, 12), Header(<<>>, "far_host", Letters(112, 1))),
   Request(<<79, 80, 84>> \o Letters(72, 5), Letters(112, 1), <<>>),
   Of(<<Part("http_method", <<68, 69, 76, 69>>)>>)}

Response(name, version, status) ==
  Of(<<Glue(HttpSlash \o version \o <<SP>>), Part(name, status), Glue(<<SP, 79>>)>>)

Responses ==
  {Response("http_status", <<49>>, <<50, 48, 48>>),
   Response("http_status", <<49, 46, 49, 49>>, <<52, 48, 52>>),
   Response("http_status", <<49, 46, 49, 49>>, <<53, 48, 51>>),
   Response("none", <<49>>, <<52, 120, 52>>)}

\* Requests whose methods differ in length and nothing else does.
MCTwoRequests ==
  {Request(<<80, 79, 83, 84>>, Letters(104, 1), <<>>), Request(<<71, 69, 84>>, Letters(104, 1), <<>>)}

MCWritten == Hellos \cup Requests
MCReceived == Responses
=============================================================================
