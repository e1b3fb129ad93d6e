------------------------------ MODULE MCCodecs ------------------------------
(***************************************************************************)
(* The encoders and decoders of the repository, each run on all its small  *)
(* inputs: given is encoded, the wire may be damaged, and what is on the   *)
(* wire is decoded.  part says which of them a behaviour exercises.        *)
(***************************************************************************)
EXTENDS Base64, SdsText, FiniteSetsExt

CONSTANTS MaxData, Slack

Php  == INSTANCE PhpHelper
Cfg  == INSTANCE ConfigTree
Z    == INSTANCE Compress
Hash == INSTANCE RedisHashes
Rpc  == INSTANCE MapService

VARIABLES part, given, wire, got, stage
vars == <<part, given, wire, got, stage>>

SeqsUpTo(S, n) == UNION {[1..k -> S] : k \in 0..n}

-----------------------------------------------------------------------------
(* Base64, the two codecs *)

Base64Inputs == [codec : {"url", "std"}, bytes : SeqsUpTo({0, 107, 255}, 4)]
Base64Wire(g) == IF g.codec = "url" THEN base64_encode_string(g.bytes).out
                 ELSE Base64_encode(g.bytes, 4 * ((Len(g.bytes) + 2) \div 3)).out
Base64Damaged(w) == IF w = <<>> THEN {}
                    ELSE ({Front(w)} \cup {[w EXCEPT ![i] = c] : i \in DOMAIN w,
                                             c \in {Pad, 42, 66}}) \ {w}
Base64Got(g, w) == IF g.codec = "url" THEN base64_decode(w, (Len(w) * 3) \div 4)
                   ELSE Base64_decode(w, (Len(w) * 3) \div 4)

\* Letters, at least two, and then padding up to four.
UrlGroup(q) == \E n \in 2..4 : \A i \in 1..4 : IF i <= n THEN CHAR64(q[i]) # XX ELSE q[i] = Pad

Base64Right(g, w, damaged, r) ==
    /\ ~damaged => r = Succeeded(g.bytes)
    /\ damaged /\ g.codec = "url" =>
         (r.ok <=> Len(w) % 4 = 0 /\ \A i \in DOMAIN Groups(w, 4) : UrlGroup(Groups(w, 4)[i]))
    /\ r.ok => Len(r.out) <= (Len(w) * 3) \div 4
    /\ r.ok /\ g.codec = "url" =>
         base64_decode_string(w).out =
           r.out \o [i \in 1..((Len(w) * 3) \div 4 - Len(r.out)) |-> NUL]

-----------------------------------------------------------------------------
(* sds: quoting, splitting, numbers and formatted text *)

QuoteInputs == SeqsUpTo({0, 9, 34, 92, 97, 120, 200}, 3)

QuoteRight(g, r) ==
    /\ r = [ok |-> TRUE, argv |-> <<g>>]
    /\ sdsmapchars(sdsmapchars(g, <<97, 9>>, <<9, 1>>), <<1, 9>>, <<9, 97>>) = g
    /\ sdsjoin(<<g, g>>, <<1>>) = sdsjoinsds(<<CStr(g), CStr(g)>>, <<1>>)

SplitInputs == [s : SeqsUpTo({1, 2}, 5), sep : {<<1>>, <<1, 2>>, <<1, 1>>}, dst : {<<>>, <<1, 1>>}]
Splits(s, sep) == \E i \in 1..Len(s) : i + Len(sep) - 1 <= Len(s)
                                         /\ SubSeq(s, i, i + Len(sep) - 1) = sep
SplitRight(g, w, r) ==
    /\ r = g.s
    /\ \A i \in DOMAIN w : ~Splits(w[i], g.sep)
    /\ Php!StringReplaceAll(g.s, g.sep, g.dst) = sdsjoinsds(w, g.dst)
    /\ Php!Split(g.s, g.sep) = IF w # <<>> /\ Last(w) = <<>> THEN Front(w) ELSE w

Numbers == (-2^(Bits - 1))..(2^(Bits - 1) - 1)
NumberRight(g, w, r) == r = g /\ w = sdsfromlonglong(g) /\ (g >= 0 => w = sdsull2str(g))

Texts == [n : 0..20, s : {<<>>, <<98>>}]

-----------------------------------------------------------------------------
(* Parameters name=value&...: bare says where a name without '=' stands.     *)

ParamInputs == [pairs : SeqsUpTo({<<97>>, <<>>} \X {<<>>, <<61, 99>>, <<100>>}, 3),
                bare : {"none", "first", "last"}, closed : BOOLEAN]
ParamItems(g) ==
    LET items == [i \in DOMAIN g.pairs |-> g.pairs[i][1] \o <<61>> \o g.pairs[i][2]]
    IN  CASE g.bare = "none"  -> items
          [] g.bare = "first" -> <<<<98>>>> \o items
          [] g.bare = "last"  -> items \o <<<<98>>>>
ParamWire(g) == sdsjoinsds(ParamItems(g) \o (IF g.closed /\ ParamItems(g) # <<>>
                                              THEN <<<<>>>> ELSE <<>>), <<38>>)
\* An item without a name is an error where a separator ends it.
ParamRight(g, r) ==
    LET refused == g.bare # "none" /\ (g.closed \/ (g.bare = "first" /\ g.pairs # <<>>))
        last(n) == Max({i \in DOMAIN g.pairs : g.pairs[i][1] = n})
    IN  IF refused THEN r.ret = -2
        ELSE /\ r.ret = Len(g.pairs)
             /\ r.params = [n \in {g.pairs[i][1] : i \in DOMAIN g.pairs} |-> g.pairs[last(n)][2]]

-----------------------------------------------------------------------------
(* PHP serialisation *)

V(t, v) == [t |-> t, v |-> v]
PhpStrings == {<<>>, <<97>>, <<97, 59>>, <<32, 34>>}
PhpValues == {V("string", s) : s \in PhpStrings} \cup {V("int", n) : n \in {-7, 0, 42}}
    \cup {V("double", <<1, 5>>), V("double", <<2, 0>>), V("bool", TRUE), V("bool", FALSE),
          V("null", 0), V("array", <<>>), V("array", <<V("int", 1)>>)}
PhpInputs == {<<<<k, v>>>> : k \in PhpStrings, v \in PhpValues}
    \cup {<<<<<<97>>, v>>, <<<<98>>, x>>>> : v \in PhpValues, x \in PhpValues}
PhpWire(g)   == Php!Serialize(V("object", g))
PhpGot(w)    == Php!UnSerialize(w.out)

\* What the format carries: no separator in a text, no nesting, no null.
PhpFlat(g) == \A i \in DOMAIN g :
    /\ Php!Semi \notin ToSet(g[i][1])
    /\ g[i][2].t \in {"string", "int", "double", "bool"}
    /\ g[i][2].t = "string" => Php!Semi \notin ToSet(g[i][2].v)
PhpRight(g, w, r) ==
    IF w.ok /\ PhpFlat(g) THEN r.ret = 0 /\ r.target = g ELSE r.ret = -1

-----------------------------------------------------------------------------
(* The configuration tree: a file is loaded, a path set, the tree saved and  *)
(* loaded again.                                                             *)

ConfigLines == {Cfg!LineOf(i, "pair", k, "v") : i \in 0..2, k \in {"a", "b"}}
    \cup {Cfg!LineOf(0, k, "", "c") : k \in {"comment", "empty", "noseparator"}}
ConfigInputs == [lines : SeqsUpTo(ConfigLines, 4), path : {<<"a">>, <<"b", "a">>}]
ConfigWire(g) ==
    LET r == Cfg!load(g.lines)
    IN  IF r.ok THEN Cfg!save(Cfg!set(r.nodes, g.path, "new"), 1) ELSE <<>>
ConfigGot(w) == Cfg!load(w)

\* The pairs of a file: which of them are its valid lines, and of each the
\* nearest earlier one that is indented less, 0 for the root.
Pairs(lines) == SelectSeq(lines, LAMBDA l : l.kind = "pair")
Above(ps, i) == LET less == {j \in 1..(i - 1) : ps[j].indent < ps[i].indent}
                IN  IF less = {} THEN 0 ELSE Max(less)
ValidFile(lines) ==
    /\ \A i \in DOMAIN lines : lines[i].kind # "noseparator"
    /\ \A i \in DOMAIN Pairs(lines) :
         Pairs(lines)[i].indent <= 1 + (IF i = 1 THEN 0 ELSE Pairs(lines)[i - 1].indent)
PairNodes(nodes) == SelectSeq([i \in 1..Len(nodes) |-> i],
                              LAMBDA i : i > 1 /\ ~Cfg!is_comment(nodes[i]))
NestedAsIndented(lines, nodes) ==
    LET ps == Pairs(lines)
        pn == PairNodes(nodes)
    IN  /\ Len(pn) = Len(ps)
        /\ \A i \in DOMAIN ps :
             /\ nodes[pn[i]].key = ps[i].key
             /\ nodes[pn[i]].parent = IF Above(ps, i) = 0 THEN 1 ELSE pn[Above(ps, i)]
ConfigRight(g, w, r) ==
    LET first == Cfg!load(g.lines)
    IN  /\ first.ok <=> ValidFile(g.lines)
        /\ first.ok => /\ NestedAsIndented(g.lines, first.nodes)
                       /\ r.ok /\ Cfg!save(r.nodes, 1) = w
                       /\ Cfg!get_str(r.nodes, g.path) = "new"
                       /\ \A p \in {<<"b">>, <<"a", "b">>, <<"b", "b">>} :
                            Cfg!get_str(r.nodes, p) =
                              Cfg!get_str(Cfg!set(first.nodes, g.path, "new"), p)

-----------------------------------------------------------------------------
(* Compression.  n bytes become c, bound is the caller's guess of n.         *)

ZMethods == Z!Methods \cup {"GZip", "ZLib", "zlib_uncompress", "HuffManCode"}
ZipInputs == {g \in [method : ZMethods, n : 0..(MaxData + 1), c : 1..(MaxData + 1 + Slack),
                     bound : 0..(MaxData + 1)] : g.c <= g.n + Slack}
ZipWire(g) == CASE g.method = "GZip" -> Z!GZipCompress(g.n, g.c)
                [] g.method = "ZLib" -> Z!ZLibCompress(g.n, g.c, Z!ZLibCompressBound(g.n))
                [] g.method = "HuffManCode" -> Z!HuffManCompressTo(g.n, g.c, MaxData)
                [] g.method = "zlib_uncompress" -> Z!Result(TRUE, Z!Packed(g.c, g.n), FALSE)
                [] OTHER -> Z!CompressorCompress(g.method, g.n, g.c)
ZipDamaged(g, w) ==
    CASE ~w.ok -> {}
      [] w.ok /\ g.method = "GZip" ->
             {[w EXCEPT !.out.head.magic = FALSE], [w EXCEPT !.out.head.method = FALSE],
              [w EXCEPT !.out.head.reserved = TRUE], [w EXCEPT !.out.head.options = 3],
              [w EXCEPT !.out.crc = @ + 1], [w EXCEPT !.out.isize = @ + 1],
              [w EXCEPT !.out.body.intact = FALSE]}
      [] w.ok /\ g.method = "ZLib" ->
             {[w EXCEPT !.out.size = @ + 1], [w EXCEPT !.out.size = 0],
              [w EXCEPT !.out.body.intact = FALSE]}
      [] OTHER -> IF w.out.len = 0 THEN {} ELSE {[w EXCEPT !.out.intact = FALSE]}
ZipGot(g, w) == CASE g.method = "GZip" -> Z!GZipUncompress(w.out)
                  [] g.method = "ZLib" -> Z!ZLibUncompress(w.out, Z!ZLibUncompressBound(w.out))
                  [] g.method = "HuffManCode" -> Z!HuffManUncompressTo(w.out, MaxData)
                  [] g.method = "zlib_uncompress" -> Z!zlib_uncompress(w.out, g.bound, 4)
                  [] OTHER -> Z!CompressorUncompress(g.method, w.out, g.bound)

\* The caller's bound is 0 or large enough, and the data within the limit.
Bounded(g) == /\ g.bound = 0 \/ g.bound >= g.n
              /\ g.n <= MaxData /\ (g.method = "HuffManCode" => g.n > 0)
Harmless(g, w) == \/ g.method = "GZip" /\ w.out = [w.out EXCEPT !.head = [Z!GzHeader EXCEPT !.options = 3]]
                  \/ g.method = "ZLib" /\ w.out.body.intact /\ w.out.size >= g.n
ZipRight(g, w, damaged, r) ==
    w.ok => /\ ~damaged /\ Bounded(g) => r.ok /\ r.out = Z!Data(g.n, TRUE) /\ ~r.leak
            /\ ~damaged /\ r.ok /\ g.method # "kHuffman" => r.out = Z!Data(g.n, TRUE)
            /\ damaged /\ Bounded(g) /\ g.method # "kNoCompress" => (r.ok <=> Harmless(g, w))
            /\ g.method = "GZip" => ~w.out.overrun
            /\ ~w.leak

-----------------------------------------------------------------------------
(* Redis hashes: a multi-key write, perhaps a delete, and a multi-key read.  *)

HashKeys == {1, 2}
Tries == {<<a, b>> : a \in {Hash!Answered, 0, 1}, b \in {Hash!Answered, 0}}
HashInputs == [pairs : {<<>>, <<<<1, 7>>>>, <<<<0, 5>>, <<1, 6>>, <<2, 8>>>>, <<<<1, 0>>, <<3, 9>>>>},
               fields : {<<1>>, <<1, 2, 3>>, <<0, 1, 2>>, <<0>>},
               set : Tries, read : Tries]
OldHash == [f \in {2} |-> 4]
HashWire(g) == Hash!MultiHashMSet([k \in HashKeys |-> OldHash],
                   (1 :> g.pairs) @@ (2 :> <<<<1, 3>>>>),
                   (1 :> g.set) @@ (2 :> <<Hash!Answered, 0>>), 2)
\* A delete of field 1 of the first key comes in between.
HashDamaged(g, w) ==
    {[w EXCEPT !.store = Hash!MultiHashMDel(@, 1 :> <<1>>, 1 :> g.read, 2).store]}
HashGot(g, w) ==
    [some |-> Hash!MultiHashMGet(w.store, (1 :> g.fields) @@ (2 :> <<1, 2>>),
                  (1 :> g.read) @@ (2 :> <<0, Hash!Answered>>), 2),
     all |-> Hash!HGetAll(w.store[1], 1, g.read, 2)]

Exactly(hash, fields) == [f \in DOMAIN hash \cap ToSet(fields) |-> hash[f]]
HashRight(g, w, r) ==
    LET tried(o) == \E i \in 1..2 : o[i] = Hash!Answered
    IN  /\ w.failed = {k \in {1} : ~tried(g.set) /\ g.pairs # <<>>}
        /\ r.some.failed = {k \in {1} : ~tried(g.read) \/ g.fields = <<0>>}
        /\ r.some.ret <=> r.some.failed = {}
        /\ 0 \notin ToSet(g.fields) =>
             r.some.values[1] = Exactly(IF tried(g.read) THEN w.store[1] ELSE <<>>, g.fields)
        /\ r.some.values[2] = Exactly(w.store[2], <<1, 2>>)
        /\ r.all.ret => r.all.values = w.store[1]
        /\ stage = "decoded" /\ 1 \notin w.failed =>
             \A i \in DOMAIN Hash!Valid(g.pairs) :
                 LET p == Hash!Valid(g.pairs)[i] IN w.store[1][p[1]] = p[2]

-----------------------------------------------------------------------------
(* One call over the generated Thrift code.                                  *)

Req == [Rpc!NewComputeReq EXCEPT !.jobId = 5, !.oidList = <<1, 2>>]
Rsp == [Rpc!NewComputeResp EXCEPT !.data = "answer"]
Handlers == {[kind |-> "return", rsp |-> Rsp],
             [kind |-> "ServiceException", se |-> [errorMsg |-> "no"]], [kind |-> "other"],
             Rpc!HandlerCompute(Req)}
RpcInputs == [handler : Handlers, async : BOOLEAN,
              reply : {"kept", "lost", "renamed", "cut", "extended"}]
RpcWire(g) == IF g.async THEN Rpc!CobSendCompute(Req) ELSE Rpc!SendCompute(Req)
Without(body, i) == [body EXCEPT ![1].val = RemoveAt(@, i)]
Extra(body) == [body EXCEPT ![1].val = <<Rpc!Fld(9, "I32", 0), Rpc!Fld(1, "I64", 0)>> \o @]
RpcDamaged(w) == <<[w EXCEPT !.name = "other"], [w EXCEPT !.body = <<>>],
                   [w EXCEPT !.body = Extra(@)]>>
                   \o [i \in 1..6 |-> [w EXCEPT !.body = Without(@, i)]]
Served(g, w) == IF g.async THEN Rpc!AsyncDispatchCall(w, g.handler)
                ELSE [written |-> Rpc!DispatchCall(w, g.handler), cob |-> <<TRUE>>]
OnTheWay(g, msgs) ==
    CASE msgs = <<>> \/ g.reply = "lost" -> <<>>
      [] msgs # <<>> /\ g.reply = "renamed" -> <<[msgs[1] EXCEPT !.name = "other"]>>
      [] msgs # <<>> /\ g.reply = "cut" /\ msgs[1].body # <<>> ->
             <<[msgs[1] EXCEPT !.body = Without(@, 1)]>>
      [] msgs # <<>> /\ g.reply = "extended" /\ msgs[1].body # <<>> ->
             <<[msgs[1] EXCEPT !.body = Extra(@)]>>
      [] OTHER -> msgs
RpcGot(g, w) == LET s == Served(g, w)
                IN  [cob |-> s.cob, asked |-> Rpc!Asked(w),
                     client |-> Rpc!CobRecvCompute(OnTheWay(g, s.written)),
                     sync |-> Rpc!RecvCompute(OnTheWay(g, s.written))]

\* What the handler must be asked, and what the caller must see: the handler's
\* answer, or an exception that tells why there is none.
RpcRight(g, w, damaged, r) ==
    LET unread == damaged /\ w.body # <<>> /\ Len(w.body[1].val) < 6
        other  == w.name # "compute"
        answer == CASE unread \/ g.reply = "lost" -> Rpc!Threw("END_OF_FILE")
                    [] ~unread /\ g.reply # "lost" /\ (other \/ g.handler.kind = "other") ->
                           Rpc!Threw("TApplicationException")
                    [] OTHER ->
                        CASE g.reply = "renamed" -> Rpc!Threw("END_OF_FILE")
                          [] g.reply = "cut" -> Rpc!Threw("INVALID_DATA")
                          [] g.reply \in {"kept", "extended"} ->
                               IF g.handler.kind = "return" THEN Rpc!Returned(g.handler.rsp)
                               ELSE Rpc!Threw("ServiceException")
    IN  /\ r.sync = answer /\ r.client.out = answer
        /\ r.asked = IF unread \/ other THEN <<>>
                     ELSE <<IF w.body = <<>> THEN Rpc!NewComputeReq ELSE Req>>
        /\ Len(r.client.completed) = 1
        /\ Len(r.cob) = 1 /\ (unread /\ g.async => r.cob = <<FALSE>>)

-----------------------------------------------------------------------------
Init ==
    /\ wire = <<>> /\ got = <<>> /\ stage = "given"
    /\ \/ part = "base64"   /\ given \in Base64Inputs
       \/ part = "quote"    /\ given \in QuoteInputs
       \/ part = "split"    /\ given \in SplitInputs
       \/ part = "number"   /\ given \in Numbers
       \/ part = "printf"   /\ given \in Texts
       \/ part = "params"   /\ given \in ParamInputs
       \/ part = "php"      /\ given \in PhpInputs
       \/ part = "config"   /\ given \in ConfigInputs
       \/ part = "compress" /\ given \in ZipInputs
       \/ part = "hashes"   /\ given \in HashInputs
       \/ part = "rpc"      /\ given \in RpcInputs

WireOf(g) ==
    CASE part = "base64"   -> Base64Wire(g)
      [] part = "quote"    -> sdscatrepr(<<>>, g)
      [] part = "split"    -> sdssplitlen(g.s, g.sep)
      [] part = "number"   -> sdsll2str(g)
      [] part = "printf"   -> [i \in 1..g.n |-> 97]
      [] part = "params"   -> ParamWire(g)
      [] part = "php"      -> PhpWire(g)
      [] part = "config"   -> ConfigWire(g)
      [] part = "compress" -> ZipWire(g)
      [] part = "hashes"   -> HashWire(g)
      [] part = "rpc"      -> RpcWire(g)

Damages(g, w) ==
    CASE part = "base64"   -> Base64Damaged(w)
      [] part = "compress" -> ZipDamaged(g, w)
      [] part = "hashes"   -> HashDamaged(g, w)
      [] OTHER -> {}

GotFrom(g, w) ==
    CASE part = "base64"   -> Base64Got(g, w)
      [] part = "quote"    -> sdssplitargs(w)
      [] part = "split"    -> sdsjoinsds(w, g.sep)
      [] part = "number"   -> Php!atoi(w)
      [] part = "printf"   -> sdscatprintf(g.s, w)
      [] part = "params"   -> Php!ParseParameter(w, 61, 38)
      [] part = "php"      -> PhpGot(w)
      [] part = "config"   -> ConfigGot(w)
      [] part = "compress" -> IF w.ok THEN ZipGot(g, w) ELSE <<>>
      [] part = "hashes"   -> HashGot(g, w)
      [] part = "rpc"      -> RpcGot(g, w)

Encode == /\ stage = "given"
          /\ stage' = "encoded" /\ wire' = WireOf(given)
          /\ UNCHANGED <<part, given, got>>

Damage == /\ stage = "encoded"
          /\ IF part = "rpc"
             THEN \E i \in DOMAIN RpcDamaged(wire) : wire' = RpcDamaged(wire)[i]
             ELSE wire' \in Damages(given, wire)
          /\ stage' = "damaged"
          /\ UNCHANGED <<part, given, got>>

Decode == /\ stage \in {"encoded", "damaged"}
          /\ stage' = IF stage = "encoded" THEN "decoded" ELSE "decoded damaged"
          /\ got' = GotFrom(given, wire)
          /\ UNCHANGED <<part, given, wire>>

Next == Encode \/ Damage \/ Decode
Spec == Init /\ [][Next]_vars

-----------------------------------------------------------------------------
Over(p)    == part = p /\ stage \in {"decoded", "decoded damaged"}
IsDamaged  == stage = "decoded damaged"




\* A Thrift call gives the handler the request that was sent and ends in the
\* handler's answer or in the exception that says why there is none, with one completion at the client and one at the server,
\* whichever fields the messages lost or gained on the way.
RpcOutcome == Over("rpc") => RpcRight(given, wire, IsDamaged, got)

=============================================================================
