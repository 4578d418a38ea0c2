---------------------------- MODULE EndpointFilter ----------------------------
(***************************************************************************)
(* filter (parse.go), which reads a line that names a proxy and writes its *)
(* endpoint, and the two ways lines get on record (list_management.go):    *)
(* LoadSingleProxy, which filters, and LoadMultiLineString, which does     *)
(* not.  Intake says what becomes of the records.                          *)
(*                                                                         *)
(* A line is a sequence of tokens: the marks filter splits at, and words,  *)
(* of which only what dns.IsDomainName, strconv.Atoi and                   *)
(* netip.ParseAddrPort say of them matters.                                *)
(***************************************************************************)
EXTENDS Naturals, Sequences, FiniteSets

CONSTANTS
  Words,       \* the tokens that are no mark
  V4,          \* words that are IPv4 addresses
  V6, CanonV6, \* IPv6 addresses, sequences of tokens, and how netip writes them
  Numbers,     \* words that are numbers
  Ports,       \* those that are ports
  Proxies,     \* the proxies to load, with the fields host, port and auth
  OtherLines,  \* lines that need not name one
  Files,       \* sequences of lines for LoadMultiLineString
  MaxRecords   \* bound: lines are loaded while there are fewer records

VARIABLES
  proxyMap,  \* the endpoints on record
  last       \* the last line LoadSingleProxy was given, and what filter said

vars == <<proxyMap, last>>

-----------------------------------------------------------------------------
(* strings, dns and netip.                                                 *)

Cuts(s, sep) ==
  {i \in 1..(Len(s) + 1 - Len(sep)) : SubSeq(s, i, i + Len(sep) - 1) = sep}

Has(s, sep) == Cuts(s, sep) # {}

\* The k-th number of a set.
Nth(S, k) == CHOOSE i \in S : Cardinality({j \in S : j < i}) = k - 1

Split(s, sep) ==
  LET cut == Cuts(s, sep)
      n == Cardinality(cut)
  IN  [k \in 1..(n + 1) |->
         SubSeq(s, IF k = 1 THEN 1 ELSE Nth(cut, k - 1) + Len(sep),
                   IF k = n + 1 THEN Len(s) ELSE Nth(cut, k) - 1)]

\* Anything that is not empty may be a name, brackets and addresses too.
IsDomainName(s) == s # <<>>
isNumber(s) == Len(s) = 1 /\ s[1] \in Numbers

Bracketed(a) == <<"[">> \o a \o <<"]">>
AddrPorts == {a \o <<":", p>> : a \in {<<b>> : b \in V4} \cup {Bracketed(b) : b \in V6},
                                p \in Ports}
ParseAddrPort(s) == s \in AddrPorts

\* combo.String()
Canon(s) ==
  IF Has(s, <<"]">>)
  THEN Bracketed(CanonV6[SubSeq(s, 2, Len(s) - 3)]) \o <<":", s[Len(s)]>>
  ELSE s

Marks == {":", "@", "[", "]"}
Tokens == Words \cup Marks

\* An address in which two colons side by side are all there are, like fe80::1.
Short(a) ==
  \E i \in 1..Len(a) :
    LET b == SubSeq(a, 1, i - 1)
        c == SubSeq(a, i + 2, Len(a))
    IN  b \in Seq(Words) /\ c \in Seq(Words) /\ a = b \o <<":", ":">> \o c

\* An IPv6 address has two colons at least, and a proxy has a name or an address,
\* a port, and a user and password or neither.
ASSUME FilterAssumption ==
  /\ Words \cap Marks = {}
  /\ V4 \subseteq Words /\ Numbers \subseteq Words /\ Ports \subseteq Numbers
  /\ V6 \subseteq Seq(Words \cup {":"})
  /\ \A a \in V6 : Short(a) \/ Cardinality(Cuts(a, <<":">>)) >= 3
  /\ CanonV6 \in [V6 -> V6]
  /\ \A p \in Proxies :
       /\ \/ Len(p.host) = 1 /\ p.host \in Seq(Words)
          \/ \E a \in V6 : p.host = Bracketed(a)
       /\ p.port \in Ports
       /\ \/ p.auth = <<>>
          \/ /\ Len(p.auth) = 3 /\ p.auth \in Seq(Tokens)
             /\ p.auth[1] \in Words /\ p.auth[2] = ":" /\ p.auth[3] \in Words
  /\ OtherLines \subseteq Seq(Tokens)
  /\ Files \subseteq Seq(Seq(Tokens))
  /\ MaxRecords \in Nat

-----------------------------------------------------------------------------
(* filter.                                                                 *)

\* What it returns: "ok" says that the endpoint is to be used, even an empty one.
Ok(e) == [says |-> "ok", ep |-> e]
No == [says |-> "no", ep |-> <<>>]
Panic == [says |-> "panic", ep |-> <<>>]

\* Mutant: a user is enough.
buildProxyStringNoPass(user, pass, addr, port) ==
  (IF user # <<>> THEN user \o <<":">> \o pass \o <<"@">> ELSE <<>>)
    \o addr \o <<":">> \o port

buildProxyString(user, pass, addr, port) ==
  (IF user # <<>> /\ pass # <<>> THEN user \o <<":">> \o pass \o <<"@">> ELSE <<>>)
    \o addr \o <<":">> \o port

\* Mutant: the user and password are read before the fields are counted.
filterv6Eager(in) ==
  LET split == Split(in, <<"]", ":">>)
      rest == Split(split[2], <<":">>)
      addr == Append(split[1], "]")
  IN  IF Len(split) < 2 THEN No
      ELSE IF ~ParseAddrPort(buildProxyString(<<>>, <<>>, addr, rest[1])) THEN Ok(<<>>)
      ELSE IF Len(rest) < 3 THEN Panic
      ELSE Ok(buildProxyString(rest[2], rest[3], addr, rest[1]))

\* An index past the end of what Split has returned panics.
filterv6(in) ==
  LET split == Split(in, <<"]", ":">>)
      rest == Split(split[2], <<":">>)
      addr == Append(split[1], "]")
      bare == buildProxyString(<<>>, <<>>, addr, rest[1])
  IN  CASE Len(split) < 2 -> No
        [] Len(split) >= 2 /\ ~ParseAddrPort(bare) -> Ok(<<>>)
        [] Len(split) >= 2 /\ ParseAddrPort(bare) ->
             CASE Len(rest) = 1 -> Ok(Canon(bare))
               [] Len(rest) = 2 -> Panic
               [] OTHER -> Ok(buildProxyString(rest[2], rest[3], addr, rest[1]))

\* host:port, in two fields
filterTwo(in, f) ==
  IF IsDomainName(f[1]) /\ isNumber(f[2]) THEN Ok(in)
  ELSE IF ParseAddrPort(in) THEN Ok(Canon(in)) ELSE No

\* user:pass@host:port, in three
filterThree(in) ==
  LET at == Split(in, <<"@">>)
      auth == Split(at[1], <<":">>)
      serv == Split(at[2], <<":">>)
      named == IsDomainName(serv[1])
  IN  CASE ~Has(in, <<"@">>) \/ ~Has(at[1], <<":">>) -> No
        [] OTHER ->
             IF named /\ Len(serv) < 2 THEN Panic
             ELSE IF (named /\ isNumber(serv[2])) \/ ParseAddrPort(at[2])
             THEN Ok(buildProxyString(auth[1], auth[2], serv[1], serv[2]))
             ELSE filterv6(in)

\* Mutant: only a host in the second half is looked for.
filterFourLate(in, f) ==
  IF IsDomainName(f[3]) /\ isNumber(f[4])
  THEN Ok(buildProxyString(f[1], f[2], f[3], f[4])) ELSE filterv6(in)

\* host:port:user:pass or user:pass:host:port, in four.  What ParseAddrPort takes
\* of a half with one colon, IsDomainName and isNumber take too.
filterFour(in, f) ==
  IF IsDomainName(f[1]) /\ isNumber(f[2])
  THEN Ok(buildProxyString(f[3], f[4], f[1], f[2]))
  ELSE IF IsDomainName(f[3]) /\ isNumber(f[4])
  THEN Ok(buildProxyString(f[1], f[2], f[3], f[4]))
  ELSE filterv6(in)

filter(in) ==
  LET f == Split(in, <<":">>)
  IN  CASE Len(f) = 1 -> No
        [] Len(f) = 2 -> filterTwo(in, f)
        [] Len(f) = 3 -> filterThree(in)
        [] Len(f) = 4 -> filterFour(in, f)
        [] OTHER -> IF Has(in, <<"[">>) /\ Has(in, <<"]", ":">>)
                    THEN filterv6(in) ELSE No

-----------------------------------------------------------------------------
(* The lines, and what filter says of each.                                *)

\* The ways a proxy is written: as in the docs of the loaders, and, for those
\* with a user and no IPv6 address, as in the test withAuthAlt.
Spellings(p) ==
  LET at == p.host \o <<":", p.port>>
  IN  IF p.auth = <<>> THEN {at}
      ELSE {at \o <<":">> \o p.auth}
             \cup IF Has(p.host, <<"[">>) THEN {} ELSE {p.auth \o <<"@">> \o at}

Lines == OtherLines \cup UNION {Spellings(p) : p \in Proxies}

Filtered == [l \in Lines |-> filter(l)]

-----------------------------------------------------------------------------
(* The records.                                                            *)

NoLoad == [line |-> <<>>, says |-> "none"]

TypeOK ==
  /\ proxyMap \in SUBSET Seq(Tokens)
  /\ last.line \in Seq(Tokens) /\ last.says \in {"none", "ok", "no", "panic"}
  /\ last.says = "ok" => Filtered[last.line].ep \in proxyMap

Init == proxyMap = {} /\ last = NoLoad

\* Mutant: the line itself is put on record.
LoadUnfiltered(l) ==
  /\ proxyMap' = IF Filtered[l].says = "ok" THEN proxyMap \cup {l} ELSE proxyMap
  /\ last' = [line |-> l, says |-> Filtered[l].says]

\* It returns TRUE for every line that filter takes, an endpoint that is on
\* record already included: add returns what it finds there.  Intake says that
\* it is queued once more.
LoadSingleProxy(l) ==
  LET r == Filtered[l]
  IN  /\ proxyMap' = IF r.says = "ok" THEN proxyMap \cup {r.ep} ELSE proxyMap
      /\ last' = [line |-> l, says |-> r.says]

LoadMultiLineString(f) ==
  /\ proxyMap' = proxyMap \cup {f[i] : i \in DOMAIN f}
  /\ UNCHANGED last

ClearSOCKSList == proxyMap' = {} /\ last' = NoLoad

\* A panic ends the program.  A refused line changes nothing of the records, and
\* as a bound the next step after it is to clear them.
Next ==
  /\ last.says # "panic"
  /\ \/ /\ last.says # "no" /\ Cardinality(proxyMap) < MaxRecords
        /\ \/ \E l \in Lines : LoadSingleProxy(l)
           \/ \E f \in Files : LoadMultiLineString(f)
     \/ ClearSOCKSList

Spec == Init /\ [][Next]_vars

-----------------------------------------------------------------------------
(* What a record is.                                                       *)

\* The endpoint of a proxy, its address in netip's spelling if it has no user.
Endpoint(p) ==
  IF p.auth # <<>> THEN p.auth \o <<"@">> \o p.host \o <<":", p.port>>
  ELSE IF Has(p.host, <<"[">>) THEN Canon(p.host \o <<":", p.port>>)
  ELSE p.host \o <<":", p.port>>

\* An address like [fe80::1], whose two colons make four fields of the line, with
\* the first two read as a user without a password.
TwoColons(p) == p.auth = <<>> /\ Cardinality(Cuts(p.host, <<":">>)) = 2

Record(p) ==
  IF TwoColons(p) THEN Split(p.host, <<":">>)[3] \o <<":", p.port>> ELSE Endpoint(p)

\* "Expects one of the following formats": no spelling of a proxy is refused or
\* panicked on, and all of them leave the same record, whatever is there already:
\* its endpoint.  A short IPv6 address is in the documented format too, but only
\* what follows its colons becomes the record.
FormatsRead ==
  \A p \in Proxies : \A l \in Spellings(p) :
    last.says # "none" /\ last.line = l => last.says = "ok" /\ Record(p) \in proxyMap

\* Without the marks of an IPv6 address.
Plain(l) == ~Has(l, <<"[">>) /\ ~Has(l, <<"]">>)

\* A name or an IPv4 address and a port, or what netip reads.
HostPort(s) ==
  LET f == Split(s, <<":">>)
  IN  \/ ParseAddrPort(s)
      \/ /\ Len(f) = 2
         /\ f[1] \in Seq(Words) \ {<<>>}
         /\ Len(f[2]) = 1 /\ f[2][1] \in Ports

\* host:port or user:pass@host:port.
Dialable(e) ==
  \/ HostPort(e)
  \/ \E i \in Cuts(e, <<"@">>) :
       LET auth == Split(SubSeq(e, 1, i - 1), <<":">>)
       IN  /\ HostPort(SubSeq(e, i + 1, Len(e)))
           /\ Len(auth) = 2 /\ auth[1] # <<>> /\ auth[2] # <<>>

\* Where filter takes for a name what is none, as any that is not empty passes
\* for one: a mark of an IPv6 address in a line of four fields at most, as in
\* [fe80::1]:1080, or an at sign in one of two or four.
MarkInName(l) ==
  LET n == Len(Split(l, <<":">>))
  IN  (n <= 4 /\ ~Plain(l)) \/ (n \in {2, 4} /\ Has(l, <<"@">>))

\* And for a port a number that is none.
NoPort(l) == \E i \in DOMAIN l : l[i] \in Numbers \ Ports

\* "invalid proxy format": what LoadSingleProxy takes can be dialled, or the line
\* is of three kinds: it has a mark in a name, or a number that is no port, or it
\* is like an IPv6 one that netip does not read, and its endpoint empty.  An
\* endpoint has no mark of an IPv6 address that its line has not.
TakenDialable ==
  last.says = "ok" =>
    LET l == last.line
        e == Filtered[l].ep
    IN  /\ \/ Dialable(e) \/ MarkInName(l) \/ NoPort(l)
           \/ e = <<>> /\ Has(l, <<"]", ":">>)
        /\ Plain(l) => Plain(e)

\* "Expects one of the following formats", of the lines no proxy was written from:
\* one that can be dialled as it stands is neither refused nor panicked on, unless
\* there is an at sign in its user or password.
DialableTaken ==
  last.says \in {"no", "panic"} =>
    ~Dialable(last.line) \/ Cardinality(Cuts(last.line, <<"@">>)) > 1
=============================================================================
