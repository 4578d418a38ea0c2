-------------------------- MODULE MCEndpointFilter --------------------------
(* Small instances of EndpointFilter for TLC.                              *)
EXTENDS EndpointFilter, TLC

\* Two addresses in two spellings, one of them of two colons.
Brief == <<"fe80", ":", ":", "c299">>
BriefZero == <<"fe80", ":", "0", ":", ":", "c299">>
Long == <<"fe80", ":", ":", "2ef0", ":", "c299">>
LongZero == <<"fe80", ":", "0", ":", ":", "2ef0", ":", "c299">>
V6Addresses == {Brief, BriefZero, Long, LongZero}
Netip == [a \in V6Addresses |-> IF a \in {Brief, BriefZero} THEN Brief ELSE Long]

Hosts == {<<"yeet.com">>, <<"127.0.0.1">>}
             \cup {Bracketed(a) : a \in V6Addresses}
SomeProxies == [host : Hosts, port : {"1080"}, auth : {<<>>, <<"user", ":", "pass">>}]
                 \cup [host : {<<"yeet.com">>}, port : {"1080"}, auth : {<<"user", ":", "1234">>}]

\* What is left of a line when parts of it are missing or too many, and every
\* short line of names, numbers and marks.
Parts == {<<>>, <<"yeet.com">>, <<"1080">>, <<":">>, <<"@">>}
ShortLines == {a \o b \o c \o d \o e : a, b, c, d, e \in Parts}
BrokenLines ==
  {Bracketed(Long) \o l : l \in {<<":", "99999">>, <<":", "1080", ":", "user">>, <<"1080">>,
                                 <<":", "yeet.com">>, <<":", "1080", ":", "user", ":">>}}
    \cup {<<"user", ":", "pass", "@">> \o Bracketed(Long) \o <<":", "1080">>,
          <<"user", ":", "pass", "@">> \o Bracketed(Brief) \o <<":", "1080">>,
          <<"user", ":", "pass", ":", "x", "@", "yeet.com">>,
          <<"x", "@", "user", ":", "pass", "@", "yeet.com", ":", "1080">>,
          <<"yeet.com", ":", "99999">>, <<"user", ":", "pass", ":", "yeet.com", ":", "99999">>,
          <<"user", ":", "pass", ":", "yeet.com", ":", "1080">>,
          <<"user", ":", "1234", ":", "yeet.com", ":", "1080">>,
          <<"[", "yeet.com", ":", "1080">>, <<"user", ":", "pass", "@", "]", "yeet.com", ":", "1080">>}
SomeLines == ShortLines \cup BrokenLines

\* Files as the docs show them, with an empty line.
SomeFiles == {<<<<"yeet.com", ":", "1080">>, <<>>>>,
              <<<<"yeet.com", ":", "1080", ":", "user", ":", "pass">>>>}
=============================================================================
