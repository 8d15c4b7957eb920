------------------------------ MODULE PoolUri -------------------------------
(***************************************************************************)
(* The addresses of the command line: URI::URI (PoolURI.cpp), the list of  *)
(* pools that validateArgs makes of the -P arguments and ParseBind for     *)
(* --api-bind (main.cpp).                                                  *)
(*                                                                         *)
(* A text is a sequence of tokens: a word, or one of the characters that   *)
(* mean something to the parser.  "%2e" and the like are one token.  A     *)
(* numeric word is a number as a record.                                   *)
(***************************************************************************)
EXTENDS Integers, Sequences, SequencesExt

Word(w) == [word |-> w]
Number(n) == [number |-> n]
IsNumber(t) == DOMAIN t = {"number"}
Mark(i) == [mark |-> i]                 \* "_0", "_1" ... for text in backticks
Char(c) == [char |-> c]                 \* . : @ / ? # tick + and what they decode to
Encoded(c) == [encoded |-> c]           \* %2e, %3a, %40 ...

\* The greedy "^(.*)c(.*)$": a text before and one after the last c.
LastOf(s, c) == SelectLastInSeq(s, LAMBDA t : t = Char(c))
Before(s, i) == SubSeq(s, 1, i - 1)
After(s, i) == SubSeq(s, i + 1, Len(s))

-----------------------------------------------------------------------------
(* s_schemes *)
StratumSchemes ==
  [prefix : {"stratum", "stratum1", "stratum2", "stratum3"}, transport : {"tcp", "tls", "tls12", "ssl"}]
AutoSchemes == {"stratum", "stratums", "stratumss"}
GetworkSchemes == {"http", "getwork"}
Schemes == StratumSchemes \cup {[prefix |-> p, transport |-> ""] :
                                  p \in AutoSchemes \cup GetworkSchemes \cup {"simulation"}}

\* A URI without a scheme has the value-initialised attributes: GETWORK.
Family(scheme) ==
  CASE scheme \in StratumSchemes \/ scheme.prefix \in AutoSchemes -> "STRATUM"
    [] scheme.prefix = "simulation" -> "SIMULATION"
    [] OTHER -> "GETWORK"

-----------------------------------------------------------------------------
(* Backticks protect text: each block becomes a mark while the user part   *)
(* is split, and its text again afterwards.                                *)

\* The texts between the first and second tick, the third and fourth ...
RECURSIVE Blocks(_)
Blocks(s) ==
  LET i == SelectInSeq(s, LAMBDA t : t = Char("tick"))
      j == SelectInSeq(After(s, i), LAMBDA t : t = Char("tick"))
  IN  IF i = 0 \/ j = 0 THEN <<>>
      ELSE <<SubSeq(s, i + 1, i + j - 1)>> \o Blocks(After(s, i + j))

\* boost::replace_all
RECURSIVE ReplaceAllText(_, _, _)
ReplaceAllText(s, old, new) ==
  IF Len(s) < Len(old) \/ old = <<>> THEN s
  ELSE IF SubSeq(s, 1, Len(old)) = old
       THEN new \o ReplaceAllText(After(s, Len(old)), old, new)
       ELSE <<Head(s)>> \o ReplaceAllText(Tail(s), old, new)

Ticked(s) == <<Char("tick")>> \o s \o <<Char("tick")>>

Marked(s, blocks) ==
  FoldLeft(LAMBDA acc, i : ReplaceAllText(acc, Ticked(blocks[i]), Ticked(<<Mark(i)>>)),
           s, [i \in 1..Len(blocks) |-> i])

Unmarked(s, blocks) ==
  FoldLeft(LAMBDA acc, i : ReplaceAllText(acc, Ticked(<<Mark(i)>>), blocks[i]),
           s, [i \in 1..Len(blocks) |-> i])

\* The leftover ticks go, and encoded characters are decoded (+ is a space)
Plain(s) ==
  LET noTicks == SelectSeq(s, LAMBDA t : t # Char("tick"))
      decode(t) == CASE DOMAIN t = {"encoded"} -> Char(t.encoded)
                     [] t = Char("+") -> Char(" ")
                     [] OTHER -> t
  IN  [i \in 1..Len(noTicks) |-> decode(noTicks[i])]

-----------------------------------------------------------------------------
(* The parts *)

NoWorker == <<>>
DefaultPassword == <<Word("X")>>

\* Mutant of UserParts: user:password is tried before user.worker:password.
UserPartsPasswordFirst(u) ==
  LET colon == LastOf(u, ":")
      dot == LastOf(u, ".")
  IN  CASE colon # 0 -> [user |-> Before(u, colon), worker |-> NoWorker, password |-> After(u, colon)]
        [] colon = 0 /\ dot # 0 -> [user |-> Before(u, dot), worker |-> After(u, dot),
                                    password |-> DefaultPassword]
        [] OTHER -> [user |-> u, worker |-> NoWorker, password |-> DefaultPassword]

\* user.worker:password, user:password, user.worker, user, in this order
UserParts(u) ==
  LET colon == LastOf(u, ":")
      dotBefore == LastOf(Before(u, colon), ".")
      dot == LastOf(u, ".")
  IN  CASE colon # 0 /\ dotBefore # 0 ->
             [user |-> Before(u, dotBefore), worker |-> SubSeq(u, dotBefore + 1, colon - 1),
              password |-> After(u, colon)]
        [] colon # 0 /\ dotBefore = 0 ->
             [user |-> Before(u, colon), worker |-> NoWorker, password |-> After(u, colon)]
        [] colon = 0 /\ dot # 0 ->
             [user |-> Before(u, dot), worker |-> After(u, dot), password |-> DefaultPassword]
        [] OTHER -> [user |-> u, worker |-> NoWorker, password |-> DefaultPassword]

\* host, or host:port where the port is a number that a short can hold
MaxPort == 32767
HostPort(h) ==
  LET colon == LastOf(h, ":")
  IN  IF colon # 0 /\ colon = Len(h) - 1 /\ IsNumber(Last(h))
      THEN [host |-> Before(h, colon), port |-> Last(h).number]
      ELSE [host |-> h, port |-> 0]

\* /path?query#fragment, /path#fragment, /path?query, /path
PathParts(p) ==
  LET hash == LastOf(p, "#")
      mark == LastOf(Before(p, hash), "?")
      query == LastOf(p, "?")
  IN  CASE hash # 0 /\ mark # 0 ->
             [path |-> Before(p, mark), query |-> SubSeq(p, mark + 1, hash - 1), fragment |-> After(p, hash)]
        [] hash # 0 /\ mark = 0 -> [path |-> Before(p, hash), query |-> <<>>, fragment |-> After(p, hash)]
        [] hash = 0 /\ query # 0 -> [path |-> Before(p, query), query |-> After(p, query), fragment |-> <<>>]
        [] OTHER -> [path |-> p, query |-> <<>>, fragment |-> <<>>]

Error(what) == [error |-> what]

\* URI::URI for what follows "scheme://"
ParseAuthority(scheme, authority) ==
  LET at == LastOf(authority, "@")
      userinfo == Before(authority, at)
      urlinfo == After(authority, at)
      blocks == Blocks(authority)
      u == IF userinfo = <<>> THEN [user |-> <<>>, worker |-> NoWorker, password |-> DefaultPassword]
           ELSE LET parts == UserParts(Marked(userinfo, blocks))
                IN  [f \in DOMAIN parts |-> Unmarked(parts[f], blocks)]
      slash == SelectInSeq(urlinfo, LAMBDA t : t = Char("/"))
      h == HostPort(IF slash = 0 THEN urlinfo ELSE Before(urlinfo, slash))
      p == PathParts(IF slash = 0 THEN <<>> ELSE SubSeq(urlinfo, slash, Len(urlinfo)))
  IN  CASE h.port > MaxPort -> Error("bad lexical cast")
        [] h.port <= MaxPort /\ h.host = <<>> -> Error("Missing host")
        [] OTHER -> [scheme |-> scheme, host |-> h.host, port |-> h.port,
                     user |-> Plain(u.user), worker |-> Plain(u.worker), password |-> Plain(u.password),
                     path |-> Plain(p.path), query |-> Plain(p.query), fragment |-> Plain(p.fragment)]

NoScheme == [prefix |-> "", transport |-> ""]

\* A text without "scheme://" leaves every member as it was initialised.
ParseUri(text, sim) ==
  CASE text.scheme = NoScheme ->
         [scheme |-> NoScheme, host |-> <<>>, port |-> 0, user |-> <<>>, worker |-> NoWorker,
          password |-> DefaultPassword, path |-> <<>>, query |-> <<>>, fragment |-> <<>>]
    [] text.scheme # NoScheme /\ text.authority = <<>> -> Error("Invalid authority")
    [] text.scheme # NoScheme /\ text.authority # <<>> /\
       (text.scheme \notin Schemes \/ (~sim /\ Family(text.scheme) = "SIMULATION")) ->
         Error("Invalid scheme")
    [] OTHER -> ParseAuthority(text.scheme, text.authority)

-----------------------------------------------------------------------------
(* validateArgs: the connections, in the order of the -P arguments.        *)

ExitWord == [scheme |-> NoScheme, authority |-> <<Word("exit")>>]    \* -P exit
Exit == [scheme |-> [prefix |-> "stratum", transport |-> "tcp"],
         authority |-> <<Word("-"), Char(":"), Word("x"), Char("@"), Word("exit"), Char(":"), Number(0)>>]

Connections(pools) ==
  LET uri(i) == ParseUri(IF pools[i] = ExitWord THEN Exit ELSE pools[i], FALSE)
  IN  IF pools = <<>> THEN Error("At least one pool definition required.")
      ELSE IF pools[1] = ExitWord THEN Error("'exit' failover directive can't be the first")
      ELSE IF \E i \in 1..Len(pools) : DOMAIN uri(i) = {"error"} THEN Error("Bad URI")
      ELSE [list |-> [i \in 1..Len(pools) |-> uri(i)]]

\* ParseBind: address:port, of which the address may hold colons itself
ParseBind(text, validAddresses, negative) ==
  LET colon == LastOf(text, ":")
      port == Last(text).number
      low == IF negative THEN -65535 ELSE 1
  IN  CASE colon = 0 -> Error("Invalid syntax")
        [] colon # 0 /\ Before(text, colon) \notin validAddresses -> Error("Invalid Ip Address")
        [] colon # 0 /\ Before(text, colon) \in validAddresses
             /\ (colon # Len(text) - 1 \/ ~IsNumber(Last(text))) -> Error("stoi")
        [] OTHER -> IF port = 0 \/ port < low \/ port > 65535 THEN Error("Invalid port number")
                    ELSE [address |-> Before(text, colon), port |-> port]
=============================================================================
