------------------------------ MODULE Protocol ------------------------------
(***************************************************************************)
(* packages/protocol/src/codec.js on its way from a caller to a replica:    *)
(* formatCommand in the client, parseCommand in the primary's server,       *)
(* formatReplCommand in its replication engine, parseCommand in the peer.   *)
(*                                                                         *)
(* A string is the sequence of its words; <<>> is ''.  A line is the words  *)
(* that split(/\s+/) finds in it, so an empty string leaves no trace.       *)
(*                                                                         *)
(* The names are such that the module can be extended beside another       *)
(* specification.                                                          *)
(***************************************************************************)
EXTENDS Naturals, Sequences, FiniteSets

CONSTANTS
    Words,        \* what split(/\s+/) may find
    NulWords,     \* the words with a NUL in them
    Upper,        \* toUpperCase()
    Numbers,      \* the texts `${n}` of positive integers n
    NumberOf,     \* Number(word), as text again, or NoEx if it is no positive integer
    Texts,        \* keys and values callers pass: sequences of words
    RawWords,     \* words of the raw lines that executeRaw sends
    MaxRaw,       \* bound: words in a raw line
    NoEx          \* no EX

KeyCommands == {"GET", "DEL", "DELETE", "EXISTS", "TTL"}

Reserved == KeyCommands \cup {"PING", "SET", "REPL", "EX"}

ASSUME WordsAssumption ==
    /\ Reserved \subseteq Words /\ Numbers \subseteq Words /\ NoEx \notin Words
    /\ NulWords \subseteq Words /\ NulWords \cap (Reserved \cup Numbers) = {}
    /\ Upper \in [Words -> Words] /\ \A w \in Reserved : Upper[w] = w
    /\ NumberOf \in [Words -> Numbers \cup {NoEx}] /\ \A n \in Numbers : NumberOf[n] = n
    /\ \A text \in Texts : text \in Seq(Words)
    /\ RawWords \subseteq Words
    /\ MaxRaw \in Nat \ {0}

VARIABLES
    asked,        \* what the caller wants: a call, or a raw line
    line,         \* the words on the wire to the primary
    stored,       \* what the primary makes of them
    replLine,     \* the words on the wire to a replica
    replica       \* what the replica makes of them

codecVars == <<asked, line, stored, replLine, replica>>

Error == [name |-> "ERR", key |-> <<>>, value |-> <<>>, ex |-> NoEx]
Nothing == [name |-> "none", key |-> <<>>, value |-> <<>>, ex |-> NoEx]
Cmd(name, key, value, ex) == [name |-> name, key |-> key, value |-> value, ex |-> ex]

-----------------------------------------------------------------------------
(* formatCommand and formatReplCommand                                     *)

ExSuffix(ex) == IF ex = NoEx THEN <<>> ELSE <<"EX", ex>>

FormatCommand(c) ==
    CASE c.name = "PING" -> <<"PING">>
      [] c.name \in KeyCommands -> <<c.name>> \o c.key
      [] c.name = "SET" -> <<"SET">> \o c.key \o c.value \o ExSuffix(c.ex)

\* Mutant: the TTL is not replicated.
FormatReplWithoutEx(c) ==
    IF c.name = "SET" THEN <<"REPL", "SET">> \o c.key \o c.value
                      ELSE <<"REPL", "DEL">> \o c.key

\* A DELETE is replicated as a DEL.
FormatReplCommand(c) ==
    IF c.name = "SET" THEN <<"REPL">> \o FormatCommand(c)
                      ELSE <<"REPL", "DEL">> \o c.key

-----------------------------------------------------------------------------
(* parseCommand                                                            *)

HasNul(words) == \E i \in DOMAIN words : words[i] \in NulWords

\* The word before the last one is EX.
ExAt(parts, i) == i < Len(parts) /\ Upper[parts[i]] = "EX"

SetWithEx(key, value, w) ==
    IF NumberOf[w] = NoEx THEN Error ELSE Cmd("SET", key, value, NumberOf[w])

\* Mutant: the first EX counts, whatever its position says it is.
ParseSetFirstEx(parts) ==
    LET n == Len(parts)
        key == <<parts[2]>>
    IN  CASE n = 2 -> Cmd("SET", key, <<>>, NoEx)
          [] n >= 3 /\ ExAt(parts, 3) -> SetWithEx(key, <<>>, parts[4])
          [] n = 3 -> Cmd("SET", key, <<parts[3]>>, NoEx)
          [] n = 5 /\ ExAt(parts, 4) -> SetWithEx(key, <<parts[3]>>, parts[5])
          [] OTHER -> Error

ParseSet(parts) ==
    LET n == Len(parts)
        key == <<parts[2]>>
    IN  CASE n = 2 -> Cmd("SET", key, <<>>, NoEx)
          [] n = 3 -> Cmd("SET", key, <<parts[3]>>, NoEx)
          [] n = 4 /\ ExAt(parts, 3) -> SetWithEx(key, <<>>, parts[4])
          [] n = 5 /\ ExAt(parts, 4) -> SetWithEx(key, <<parts[3]>>, parts[5])
          [] OTHER -> Error

ParseKeyCommand(parts) ==
    IF Len(parts) = 2 THEN Cmd(Upper[parts[1]], <<parts[2]>>, <<>>, NoEx) ELSE Error

\* The command inside REPL.
ParseRepl(parts) ==
    IF Len(parts) < 2 THEN Error ELSE
        CASE Upper[parts[2]] = "SET" -> ParseSet(<<"SET">> \o SubSeq(parts, 3, Len(parts)))
          [] Upper[parts[2]] \in {"DEL", "DELETE"} -> ParseKeyCommand(Tail(parts))
          [] OTHER -> Error

ParseCommand(parts) ==
    LET name == Upper[parts[1]]
    IN  IF HasNul(parts) THEN Error ELSE
        CASE name = "PING" -> IF Len(parts) = 1 THEN Cmd("PING", <<>>, <<>>, NoEx) ELSE Error
          [] name \in KeyCommands -> ParseKeyCommand(parts)
          [] name = "SET" -> ParseSet(parts)
          [] name = "REPL" -> ParseRepl(parts)
          [] OTHER -> Error

-----------------------------------------------------------------------------

Requests ==
    {Cmd("PING", <<>>, <<>>, NoEx)}
      \cup {Cmd(name, key, <<>>, NoEx) : name \in KeyCommands, key \in Texts}
      \cup {Cmd("SET", key, value, ex) : key \in Texts, value \in Texts, ex \in Numbers \cup {NoEx}}

RawLines == UNION {[1..n -> RawWords] : n \in 1..MaxRaw}

CodecInit ==
    /\ asked \in Requests \cup {Nothing}
    /\ line = <<>> /\ replLine = <<>>
    /\ stored = Nothing /\ replica = Nothing

\* A method of CacheClient.
Send ==
    /\ line = <<>> /\ asked # Nothing
    /\ line' = FormatCommand(asked)
    /\ UNCHANGED <<asked, stored, replLine, replica>>

\* executeRaw(commandLine), from the CLI; REPL lines come from nodes only.
SendRaw ==
    /\ line = <<>> /\ asked = Nothing
    /\ \E raw \in RawLines : Upper[raw[1]] # "REPL" /\ line' = raw
    /\ UNCHANGED <<asked, stored, replLine, replica>>

\* The primary's server: parseCommand, and fan-out of a SET, DEL or DELETE.
Receive ==
    /\ line # <<>> /\ stored = Nothing
    /\ stored' = ParseCommand(line)
    /\ replLine' = IF stored'.name \in {"SET", "DEL", "DELETE"} THEN FormatReplCommand(stored')
                                                                ELSE <<>>
    /\ UNCHANGED <<asked, line, replica>>

\* The replica's server.
ReplicaReceives ==
    /\ replLine # <<>> /\ replica = Nothing
    /\ replica' = ParseCommand(replLine)
    /\ UNCHANGED <<asked, line, stored, replLine>>

CodecNext == Send \/ SendRaw \/ Receive \/ ReplicaReceives

CodecSpec == CodecInit /\ [][CodecNext]_codecVars

-----------------------------------------------------------------------------
(* Properties                                                              *)

\* codec.js:10: keys and values are single words; a value may be empty, a key may not.  Nothing
\* is said of NUL.
Legal(c) ==
    c.name # "PING" => Len(c.key) = 1 /\ (c.name = "SET" => Len(c.value) <= 1)

\* A legal call is understood as it was meant, even when its words read like the protocol's
\* own: a key or value named EX, an empty value with a TTL.  A key or value with a NUL in it, which
\* callers may pass and codec.js:54 does not take, is answered by an error, never misread.
LegalCallsArrive ==
    (asked # Nothing /\ stored # Nothing /\ Legal(asked)) =>
        stored = IF HasNul(asked.key) \/ HasNul(asked.value) THEN Error ELSE asked

\* Whatever line the primary accepted, a replica understands the same mutation, TTL included.
ReplicaUnderstands ==
    replica # Nothing =>
        replica = [stored EXCEPT !.name = IF @ = "DELETE" THEN "DEL" ELSE @]

\* docs/requirements.md:48 (and codec.js:162-165): an empty key is rejected with an error.
EmptyKeyRejected ==
    (asked.name \notin {"none", "PING"} /\ asked.key = <<>> /\ stored # Nothing)
        => stored.name = "ERR"
=============================================================================
