----------------------------- MODULE MCProtocol -----------------------------
(* Instances of Protocol for TLC. *)
EXTENDS Protocol

\* Empty, one word (some of them the protocol's own, one with a NUL), and two words.
MCTexts == {<<>>, <<"k">>, <<"nul">>, <<"EX">>, <<"ex">>, <<"5">>, <<"SET">>, <<"k", "v">>, <<"EX", "5">>}

MCRawWords == {"SET", "set", "DELETE", "k", "ex", "05", "REPL", "nul"}

MCNulWords == {"nul"}

MCNumbers == {"5", "60"}

MCWords == Reserved \cup MCRawWords \cup MCNumbers \cup {"v"}

MCUpper == [w \in MCWords |-> CASE w = "ex" -> "EX" [] w = "set" -> "SET" [] OTHER -> w]

MCNumberOf == [w \in MCWords |-> CASE w \in MCNumbers -> w [] w = "05" -> "5" [] OTHER -> NoEx]
=============================================================================
