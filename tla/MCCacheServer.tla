--------------------------- MODULE MCCacheServer ---------------------------
(* Instances of CacheServer for TLC. *)
EXTENDS CacheServer

\* Of MaxLine = 2: a blank line and two commands, which may come in one chunk; a line of
\* three bytes, too long though its buffer is not, and a command after it (either stream as a
\* whole is too much input for one chunk); and a silent client.
MCStreams ==
    [c \in Conns |->
        IF c = 1 THEN {<<"newline", "byte", "newline", "byte", "newline">>,
                       <<"byte", "byte", "byte", "newline", "byte", "newline">>}
                 ELSE {<<>>}]
=============================================================================
