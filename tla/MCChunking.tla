------------------------------ MODULE MCChunking ------------------------------
(* Small instances of Chunking for TLC. *)
EXTENDS Chunking, TLC

CONSTANTS x, y, z

Doc(text, ends, defs, blank) ==
    [text |-> text, sentenceEnds |-> ends, defs |-> defs, blankFrom |-> blank]

\* Repeated sentences; a sentence too long for a chunk; a blank tail; a
\* document shorter than a chunk.
MCDocuments ==
    {Doc(<<x, y, x, y, z, z, y>>, <<2, 4, 7>>, {2, 5}, 7),
     Doc(<<x, x, y, x, x, y, x, z>>, <<6, 8>>, {0, 6}, 6),
     Doc(<<x, y, z, y, x>>, <<1, 4, 5>>, {4}, 4),
     Doc(<<x, z>>, <<1, 2>>, {}, 0)}

MCSymbols == {x, y, z}

MCEarlier == <<<<x, y>>, <<x, z>>>>

MCQueries == {<<x, y>>, <<z>>}
===============================================================================
