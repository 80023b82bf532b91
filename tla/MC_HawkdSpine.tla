---------------------------- MODULE MC_HawkdSpine ----------------------------
(* Model-checking instance of HawkdSpine: two ingest connections or one     *)
(* ingest connection and the stdin source, two broadcast clients, with    *)
(* malformed lines that are short, long, or long with multi-byte chars.  *)
EXTENDS HawkdSpine

CONSTANTS i1, i2, sin, c1, c2

MC_Producers == {i1, i2}
MC_StdinProducers == {i1, sin}
MC_Subscribers == {c1, c2}

\* Malformed lines, as UTF-8 character widths, against a clip length of 4:
\* short, long ASCII (clipped at a boundary), long with 3-byte characters
\* (byte 4 falls inside the second one).
MC_Cap == 4
MC_ShortLines == {<<1>>, <<1, 1, 1, 1, 1>>}
MC_Lines == MC_ShortLines \cup {<<3, 3>>}
=============================================================================
