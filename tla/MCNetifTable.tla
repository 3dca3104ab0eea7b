---------------------------- MODULE MCNetifTable ----------------------------
(***************************************************************************)
(* NetifTable for TLC: the kernel lists eth in full, or with another       *)
(* address after one that it does not know, or not at all.                 *)
(***************************************************************************)
EXTENDS NetifTable

CONSTANTS eth, lo, a, b

MCNames  == {eth, lo}
MCValues == {a, b}

Listed(name, family, value, addressed) ==
  [name |-> name, family |-> family, value |-> value, addressed |-> addressed]

InFull  == <<Listed(eth, "packet", a, TRUE), Listed(eth, "inet", a, TRUE)>>
Twice   == <<Listed(eth, "inet", a, TRUE), Listed(eth, "inet6", a, TRUE), Listed(eth, "inet", b, TRUE)>>
Missing == <<Listed(eth, "inet", a, FALSE), Listed(lo, "inet", b, TRUE)>>
MCReadings == {InFull, Twice, Missing}
=============================================================================
