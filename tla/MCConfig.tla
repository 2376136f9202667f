------------------------------ MODULE MCConfig ------------------------------
(* Files of up to MaxLines lines for TLC. *)
EXTENDS Config

CONSTANT MaxLines

Name(w) == [word |-> w, nums |-> <<0>>]
Value(s) == [word |-> "", nums |-> s]

Setting(k, v) == [comment |-> FALSE, words |-> <<Name(k), v>>]
Comment(ws) == [comment |-> TRUE, words |-> <<Name("#")>> \o ws]

Lines ==
  { Setting("GX_PROBE", Name("true")), Setting("GX_PROBE", Name("false")),
    Setting("S6A_PROBE", Name("true")),
    Setting("GX_SESSION_CLEAN_UP_TIMEOUT_SEC", Value(<<60>>)),
    Setting("S6A_SESSION_CLEAN_UP_TIMEOUT_SEC", Value(<<60>>)),
    Setting("ETHERNET_INTERFACE", Value(<<0, 0>>)),
    Setting("ROUTER_PER_INTERFACE", Value(<<2>>)), Setting("ROUTER_PER_INTERFACE", Value(<<1, 3>>)),
    Setting("ROUTER_PER_INTERFACE", Value(<<9>>)),
    Setting("PPS_PER_INTERFACE", Value(<<190>>)), Setting("PPS_PER_INTERFACE", Value(<<450, 1000>>)),
    Setting("PPS_CAP_PERCENTAGE", Value(<<90, 100>>)),
    Comment(<<Name("GX_SESSION_CLEAN_UP_TIMEOUT_SEC"), Name("=")>>),
    Comment(<<Name("see"), Name("ROUTER_PER_INTERFACE")>>),
    Comment(<<Name("PPS_PER_INTERFACE"), Name("PRINT_STATS_FREQ_SEC"), Name("=")>>) }

Files == UNION {[1 .. n -> Lines] : n \in 0 .. MaxLines}

(* What the proof that settings are as written rests on.                   *)
ASSUME FilesArePlain == \A file \in Files : PlainFile(file)
=============================================================================
