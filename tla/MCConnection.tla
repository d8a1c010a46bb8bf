--------------------------- MODULE MCConnection ----------------------------
(* One thread that makes every call; the same with failures; and one that   *)
(* reads while another sends and flushes.                                   *)
EXTENDS Connection, TLC

CONSTANTS t1, t2

Calls == {"send", "single", "large", "recv", "flush"}

OneThread ==
    [does |-> (t1 :> Calls \cup {"set"} @@ t2 :> {}), faults |-> {},
     others |-> {"answer", "junk"}, searches |-> TRUE,
     timeouts |-> {2, Never}, keepalives |-> {2}]

Failing ==
    [does |-> (t1 :> Calls @@ t2 :> {}), faults |-> {"send", "short"},
     others |-> {}, searches |-> FALSE, timeouts |-> {1}, keepalives |-> {2, Never}]

ReadAndFlush ==
    [does |-> (t1 :> {"recv"} @@ t2 :> {"single", "large", "flush"}), faults |-> {},
     others |-> {}, searches |-> FALSE, timeouts |-> {2, Never}, keepalives |-> {2}]

AllUses == {OneThread, Failing, ReadAndFlush}
=============================================================================
