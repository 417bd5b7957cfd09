---------------------------- MODULE MCConfigAttr ----------------------------
(* Instances of ConfigAttr for TLC. *)
EXTENDS ConfigAttr, TLC

CONSTANTS p1, p2, d1, d2, g1, g2, w1, w2, e1

\* d1 is an old device that may be configured, d2 a new one that may not.
MCDevOf ==
    [x \in {d1, d2, g1, g2, w1, w2, e1} |-> IF x \in {d2, g2, w2} THEN d2 ELSE d1]
MCLimit ==
    (d1 :> [version |-> 1, max_groups |-> 2, max_wq_size |-> 8, max_batch_size |-> 4,
            max_transfer_size |-> 64, configurable |-> TRUE]) @@
    (d2 :> [version |-> 2, max_groups |-> 4, max_wq_size |-> 4, max_batch_size |-> 4,
            max_transfer_size |-> 64, configurable |-> FALSE])
MCMissing == {<<d1, "event_log_size">>, <<w2, "driver_name">>, <<g1, "desc_progress_limit">>}

\* Up to the first power of two above the largest 64-bit number
MCPow2 == {2^k : k \in 0..20}

Cmd(kind, names, opt) == [kind |-> kind, names |-> names, opt |-> opt]

\* Names of both devices, options of every C type, values at and beyond the
\* limits and between powers of two, a device without some attributes.
MCCommand ==
    {Cmd("wq", <<w1, w2>>, ("mode" :> "shared") @@ ("size" :> 6) @@ ("threshold" :> 3)),
     Cmd("wq", <<w1, w2>>, ("mode" :> "dedicated") @@ ("name" :> "n") @@ ("size" :> 4)),
     Cmd("wq", <<BadName, w1>>, ("type" :> "user") @@ ("driver_name" :> "bogus")),
     Cmd("wq", <<w1>>, ("op_config" :> "bits") @@ ("group_id" :> 1)
                         @@ ("max_transfer_size" :> 33)),
     Cmd("wq", <<w1, w2>>, ("max_batch_size" :> 3) @@ ("block_on_fault" :> -1)),
     Cmd("wq", <<w2, w1>>, "group_id" :> 2),
     Cmd("wq", <<w1>>, ("group_id" :> -2) @@ ("prs_disable" :> 1)),
     Cmd("wq", <<w2>>, ("driver_name" :> "user") @@ ("priority" :> 5) @@ ("threshold" :> 2)),
     Cmd("wq", <<w1>>, ("size" :> IntMax) @@ ("ats_disable" :> 1)),
     Cmd("group", <<g2, g1>>, ("read_buffers_reserved" :> 8) @@ ("traffic_class_a" :> 1)),
     Cmd("group", <<g1, g2>>, ("use_read_buffer_limit" :> 1)
                                @@ ("desc_progress_limit" :> 3)),
     Cmd("device", <<d1, d2>>, ("read_buffer_limit" :> -2) @@ ("event_log_size" :> 64)),
     Cmd("device", <<d1>>, "event_log_size" :> 63),
     Cmd("engine", <<e1, BadName>>, <<>>),
     Cmd("engine", <<e1>>, "group_id" :> -1)}
=============================================================================
