---------------------------- MODULE MCRoundTrip ----------------------------
(* Instances of RoundTrip for TLC. *)
EXTENDS RoundTrip, TLC

\* DSA and IAX with an old and a new driver.
MCHardware ==
    {[iax |-> i, lacks |-> (IF i THEN ReadBuffer ELSE {}) \cup l] :
        i \in BOOLEAN,
        l \in {{}, Optional, {"driver_name"}, {"prs_disable", "op_config"}}}

\* Every attribute has one of two values; those that others depend on vary by
\* themselves.
MCConfig ==
    {[a \in Attr |->
        CASE a = "mode" -> m
          [] a = "size" -> s
          [] a = "threshold" -> t
          [] a = "read_buffer_limit" -> l
          [] OTHER -> n] :
     m \in {Shared, Dedicated}, s \in {2, 4}, t \in {1, 3}, l \in {0, 1}, n \in {0, 1}}
=============================================================================
