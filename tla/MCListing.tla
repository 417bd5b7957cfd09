----------------------------- MODULE MCListing -----------------------------
(* Instances of Listing for TLC. *)
EXTENDS Listing

CONSTANTS d1, d2, g1, g2, h1, h2, h3, w1, w2, v1, e1

\* d1 has two groups, d2 three.
MCDevOf     == [w \in {w1, w2, v1} |-> IF w = v1 THEN d2 ELSE d1]
MCDeviceSeq == <<d1, d2>>
MCGroupSeq  == [d \in {d1, d2} |-> IF d = d1 THEN <<g1, g2>> ELSE <<h1, h2, h3>>]
MCWqSeq     == [d \in {d1, d2} |-> IF d = d1 THEN <<w1, w2>> ELSE <<v1>>]
MCEngineSeq == [d \in {d1, d2} |-> IF d = d1 THEN <<e1>> ELSE <<>>]
MCMaxGroups == [d \in {d1, d2} |-> IF d = d1 THEN 2 ELSE 3]

Opt(cmd, idle, show, filter) ==
    [cmd |-> cmd, idle |-> idle, show |-> show, filter |-> filter]
NoFilter == <<>>

\* Without a filter.
PlainOption ==
    {Opt("list", i, "default", NoFilter) : i \in BOOLEAN}
    \cup {Opt(c, FALSE, "default", NoFilter) : c \in {"save", "load"}}

\* With filters that fit, do not fit and contradict each other.
FilterOption ==
    {Opt("list", i, "default", kind :> x) : i \in {FALSE}, kind \in {"device"}, x \in {d1, BadName}}
    \cup {Opt("list", i, "default", "wq" :> w2) : i \in BOOLEAN}
    \cup {Opt("list", FALSE, "default", "engine" :> e1)}
    \cup {Opt("list", TRUE, "wq", ("device" :> d1) @@ ("wq" :> v1))}
    \cup {Opt("list", FALSE, "default", "group" :> h2)}

MCOption == PlainOption \cup FilterOption
=============================================================================
