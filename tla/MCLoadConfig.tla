---------------------------- MODULE MCLoadConfig ----------------------------
(* Instances of LoadConfig for TLC. *)
EXTENDS LoadConfig

CONSTANTS d1, d2, w1, w2, g1

\* Two devices, each with a wq of id 0; a group of the first device.
MCDevOf  == [w \in {w1, w2} |-> IF w = w1 THEN d1 ELSE d2]
MCPartOf == [g \in {g1} |-> d1]
MCIdOf   == [x \in {w1, w2, g1} |-> 0]
MCKindOf == [x \in {w1, w2, g1} |-> IF x = g1 THEN "group" ELSE "wq"]

Dev(d)       == [t |-> "dev", kind |-> "device", name |-> d]
Sub(kind, i) == [t |-> "dev", kind |-> kind, id |-> i]
Attr(class)  == [t |-> "attr", class |-> class]
Other        == [t |-> "dev", kind |-> "other"]
Broken       == [t |-> "broken"]

\* A saved file of two devices, and files with each kind of defect in the
\* section of the second device.
MCFile ==
    {<<Dev(d1), Attr("set"), Sub("group", 0), Attr("ignored"), Sub("wq", 0), Attr("set"),
       Dev(d2), Sub("wq", 0), Attr("set")>>,
     <<Sub("wq", 0), Attr("set"), Dev(d1), Sub("wq", 0), Attr("set"),
       Dev(d2), Sub("wq", 0), Attr("bad")>>,
     <<Dev(d1), Sub("wq", 0), Dev(d2), Sub("wq", 1)>>,
     <<Dev(d1), Sub("wq", 0), Other, Dev(NoObject)>>,
     <<Dev(d2), Sub("wq", 0), Broken>>}

MCOption == [enable : BOOLEAN, forced : BOOLEAN]

\* One device with one wq, for the runs on a single question.
OneDevOf  == [w \in {w1} |-> d1]
OneIdOf   == [x \in {w1} |-> 0]
OneKindOf == [x \in {w1} |-> "wq"]
NoParts   == [x \in {} |-> d1]
OneFile   == {<<Dev(d1), Attr("set"), Sub("wq", 0), Attr("set")>>}
=============================================================================
