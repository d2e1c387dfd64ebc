---------------------------- MODULE MCOnDemandDV ----------------------------
\* Instances of OnDemandDV for TLC.
EXTENDS OnDemandDV

CONSTANTS s, a, b, d
MCNodes == {s, a, b, d}

\* Two relays, which hear each other; b alone hears d.  The link of s and a is cheap.
pairs == {{s, a}, {s, b}, {a, b}, {b, d}}
MCCost == [l \in {l \in MCNodes \X MCNodes : {l[1], l[2]} \in pairs} |->
            IF {l[1], l[2]} = {s, a} THEN 1 ELSE 3]
=============================================================================
