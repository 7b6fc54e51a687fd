---------------------------- MODULE MCPlacement ----------------------------
(***************************************************************************)
(* Two services, three subnets in two zones, names of up to three          *)
(* characters.                                                             *)
(***************************************************************************)
EXTENDS Placement

CONSTANTS s, t

MCUID == [x \in Services |-> IF x = s THEN <<"1", "-", "2">> ELSE <<"1", "-", "3">>]

Plain == [name |-> None, length |-> None, internal |-> FALSE, subnet |-> None]

\* A name that loses its last character and then its hyphen, one of hyphens, one that is not
\* a name, a UID cut to a digit that both have, a negative length, and other kinds of places.
MCSpecs == {Plain,
            [Plain EXCEPT !.name = <<"a", "-", "b">>, !.length = 2],
            [Plain EXCEPT !.name = <<"-", "-", "-", "-">>, !.length = 9],
            [Plain EXCEPT !.name = <<"a", "_">>, !.length = 1],
            [Plain EXCEPT !.length = -1],
            [Plain EXCEPT !.internal = TRUE, !.length = Junk],
            [Plain EXCEPT !.subnet = 3]}

Subnet(zone, tagged, roles) == [zone |-> zone, tagged |-> tagged, roles |-> roles]
Both == {"internal", "public"}

\* All but the first of three subnets in a zone have the tag; everything is public.
Tagged == [subnets |-> <<Subnet("east", TRUE, {}), Subnet("east", TRUE, Both), Subnet("east", TRUE, Both)>>,
           tables |-> {[main |-> TRUE, links |-> {}, igw |-> TRUE]}]

\* Two tagged subnets in a zone, of which the first is private, and one in another zone.
Private == [subnets |-> <<Subnet("east", TRUE, Both), Subnet("east", TRUE, Both), Subnet("west", TRUE, {})>>,
            tables |-> {[main |-> TRUE, links |-> {2}, igw |-> TRUE], [main |-> FALSE, links |-> {1}, igw |-> FALSE]}]

\* No subnet of the cluster's, and no table for the controller's own.
Bare == [subnets |-> <<Subnet("east", FALSE, {}), Subnet("east", FALSE, Both)>>,
         tables |-> {[main |-> FALSE, links |-> {2}, igw |-> TRUE]}]

\* The controller's own subnet has no zone, so that none can be used.
Lonely == [Bare EXCEPT !.subnets[1].zone = ""]

MCNetworks == {Tagged, Private, Bare, Lonely}
=============================================================================
