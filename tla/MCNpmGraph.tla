------------------------------ MODULE MCNpmGraph ------------------------------
EXTENDS NpmGraph

\* What a package says of another: how it wants it, and in which versions.
Wants(how, req) == [how |-> how, req |-> req]
None == Wants("none", {})
AnyWants == {None, Wants("dep", {1, 2}), Wants("peer", {1, 2}), Wants("optional", {1, 2})}

InfoOf(wants, from) ==
    LET entries(how) == {e \in DOMAIN wants : e[1] = from /\ wants[e].how = how}
        entry(e) == [spec |-> e[2], name |-> e[2], req |-> wants[e].req]
        both == entries("both")
        peer(e, optional) == [spec |-> e[2], name |-> e[2], req |-> wants[e].req,
                              optional |-> optional] IN
    [deps  |-> {entry(e) : e \in entries("dep") \cup both},
     peers |-> {peer(e, FALSE) : e \in entries("peer")}
               \cup {[peer(e, FALSE) EXCEPT !.req = {1, 2}] : e \in both}
               \cup {peer(e, TRUE) : e \in entries("optional")}]
RegistryOf(nvs, wants) == [nv \in nvs |-> InfoOf(wants, nv[1])]

Req(name, req) == [name |-> name, req |-> req]

\* Packages 1, 2 and 3 (in two versions) want each other in every way.
Triangles ==
    LET pairs == {<<1, 2>>, <<1, 3>>, <<2, 1>>, <<2, 3>>, <<3, 1>>, <<3, 2>>} IN
    [registry : {RegistryOf({<<1, 1>>, <<2, 1>>, <<3, 1>>, <<3, 2>>}, w) :
                    w \in [pairs -> AnyWants]},
     rounds   : {<< <<Req(1, {1})>>, <<Req(3, {1}), Req(2, {1})>> >>}]

\* Package 4 (in two versions) below the others, each of which wants one or the other;
\* a package may depend on itself.
Diamonds ==
    LET four == AnyWants \cup {Wants("dep", {1}), Wants("peer", {1}), Wants("peer", {2}),
                              Wants("both", {1})}
        tops == {w \in [{<<1, 2>>, <<1, 3>>, <<2, 2>>, <<2, 3>>} -> AnyWants] :
                    /\ w[<<1, 2>>].how = "dep" /\ w[<<1, 3>>].how \in {"none", "dep"}
                    /\ w[<<2, 2>>].how = IF w[<<2, 3>>].how = "dep" THEN "dep" ELSE "none"} IN
    [registry : {RegistryOf({<<1, 1>>, <<2, 1>>, <<3, 1>>, <<4, 1>>, <<4, 2>>}, t @@ f) :
                    t \in tops, f \in [{<<1, 4>>, <<2, 4>>, <<3, 4>>} -> four]},
     rounds   : {<< <<Req(1, {1})>>, <<Req(4, {1}), Req(2, {1})>> >>,
                 << <<Req(2, {1}), Req(1, {1})>>, <<Req(3, {1})>> >>}]

Wanted(c, name) == {d.name : d \in c.registry[<<name, 1>>].deps
                                  \cup c.registry[<<name, 1>>].peers}
Below4(c, name) ==
    LET more(S) == S \cup UNION {Wanted(c, n) : n \in S}
    IN more(more(more(Wanted(c, name))))
\* No circle leads through a peer dependency.
Straight(c) ==
    \A nv \in DOMAIN c.registry : \A p \in c.registry[nv].peers :
        nv[1] \notin Below4(c, p.name) \cup {p.name}
OptionalPeersOf(c, nv) == {p \in c.registry[nv].peers : p.optional}
\* No package has two optional peers.
FewOptional(c) == \A nv \in DOMAIN c.registry : Cardinality(OptionalPeersOf(c, nv)) < 2

\* Some want a version 3 of package 4, which nobody has published.
Unpublished ==
    LET four == {None, Wants("dep", {1, 2}), Wants("dep", {3}), Wants("peer", {3}), Wants("optional", {3})} IN
    [registry : {RegistryOf({<<1, 1>>, <<2, 1>>, <<3, 1>>, <<4, 1>>, <<4, 2>>},
                            <<1, 2>> :> Wants("dep", {1, 2}) @@ <<2, 3>> :> Wants("peer", {1, 2}) @@ f) :
                    f \in [{<<1, 4>>, <<2, 4>>, <<3, 4>>} -> four]},
     rounds   : {<< <<Req(3, {1})>>, <<Req(1, {1})>> >>, << <<Req(1, {1})>>, <<Req(2, {1}), Req(4, {3})>> >>}]

\* No circles through peers, no two optional peers of one version; peers may have peers.
PlainCases == {c \in Triangles \cup Diamonds \cup Unpublished : Straight(c) /\ FewOptional(c)}

\* Two packages that want each other as peers
MutualPeers ==
    {c \in Triangles : c.registry[<<3, 1>>] = [deps |-> {}, peers |-> {}]
                      /\ c.registry[<<1, 1>>].deps = {} /\ c.registry[<<2, 1>>].deps = {}}

=============================================================================

