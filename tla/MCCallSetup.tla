----------------------------- MODULE MCCallSetup -----------------------------
(***************************************************************************)
(* Two calls of the method                                                 *)
(*     async def pay(self, payload="p0", key=None, *, infra=None)          *)
(* decorated with key_param="key", infra_param="infra" and                 *)
(* fingerprint_params=("payload",).                                        *)
(***************************************************************************)
EXTENDS CallSetup

MCSignature == <<"self", "payload", "key">>
MCDefault == [payload |-> "p0", key |-> None, infra |-> None]

\* Objects are named after the attribute that holds their coordinator; "slot" has
\* it under "infra" too, but not in its __dict__.
Selves == {"infra", "kit", "both", "slot", "bare"}
On(name) == [name |-> name, value |-> "on"]
Off(name) == [name |-> name, value |-> "off"]
Operations == {"x", "y", "x:x"}
Keys == {"x", " x", "x:x", " ", "xxxx"}

MCAttributes ==
    [v \in Selves \union Keys \union {"p0", "p1", "on", "off", None} |->
        CASE v = "infra" -> <<On("infra")>>
          [] v = "kit"   -> <<On("kit")>>
          [] v = "both"  -> <<Off("old"), On("kit")>>
          [] OTHER       -> <<>>]
MCOffered ==
    [v \in DOMAIN MCAttributes |-> IF v \in {"infra", "slot"} THEN "on" ELSE None]
MCText == [v \in Keys \union Operations |->
    CASE v = "x"    -> <<"x">>
      [] v = "y"    -> <<"y">>
      [] v = " x"   -> <<" ", "x">>
      [] v = "x:x"  -> <<"x", ":", "x">>
      [] v = " "    -> <<" ">>
      [] v = "xxxx" -> <<"x", "x", "x", "x">>]

------------------------------------------------------------------------------
Argument(name, values) == {<<>>} \union {<<[name |-> name, value |-> v]>> : v \in values}

\* Every way to pass the arguments: by position, by keyword, not at all.
Shapes(keys) ==
    {[args |-> <<self>>, kwargs |-> payload \o key \o infra] :
        self \in Selves, payload \in Argument("payload", {"p0", "p1"}),
        key \in Argument("key", keys), infra \in Argument("infra", {None, "on", "off"})}
    \union
    {[args |-> <<self, payload, key>>, kwargs |-> infra] :
        self \in Selves, payload \in {"p0", "p1"}, key \in keys,
        infra \in Argument("infra", {None, "on", "off"})}

PlainShape(key, payload) ==
    [args |-> <<"kit">>, kwargs |-> <<[name |-> "key", value |-> key],
                                      [name |-> "payload", value |-> payload]>>]
MadeOf(operation, ttl, shape) ==
    [operation |-> operation, ttl |-> ttl, args |-> shape.args, kwargs |-> shape.kwargs]

Setup(service, operationTtl, made) ==
    [service |-> service, reserved |-> FALSE, made |-> made,
     operationTtls |-> [o \in Operations |-> operationTtl]]
OneHour == [default |-> 60, min |-> 60, max |-> 3600]

\* How the arguments of a are passed, against a second plain call.
Lookups ==
    {Setup(OneHour, NoTtl, [a |-> MadeOf("x", NoTtl, shape),
                            b |-> MadeOf("x", NoTtl, PlainShape(key, payload))]) :
        shape \in Shapes({None, "x", " x"}), key \in {"x", " x"}, payload \in {"p0", "p1"}}

\* Every two pairs of identifiers.
Pairs == [operation : Operations, key : Keys]
Identities ==
    {Setup(OneHour, NoTtl, [a |-> MadeOf(mine.operation, NoTtl, PlainShape(mine.key, "p0")),
                            b |-> MadeOf(theirs.operation, NoTtl, PlainShape(theirs.key, "p0"))]) :
        mine \in Pairs, theirs \in Pairs}

\* Every kind of TTL, on both sides of every bound.
Ttls ==
    {Setup([default |-> default, min |-> min, max |-> max], operationTtl,
           [a |-> MadeOf("x", ttl, PlainShape("x", "p0")),
            b |-> MadeOf("x", NoTtl, PlainShape("x", "p0"))]) :
        default \in {0, 1, 2}, min \in {1, 60, 90}, max \in {60, 120, 3600},
        operationTtl \in {NoTtl, 0, 59, 61, 150}, ttl \in {NoTtl, -1, 0, 59, 119, 7200}}

MCSetups ==
    LET unreserved == Lookups \union Identities \union Ttls
    IN  unreserved \union {[s EXCEPT !.reserved = TRUE] : s \in unreserved}
=============================================================================
