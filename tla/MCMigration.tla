----------------------------- MODULE MCMigration ------------------------------
(* A bounded universe of schemas for SchemaMigration: every leaf type with its  *)
(* bounds, unions, arrays, mappings, closed objects and local definitions, and  *)
(* the values calls and results are made of.                                    *)
EXTENDS SchemaMigration

Blank == [type |-> None, variants |-> None, ref |-> None, values |-> None, const |-> None,
          low |-> None, above |-> None, high |-> None, below |-> None, multiple |-> None]
Str(low, high) == [Blank EXCEPT !.type = "string", !.low = low, !.high = high]
Num(type, low, above, high, below, multiple) ==
  [Blank EXCEPT !.type = type, !.low = low, !.above = above, !.high = high, !.below = below,
                !.multiple = multiple]
Arr(items, low, high, unique) ==
  [Blank EXCEPT !.type = "array", !.low = low, !.high = high]
    @@ [items |-> items, unique |-> unique]
Obj(properties, required) ==
  [Blank EXCEPT !.type = "object"]
    @@ [properties |-> properties, required |-> required, additional |-> None]
Mapping(additional, low, high) ==
  [Blank EXCEPT !.type = "object", !.low = low, !.high = high]
    @@ [properties |-> <<>>, required |-> {}, additional |-> additional]
Union(variants) == [Blank EXCEPT !.variants = variants]
Ref(name) == [Blank EXCEPT !.ref = name]

S(n) == [kind |-> "string", size |-> n]
N(n) == [kind |-> "number", size |-> n]
B(n) == [kind |-> "boolean", size |-> n]

Whole == Num("integer", 0, None, 4, None, None)
Few == {Str(None, 1), Str(None, 2), Whole, [Whole EXCEPT !.type = "number"]}

Numbers ==
  {Num(t, low, above, 4, None, None) : t \in {"integer", "number"}, low \in {None, 0, 2},
                                       above \in {None, 0}}
  \cup {Num("number", 0, None, high, below, m) : high \in {None, 4}, below \in {4, None},
                                                 m \in {None, 3}}
Strings == {Str(low, high) : low \in {None, 1}, high \in {1, 2}}
  \cup {[Str(None, None) EXCEPT !.values = v] : v \in {{S(0)}, {S(0), S(1)}}}
Consts == {[Str(None, 1) EXCEPT !.const = S(1), !.values = v] : v \in {None, {S(0)}, {S(0), S(1)}}}
  \cup {[Whole EXCEPT !.const = c, !.values = v] : c \in {N(2), B(2)}, v \in {None, {N(2)}}}
  \cup {[Blank EXCEPT !.type = "boolean", !.const = c] : c \in {None, B(0), B(2)}}
Unions == {Union({x, y}) : x \in Few, y \in Few}
  \cup {[Union({Str(None, 2), Whole}) EXCEPT !.values = v] : v \in {{S(1)}, {S(1), N(2)}}}
Arrays == {Arr(i, low, high, u) : i \in {Whole, [Whole EXCEPT !.type = "number"]},
                                  low \in {None, 1}, high \in {1, 2}, u \in BOOLEAN}

Objects ==
  {Obj("p" :> s, r) : s \in Numbers \cup Strings \cup Consts \cup Unions \cup Arrays
                       \cup {Ref("d"), Ref("gone")},
                      r \in {{}, {"p"}}}
  \cup {Obj("p" :> Str(None, 1) @@ "q" :> s, {"p"}) : s \in Few}
  \cup {Mapping(s, None, high) : s \in Few, high \in {1, 2}} \cup {Mapping(Str(None, 1), 1, 2)}

\* Surfaces with one tool whose input or output varies, and surfaces that differ in
\* their policy, tools, state or definitions.
Fixed == Obj("p" :> Str(None, 1), {})
Tool(input, output, policy) == [input |-> input, output |-> output, policy |-> policy]
Base == [tools |-> "t" :> Tool(Fixed, Fixed, "read"), defs |-> [d |-> Str(None, 1)],
         stateless |-> TRUE]

MCSurfaces ==
  {[Base EXCEPT !.tools["t"].input = s] : s \in Objects}
  \cup {[Base EXCEPT !.tools["t"].output = Obj("p" :> s, {})] : s \in Few}
  \cup {[Base EXCEPT !.tools["t"].policy = "write"], [Base EXCEPT !.stateless = FALSE],
        [Base EXCEPT !.tools = @ @@ "u" :> Tool(Fixed, Fixed, "read")],
        [Base EXCEPT !.defs = @ @@ [loop |-> Ref("loop")]]}

Fields == {S(n) : n \in 0..2} \cup {N(n) : n \in 0..5} \cup {B(0), B(2)}
  \cup {[kind |-> "array", items |-> q] : q \in UNION {[1..n -> {N(1), N(2)}] : n \in 0..2}}
MCValues ==
  {[kind |-> "object", fields |-> f] : f \in UNION {[D -> Fields] : D \in {{}, {"p"}, {"q"}}}}
  \cup {[kind |-> "object", fields |-> "p" :> x @@ "q" :> y] :
          x \in {S(1), N(2)}, y \in {S(1), S(2), N(2), N(3)}}
=============================================================================
