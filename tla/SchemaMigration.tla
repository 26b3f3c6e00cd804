--------------------------- MODULE SchemaMigration ---------------------------
(***************************************************************************)
(* The bounded schema subset of tool.py, the compatibility classifier of    *)
(* schema_compatibility.py and the migration review of migration.py.  A     *)
(* surface is registered or refused; two registered surfaces are compared   *)
(* tool by tool, and the review says whether routes may be switched.        *)
(*                                                                          *)
(* A schema is a record with its type, or variants for anyOf, or ref for a  *)
(* local $ref; None stands for an absent keyword, values for enum.           *)
(* Annotations, unknown keywords, propertyNames and the size limits other   *)
(* than the depth are left out, and so is the comparison budget of 10 000   *)
(* nodes.  Numbers are counted in halves, so that a number need not be an   *)
(* integer, and so are booleans, which Python takes for 0 and 1.            *)
(***************************************************************************)
EXTENDS Integers, Sequences, FiniteSets, SequencesExt, PythonNone

CONSTANTS
  Surfaces,     \* surfaces that may be submitted: [tools, defs, stateless]
  Values,       \* JSON values calls and results are made of
  MaxDepth      \* SchemaPolicy.max_depth

\* Of the registration limits only the depth.
SchemaPolicy == MaxDepth \in 1..32

ASSUME MigrationAssumptions == SchemaPolicy

VARIABLES
  previous, current,   \* the two surfaces under review, None until built
  review               \* None or the MigrationDiff

migVars == <<previous, current, review>>

-----------------------------------------------------------------------------
(* What a schema means: the reference the classifier is checked against. *)

RECURSIVE Accepts(_, _, _)
Accepts(s, defs, v) ==
  /\ s.ref # None => s.ref \in DOMAIN defs /\ Accepts(defs[s.ref], defs, v)
  /\ s.values # None => v \in s.values
  /\ s.const # None => v = s.const
  /\ s.type = "boolean" => v.kind = "boolean"
  /\ s.variants # None => \E w \in s.variants : Accepts(w, defs, v)
  /\ s.type = "string" => /\ v.kind = "string"
                          /\ s.low # None => v.size >= s.low
                          /\ s.high # None => v.size <= s.high
  /\ s.type \in {"integer", "number"} =>
       /\ v.kind = "number" /\ (s.type = "integer" => v.size % 2 = 0)
       /\ s.low # None => v.size >= s.low
       /\ s.above # None => v.size > s.above
       /\ s.high # None => v.size <= s.high
       /\ s.below # None => v.size < s.below
       /\ s.multiple # None => v.size % s.multiple = 0
  /\ s.type = "array" =>
       /\ v.kind = "array"
       /\ s.low # None => Len(v.items) >= s.low
       /\ s.high # None => Len(v.items) <= s.high
       /\ s.unique => IsInjective(v.items)
       /\ \A i \in DOMAIN v.items : Accepts(s.items, defs, v.items[i])
  /\ s.type = "object" =>
       /\ v.kind = "object"
       /\ s.required \subseteq DOMAIN v.fields
       /\ \A n \in DOMAIN v.fields :
            IF n \in DOMAIN s.properties THEN Accepts(s.properties[n], defs, v.fields[n])
            ELSE s.additional # None /\ Accepts(s.additional, defs, v.fields[n])
       /\ s.low # None => Cardinality(DOMAIN v.fields) >= s.low
       /\ s.high # None => Cardinality(DOMAIN v.fields) <= s.high

-----------------------------------------------------------------------------
(* Registration: the supported closed subset. *)

\* _validate_enum: a value is of the schema's type.
IsOfType(v, type) ==
  \/ v.kind = type
  \/ v.kind = "number" /\ type = "integer" /\ v.size % 2 = 0

\* _validate_schema_value and _validate_definition: bounded strings, arrays and
\* mappings, closed objects, unions of at least two, references that resolve and do
\* not recur.  A union or a reference may have other keywords beside it, the value of
\* const is not looked at, and of const and enum only enum bounds a string.
RECURSIVE Supported(_, _, _, _)
Supported(s, defs, depth, stack) ==
  /\ depth <= MaxDepth
  /\ s.variants # None =>
       /\ Cardinality(s.variants) >= 2
       /\ \A w \in s.variants : Supported(w, defs, depth + 1, stack)
  /\ s.ref # None =>
       /\ s.ref \in DOMAIN defs /\ s.ref \notin stack
       /\ Supported(defs[s.ref], defs, depth + 1, stack \cup {s.ref})
  /\ s.type = None => s.variants # None \/ s.ref # None
  /\ s.type # None /\ s.values # None => \A v \in s.values : IsOfType(v, s.type)
  /\ s.type = "string" => s.high # None \/ s.values # None
  /\ s.type = "array" => s.high # None /\ Supported(s.items, defs, depth + 1, stack)
  /\ s.type = "object" =>
       IF s.additional # None
       THEN /\ DOMAIN s.properties = {} /\ s.high # None
            /\ Supported(s.additional, defs, depth + 1, stack)
       ELSE /\ s.required \subseteq DOMAIN s.properties
            /\ \A n \in DOMAIN s.properties : Supported(s.properties[n], defs, depth + 1, stack)

\* ToolCatalog and _validate_schema_node: every schema of every tool is an object
\* schema of the subset, and so is every definition, used or not.
Registers(surface) ==
  /\ \A t \in DOMAIN surface.tools :
       \A s \in {surface.tools[t].input, surface.tools[t].output} :
         s.type = "object" /\ Supported(s, surface.defs, 1, {})
  /\ \A n \in DOMAIN surface.defs : Supported(surface.defs[n], surface.defs, 2, {n})

-----------------------------------------------------------------------------
(* The classifier. *)

\* _resolve: a reference with anything beside it, or a chain that recurs, does not
\* resolve.
RECURSIVE Resolve(_, _, _)
Resolve(s, defs, stack) ==
  IF s.ref = None THEN s
  ELSE IF s.type # None \/ s.values # None \/ s.const # None \/ s.variants # None
          \/ s.ref \in stack \/ s.ref \notin DOMAIN defs THEN None
  ELSE Resolve(defs[s.ref], defs, stack \cup {s.ref})

\* _allowed_values: const hides an enum beside it.
AllowedValues(s) == IF s.const # None THEN {s.const} ELSE s.values

\* Python's ==, which takes a boolean for a number.
PyEqual(v, w) ==
  v = w \/ ({v.kind, w.kind} \subseteq {"number", "boolean"} /\ v.size = w.size)

\* _allows_every_value.
AllowsEveryValue(c, b) ==
  AllowedValues(c) # None =>
    /\ AllowedValues(b) # None
    /\ \A v \in AllowedValues(b) : \E w \in AllowedValues(c) : PyEqual(v, w)

\* _minimum_is_wider and _maximum_is_wider.
MinimumIsWider(c, b) == c.low # None => b.low # None /\ c.low <= b.low
MaximumIsWider(c, b) == c.high # None => b.high # None /\ c.high >= b.high

\* _lower_bound and _upper_bound: the stricter of the two keywords, as the pair of
\* the bound and whether it is included.
LowerBound(s) ==
  IF s.low = None /\ s.above = None THEN None
  ELSE IF s.above # None /\ (s.low = None \/ s.above >= s.low) THEN <<s.above, FALSE>>
  ELSE <<s.low, TRUE>>
UpperBound(s) ==
  IF s.high = None /\ s.below = None THEN None
  ELSE IF s.below # None /\ (s.high = None \/ s.below <= s.high) THEN <<s.below, FALSE>>
  ELSE <<s.high, TRUE>>

\* Mutant of LowerIsWider: an excluded bound counts as an included one.
LowerIsWiderByValue(c, b) == c # None => b # None /\ c[1] <= b[1]

\* _lower_is_wider and _upper_is_wider.
LowerIsWider(c, b) == c # None => b # None /\ (c[1] < b[1] \/ (c[1] = b[1] /\ (c[2] \/ ~ b[2])))
UpperIsWider(c, b) == c # None => b # None /\ (c[1] > b[1] \/ (c[1] = b[1] /\ (c[2] \/ ~ b[2])))

\* _property_schema.
PropertySchema(s, n) == IF n \in DOMAIN s.properties THEN s.properties[n] ELSE s.additional

\* _variant_list.
Variants(s) == IF s.variants = None THEN {s} ELSE s.variants

\* _is_superset with _object_is_superset: the candidate accepts what the baseline
\* accepts.  What stands beside an anyOf is not looked at.
RECURSIVE IsSuperset(_, _, _, _)
IsSuperset(candidate, baseline, cDefs, bDefs) ==
  LET c == Resolve(candidate, cDefs, {})
      b == Resolve(baseline, bDefs, {})
      wider(x, y) == IsSuperset(x, y, cDefs, bDefs)
  IN
  /\ c # None /\ b # None
  /\ IF c.variants # None \/ b.variants # None
     THEN \A y \in Variants(b) : \E x \in Variants(c) : wider(x, y)
     ELSE
     /\ c.type = b.type \/ (c.type = "number" /\ b.type = "integer")
     /\ AllowsEveryValue(c, b)
     /\ CASE c.type = "string" -> MinimumIsWider(c, b) /\ MaximumIsWider(c, b)
          [] c.type \in {"integer", "number"} ->
               /\ LowerIsWider(LowerBound(c), LowerBound(b))
               /\ UpperIsWider(UpperBound(c), UpperBound(b))
               /\ c.multiple # None => c.multiple = b.multiple
          [] c.type = "array" ->
               /\ MinimumIsWider(c, b) /\ MaximumIsWider(c, b)
               /\ c.unique => b.unique
               /\ wider(c.items, b.items)
          [] c.type = "object" ->
               /\ c.required \subseteq b.required
               /\ \A n \in DOMAIN b.properties :
                    PropertySchema(c, n) # None /\ wider(PropertySchema(c, n), b.properties[n])
               /\ b.additional # None =>
                    c.additional # None /\ wider(c.additional, b.additional)
               /\ MinimumIsWider(c, b) /\ MaximumIsWider(c, b)
          [] OTHER -> TRUE

\* classify_schema_change.
Classify(old, new, oldDefs, newDefs, direction) ==
  IF <<old, oldDefs>> = <<new, newDefs>> THEN "identical"
  ELSE IF (IF direction = "input" THEN IsSuperset(new, old, newDefs, oldDefs)
           ELSE IsSuperset(old, new, oldDefs, newDefs))
       THEN "non_breaking" ELSE "breaking"

-----------------------------------------------------------------------------
(* The review. *)

\* _tool_diff and MigrationToolDiff.breaking.
Breaking(t) ==
  LET p == previous.tools[t]
      c == current.tools[t] IN
  \/ Classify(p.input, c.input, previous.defs, current.defs, "input") = "breaking"
  \/ Classify(p.output, c.output, previous.defs, current.defs, "output") = "breaking"
  \/ p.policy # c.policy

\* compare_migration_surfaces: requires_major_version and cutover_ready.
MigrationDiff ==
  LET before == DOMAIN previous.tools
      after == DOMAIN current.tools
      major == before \ after # {} \/ \E t \in before \cap after : Breaking(t)
  IN [major |-> major, ready |-> ~ major /\ current.stateless]

MigInit == previous = None /\ current = None /\ review = None

\* A surface is built; one outside the subset is refused by its catalog.
Register(surface) ==
  /\ Registers(surface)
  /\ \/ previous = None /\ previous' = surface /\ UNCHANGED current
     \/ previous # None /\ current = None /\ current' = surface /\ UNCHANGED previous
  /\ UNCHANGED review

Compare ==
  /\ current # None /\ review = None
  /\ review' = MigrationDiff
  /\ UNCHANGED <<previous, current>>

MigNext == Compare \/ \E surface \in Surfaces : Register(surface)

MigSpec == MigInit /\ [][MigNext]_migVars

-----------------------------------------------------------------------------
(* Properties. *)

\* After a cutover the review found ready, every tool is still there under the same
\* policy, accepts every call it accepted before, and returns nothing it might not
\* have returned before.
Kept ==
  \A t \in DOMAIN previous.tools :
    /\ t \in DOMAIN current.tools /\ current.tools[t].policy = previous.tools[t].policy
    /\ \A v \in Values :
         /\ Accepts(previous.tools[t].input, previous.defs, v)
            => Accepts(current.tools[t].input, current.defs, v)
         /\ Accepts(current.tools[t].output, current.defs, v)
            => Accepts(previous.tools[t].output, previous.defs, v)

\* The schemas of a surface, those within others included.
RECURSIVE Subschemas(_)
Subschemas(s) ==
  {s} \cup UNION {Subschemas(w) : w \in
    (IF s.variants # None THEN s.variants ELSE {})
    \cup (IF s.type = "array" THEN {s.items} ELSE {})
    \cup (IF s.type = "object"
            THEN {s.properties[n] : n \in DOMAIN s.properties} \cup ({s.additional} \ {None})
            ELSE {})}

Schemas(x) ==
  UNION {Subschemas(x.defs[n]) : n \in DOMAIN x.defs}
  \cup UNION {Subschemas(x.tools[t].input) \cup Subschemas(x.tools[t].output) :
                t \in DOMAIN x.tools}

\* Unions with nothing but annotations beside them, and a const of its schema's type
\* with no enum beside it.
PlainUnions(x) ==
  \A s \in Schemas(x) : s.variants # None => s.type = None /\ s.values = None /\ s.const = None
PlainValues(x) ==
  \A s \in Schemas(x) : s.const # None => s.values = None /\ IsOfType(s.const, s.type)

\* The classifier proves what it says: a review that is ready keeps every caller
\* and every consumer, for the schemas the catalog registers in which no union has
\* another constraint beside it and no const an enum or a value of another type.
ReadyIsCompatible ==
  review # None /\ review.ready /\ (\A x \in {previous, current} : PlainUnions(x) /\ PlainValues(x))
    => Kept

\* The same for every union the catalog registers.
ReadyIsCompatibleForUnions ==
  review # None /\ review.ready /\ (\A x \in {previous, current} : PlainValues(x)) => Kept
=============================================================================
