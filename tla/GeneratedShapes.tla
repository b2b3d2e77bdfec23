--------------------------- MODULE GeneratedShapes ---------------------------
(* What the generators derive from the shape of a type, which may hold other  *)
(* types: the schema of a configuration file, and the enumerations that a     *)
(* dump of the API lacks.                                                     *)
EXTENDS Integers, Sequences, SequencesExt, FiniteSets

-----------------------------------------------------------------------------

(***************************************************************************)
(* The schema made of what the CLI says of its configuration file          *)
(* (update-schemas.ts): the output of `aspire config info --json` is       *)
(* normalised, since 13.2 writes its field names in PascalCase and later   *)
(* releases in camelCase, and each property becomes a schema.              *)
(*                                                                         *)
(* A property is put together in steps, printed in one spelling and turned *)
(* into a schema.  A value of a configuration file is its kind and, for an *)
(* object, its fields.                                                     *)
(***************************************************************************)

CONSTANTS
    Names, Types, \* of properties
    Features,     \* the names of the feature flags
    MaxSubs       \* bound: properties below a property

VARIABLES
    prop,  \* what the CLI has to say: [name, type, required, subs, additional]
    raw,   \* how it is printed: [spelling -> [field -> value]]
    schema \* what was made of it

shapeVars == <<prop, raw, schema>>

Absent == [absent |-> TRUE]

Failed == [failed |-> TRUE]

Required == {"name", "type", "required"}

Fields == Required \union {"subProperties", "additionalPropertiesType"}

Spellings == {"camel", "Pascal"}

(* A field that is missing is looked for in the other spelling.            *)
ReadField(source, field) ==
    IF source["camel"][field] # Absent THEN source["camel"][field] ELSE source["Pascal"][field]

Readable(source) == \A field \in Required : ReadField(source, field) # Absent

(* normalizeProperty of a property without others below it, and of one     *)
(* with them; a field that has to be there ends the run.                   *)
NormalizeLeaf(source) ==
    [name |-> ReadField(source, "name").value, type |-> ReadField(source, "type").value,
     required |-> ReadField(source, "required").value, subs |-> <<>>, additional |-> ""]

NormalizeProperty(source) ==
    LET subs == ReadField(source, "subProperties")
        additional == ReadField(source, "additionalPropertiesType")
    IN IF ~Readable(source) THEN Failed
       ELSE IF subs # Absent /\ \E i \in DOMAIN subs.value : ~Readable(subs.value[i]) THEN Failed
       ELSE [NormalizeLeaf(source) EXCEPT
                !.subs = IF subs = Absent THEN <<>>
                         ELSE [i \in DOMAIN subs.value |-> NormalizeLeaf(subs.value[i])],
                !.additional = IF additional = Absent THEN "" ELSE additional.value]

(* The parts of JSON Schema that are used: the kinds of value a schema     *)
(* accepts and, for objects, the fields it names and what it asks of the   *)
(* others.                                                                 *)
ShapeNothing == [kinds |-> {}]

Scalar(kinds) == [kinds |-> kinds]

Anything == Scalar({"text", "truth text", "boolean", "integer", "array", "object"})

Object(properties, others) ==
    [kinds |-> {"object"}, properties |-> properties, others |-> others]

Strings == Scalar({"text", "truth text"})

Booleans == Scalar({"boolean", "truth text"})      \* BOOLEAN_SCHEMA

(* An unknown type is a string.                                            *)
OfType(type) ==
    CASE type = "boolean" -> Booleans
      [] type = "integer" -> Scalar({"integer"})
      [] type = "array" -> Scalar({"array"})
      [] OTHER -> Strings

(* { type } alone, as additionalProperties: no text for a boolean.         *)
PlainType(type) == CASE type = "boolean" -> Scalar({"boolean"})
                     [] type = "object" -> Scalar({"object"})
                     [] OTHER -> OfType(type)

RECURSIVE CreatePropertySchema(_)

(* The schemas of the properties below; of two with one name the last.     *)
SubSchemas(subs) ==
    LET last(name) == CHOOSE i \in DOMAIN subs :
                         /\ subs[i].name = name
                         /\ \A j \in i + 1 .. Len(subs) : subs[j].name # name
    IN [name \in {subs[i].name : i \in DOMAIN subs} |-> CreatePropertySchema(subs[last(name)])]

CreatePropertySchema(p) ==
    IF p.type # "object" THEN OfType(p.type)
    ELSE IF p.name = "features" THEN Object([name \in Features |-> Booleans], ShapeNothing)
    ELSE IF p.subs # <<>>
    THEN IF p.additional = "object" THEN Object(<<>>, Object(SubSchemas(p.subs), ShapeNothing))
         ELSE Object(SubSchemas(p.subs), ShapeNothing)
    ELSE IF p.additional # "" THEN Object(<<>>, PlainType(p.additional))
    ELSE IF p.name = "packages" THEN Object(<<>>, Strings)
    ELSE Object(<<>>, Anything)

(* generateSchema, of a file with this property and $schema.               *)
GenerateSchema(p) ==
    [root |-> Object([name \in {p.name, "$schema"} |->
                         IF name = "$schema" THEN Strings ELSE CreatePropertySchema(p)], ShapeNothing),
     required |-> IF p.required THEN {p.name} ELSE {}]

PrintLeaf(spelling, p) ==
    [s \in Spellings |-> [field \in Fields |->
        IF s # spelling \/ field \notin Required THEN Absent ELSE [value |-> p[field]]]]

(* External: the CLI prints a property.                                    *)
PrintProperty(spelling, p) ==
    [s \in Spellings |-> [field \in Fields |->
        IF s # spelling THEN Absent
        ELSE IF field \in Required THEN [value |-> p[field]]
        ELSE IF field = "subProperties"
        THEN IF p.subs = <<>> THEN Absent
             ELSE [value |-> [i \in DOMAIN p.subs |-> PrintLeaf(spelling, p.subs[i])]]
        ELSE IF p.additional = "" THEN Absent ELSE [value |-> p.additional]]]

Leaf(name, type, required) ==
    [name |-> name, type |-> type, required |-> required, subs |-> <<>>, additional |-> ""]

(* A property of the CLI's model; only objects say more of their fields.   *)
ShapeInit ==
    /\ \E name \in Names, type \in Types, required \in BOOLEAN,
          additional \in {"", "string", "boolean", "object"} :
          /\ additional # "" => type = "object"
          /\ prop = [Leaf(name, type, required) EXCEPT !.additional = additional]
    /\ raw = Absent /\ schema = Absent

AddSub(name, type) ==
    /\ raw = Absent /\ prop.type = "object" /\ Len(prop.subs) < MaxSubs
    /\ prop' = [prop EXCEPT !.subs = Append(@, Leaf(name, type, FALSE))]
    /\ UNCHANGED <<raw, schema>>

(* The output of the CLI, whatever text is around it (extractJsonObject).  *)
PrintAs(spelling) ==
    /\ raw = Absent
    /\ raw' = PrintProperty(spelling, prop)
    /\ UNCHANGED <<prop, schema>>

(* readReleasedConfigInfo and generateSchema.                              *)
ShapeGenerate ==
    /\ raw # Absent /\ schema = Absent
    /\ schema' = LET normal == NormalizeProperty(raw)
                 IN IF normal = Failed THEN Failed ELSE GenerateSchema(normal)
    /\ UNCHANGED <<prop, raw>>

ShapeNext ==
    \/ \E name \in Names, type \in Types : AddSub(name, type)
    \/ \E spelling \in Spellings : PrintAs(spelling)
    \/ ShapeGenerate

ShapeSpec == ShapeInit /\ [][ShapeNext]_shapeVars

(* External: what an editor makes of a schema.                             *)
RECURSIVE Accepts(_, _)

Accepts(sch, value) ==
    /\ value.kind \in sch.kinds
    /\ value.kind = "object" /\ "properties" \in DOMAIN sch =>
          \A name \in DOMAIN value.fields :
              IF name \in DOMAIN sch.properties
              THEN Accepts(sch.properties[name], value.fields[name])
              ELSE Accepts(sch.others, value.fields[name])

(* What the CLI itself takes: a boolean may be written as text, a field it *)
(* does not know is an error where it knows the fields.                    *)
FitsType(type, value) ==
    CASE type = "boolean" -> value.kind \in {"boolean", "truth text"}
      [] type = "integer" -> value.kind = "integer"
      [] OTHER -> value.kind \in {"text", "truth text"}

FitsFields(subs, value) ==
    /\ value.kind = "object"
    /\ \A name \in DOMAIN value.fields : \E sub \in {subs[i] : i \in DOMAIN subs} :
          sub.name = name /\ FitsType(sub.type, value.fields[name])

(* A field of this name.                                                   *)
Field(name, value) == [kind |-> "object", fields |-> [n \in {name} |-> value]]

Scalars == {[kind |-> k] : k \in {"text", "truth text", "boolean", "integer"}}

Flat == {[kind |-> "object", fields |-> <<>>]}
        \union {Field(name, value) : name \in Names, value \in Scalars}

(* The properties of the file that have fields of their own, named once.   *)
Described == /\ prop.type = "object" /\ prop.subs # <<>> /\ prop.name # "features"
             /\ \A i, j \in DOMAIN prop.subs : prop.subs[i].name = prop.subs[j].name => i = j
             /\ \A i \in DOMAIN prop.subs : prop.subs[i].type # "object"

Made == schema \notin {Absent, Failed}

ShapeTypeOK ==
    /\ prop.name \in Names /\ prop.type \in Types
    /\ Made => schema.required \subseteq DOMAIN schema.root.properties

(* What every CLI since 13.2 prints can be read, in whichever spelling     *)
(* (normalizeProperty), and the file it is for asks for what it requires.  *)
EverySpellingIsRead ==
    schema # Absent => Made /\ schema.required = {name \in {prop.name} : prop.required}

(* The schema takes a property with fields exactly when the CLI does: each *)
(* field known and of its type, one level further down where the property  *)
(* is a dictionary of such objects, and no misspelt field                  *)
(* (createPropertySchema).                                                 *)
FieldsAsDescribed ==
    Made /\ Described =>
        \A value \in Flat :
            IF prop.additional = "object"
            THEN \A key \in Names : FitsFields(prop.subs, value) <=>
                    Accepts(schema.root, Field(prop.name, Field(key, value)))
            ELSE FitsFields(prop.subs, value) <=> Accepts(schema.root, Field(prop.name, value))

(* A file with a property that the schema does not name is rejected, so    *)
(* that a misspelt one is noticed (generateSchema).                        *)
NothingElse ==
    Made => \A name \in Names \ {prop.name}, value \in Scalars \union Flat :
                ~Accepts(schema.root, Field(name, value))

-----------------------------------------------------------------------------

(***************************************************************************)
(* The enums an ATS dump of a package lacks (supplement-ats-enums.ts): a   *)
(* type that the package refers to and does not define is looked up among  *)
(* the declarations of the package's canonical export, by its own name     *)
(* and, when none has it, by the names the canonical members use for it.   *)
(***************************************************************************)

CONSTANTS
    EnumsTypes,   \* type references a capability may have
    DtoTypes,     \* and those a data type may have
    Capabilities, \* capability ids; None is one without
    Defined,      \* enums a dump may define already
    Statements,   \* statements of the canonical export, with their assembly
    Mentions,     \* for a capability id, sets of names its canonical member may mention
    MaxUses, MaxStatements, Error, EnumsNone

VARIABLES
    uses,       \* [type, capability] the dump refers to; capability None for data types
    members,    \* canonicalMembers: names mentioned, by capability id
    statements, \* the statements of the export, in order
    same,       \* whether export and dump are of the same package version
    enums,      \* EnumTypes of the dump
    result, again

enumsVars == <<uses, members, statements, same, enums, result, again>>

(* A type id is the path of its name; it belongs to an assembly whose name *)
(* the path begins with.                                                   *)
Name(id) == Last(id)

InAssembly(id, assembly) == IsStrictPrefix(assembly, id)

RECURSIVE Refers(_)

(* visit: the enums in a type, through arrays and unions.                  *)
Refers(type) ==
    {id \in {type.enum} : id # EnumsNone} \cup UNION {Refers(t) : t \in type.element \cup type.union}

EnumsRequired == UNION {Refers(use.type) : use \in uses}

Occurrences(id) == {use.capability : use \in {u \in uses : id \in Refers(u.type)}} \ {EnumsNone}

(* readEnumDeclarations: enums, and constants of a literal type whose      *)
(* members are their own values; an enum of other values is an error.      *)
Unsupported == \E i \in 1..Len(statements) : statements[i].form = "numbered enum"

Definitions == SelectSeq(statements, LAMBDA s : s.form \in {"enum", "constant"})

Where(Test(_)) == {i \in 1..Len(Definitions) : Test(Definitions[i])}

Named(id) == Where(LAMBDA d : d.name = Name(id) /\ InAssembly(id, d.assembly))

EnumsReferenced(id) == UNION {members[c] : c \in Occurrences(id) \cap DOMAIN members}

Aliased(id) == Where(LAMBDA d : d.name \in EnumsReferenced(id) /\ InAssembly(id, d.assembly))

EnumsCandidates(id) == IF Named(id) # {} THEN Named(id) ELSE Aliased(id)

Added(id, i) == [id |-> id, name |-> Definitions[i].name, values |-> Definitions[i].values]

EnumsIds(list) == {list[i].id : i \in 1..Len(list)}

Missing(list) == EnumsRequired \ EnumsIds(list)

(* supplementAtsEnums: the missing enums after those the dump defines, in  *)
(* an order that is left open here.                                        *)
Supplement(list) ==
    IF \/ ~same \/ Unsupported
       \/ \E id \in Missing(list) : Cardinality(EnumsCandidates(id)) # 1
    THEN Error
    ELSE list \o SetToSeq({Added(id, CHOOSE i \in EnumsCandidates(id) : TRUE) : id \in Missing(list)})

EnumsInit ==
    /\ uses = {} /\ members = [c \in {} |-> {}] /\ statements = <<>>
    /\ same \in BOOLEAN /\ enums \in {<<>>} \cup {<<d>> : d \in Defined}
    /\ result = EnumsNone /\ again = EnumsNone

Use(type, capability) ==
    /\ result = EnumsNone /\ Cardinality(uses) < MaxUses
    /\ uses' = uses \cup {[type |-> type, capability |-> capability]}
    /\ UNCHANGED <<members, statements, same, enums, result, again>>

Mention(c) ==
    /\ result = EnumsNone /\ c \notin DOMAIN members
    /\ \E names \in Mentions[c] :
          members' = [k \in DOMAIN members \cup {c} |-> IF k = c THEN names ELSE members[k]]
    /\ UNCHANGED <<uses, statements, same, enums, result, again>>

Declare(statement) ==
    /\ result = EnumsNone /\ Len(statements) < MaxStatements
    /\ statements' = Append(statements, statement)
    /\ UNCHANGED <<uses, members, same, enums, result, again>>

(* The script rewrites the dump in place, and may be run on it again.      *)
Run ==
    /\ result = EnumsNone /\ result' = Supplement(enums)
    /\ UNCHANGED <<uses, members, statements, same, enums, again>>

Rerun ==
    /\ result \notin {EnumsNone, Error} /\ again = EnumsNone
    /\ again' = Supplement(result)
    /\ UNCHANGED <<uses, members, statements, same, enums, result>>

EnumsNext ==
    \/ \E type \in EnumsTypes, c \in Capabilities \cup {EnumsNone} : Use(type, c)
    \/ \E type \in DtoTypes : Use(type, EnumsNone)
    \/ \E c \in DOMAIN Mentions : Mention(c)
    \/ \E s \in Statements : Declare(s)
    \/ Run \/ Rerun

EnumsSpec == EnumsInit /\ [][EnumsNext]_enumsVars

Done == result \notin {EnumsNone, Error}

Additions == SubSeq(result, Len(enums) + 1, Len(result))

(* The steps put together a dump and an export; a run answers with a list  *)
(* or an error, and only on an export of the same version with a list.     *)
EnumsTypeOK ==
    /\ Cardinality(uses) <= MaxUses /\ Len(statements) <= MaxStatements
    /\ Done => same /\ IsPrefix(enums, result)

(* Nothing is lacking and nothing invented: when it succeeds every enum    *)
(* referred to, however deep in arrays and unions, is defined once, and    *)
(* what was added was referred to.                                         *)
UsedEnums(type) ==
    {t.enum : t \in {type} \cup type.element \cup type.union
                    \cup UNION {e.element \cup e.union : e \in type.element \cup type.union}} \ {EnumsNone}

Complete ==
    Done =>
        /\ \A use \in uses : UsedEnums(use.type) \subseteq EnumsIds(result)
        /\ Cardinality(EnumsIds(result)) = Len(result)
        /\ \A i \in 1..Len(Additions) : \E use \in uses : Additions[i].id \in UsedEnums(use.type)

(* An enum is taken from its own assembly, from one declaration and no     *)
(* other that could be meant: with two of its name, none is guessed.       *)
FromOneDeclaration ==
    Done => \A i \in 1..Len(Additions) :
        LET added == Additions[i]
            Fits(s) == s.name = added.name /\ s.form # "other constant"
                       /\ SubSeq(added.id, 1, Len(s.assembly)) = s.assembly
        IN /\ Cardinality({j \in 1..Len(statements) : Fits(statements[j])}) = 1
           /\ \E s \in ToSet(statements) : Fits(s) /\ s.values = added.values

(* An alias stands in only where the type's own name is not declared.      *)
OwnNameFirst ==
    result = Error /\ same /\ (\A i \in 1..Len(statements) : statements[i].form = "enum") =>
        \E use \in uses : \E id \in UsedEnums(use.type) :
            Cardinality({j \in 1..Len(statements) :
                /\ statements[j].name = Last(id)
                /\ SubSeq(id, 1, Len(statements[j].assembly)) = statements[j].assembly}) # 1

(* Run again on the dump it has rewritten, the script changes nothing.     *)
Idempotent == again # EnumsNone => again = result
=============================================================================
